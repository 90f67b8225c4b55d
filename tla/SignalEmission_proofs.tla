----------------------- MODULE SignalEmission_proofs ------------------------
(***************************************************************************)
(* Proofs about SignalEmission, for any listeners and any nesting of       *)
(* emissions: as long as no callback of wl-signal-emit removes the         *)
(* listener that comes next, no removed listener is called, and the linked *)
(* list implements Emission.                                               *)
(***************************************************************************)
EXTENDS SignalEmission, Integers, SequenceTheorems, TLAPS

Markers  == [marker : {"cursor", "end"}, of : Nat \ {0}]
Elements == Listeners \cup Markers

Walk == [walk : {"mutable", "saved"}, next : Elements \cup {None, ListHead, Null},
         running : Listeners \cup {None}]

Types ==
  /\ list \in Seq(Elements) /\ IsInjective(list)
  /\ state \in [Listeners -> {"new", "added", "removed"}]
  /\ emissions \in Seq(Walk)

Mutable(i) == i \in DOMAIN emissions /\ emissions[i].walk = "mutable"

(* What is linked: the listeners that were added and not removed, and the   *)
(* markers of the emissions of wlroots, in their order.                     *)
Links ==
  /\ \A l \in Listeners : Contains(list, l) <=> state[l] = "added"
  /\ \A i \in Nat \ {0} : Contains(list, Cursor(i)) <=> Mutable(i)
  /\ \A i \in Nat \ {0} : Contains(list, End(i)) <=> Mutable(i)
  /\ \A i \in Nat \ {0} : Mutable(i) => Precedes(list, Cursor(i), End(i))

(* What wl_signal_emit() has saved is linked, and if it is a marker then of *)
(* an emission that ends after this one.                                    *)
Pointers ==
  \A i \in DOMAIN emissions : emissions[i].walk = "saved" =>
    \/ emissions[i].next = ListHead
    \/ /\ Contains(list, emissions[i].next)
       /\ emissions[i].next \in Markers => emissions[i].next.of < i

Linkage == Types /\ Links

IInv == Linkage /\ Pointers

-----------------------------------------------------------------------------
(* Lists that hold each element once *)

LEMMA PrecedesByIndex ==
  ASSUME NEW S, NEW s \in Seq(S)
  PROVE  \A e, f : Precedes(s, e, f) <=> \E i, j \in 1..Len(s) : i < j /\ s[i] = e /\ s[j] = f
<1>1. DOMAIN s = 1..Len(s) /\ Len(s) \in Nat
  OBVIOUS
<1> HIDE DEF Precedes
<1>2. ASSUME NEW e, NEW f, NEW i \in 1..Len(s), NEW j \in 1..Len(s), i < j, s[i] = e, s[j] = f
      PROVE  Precedes(s, e, f)
  <2>1. i \in 1..j - 1
    BY <1>1, <1>2
  <2> QED BY <1>1, <1>2, <2>1 DEF Precedes
<1>3. ASSUME NEW e, NEW f, Precedes(s, e, f)
      PROVE  \E i, j \in 1..Len(s) : i < j /\ s[i] = e /\ s[j] = f
  <2>1. PICK j \in 1..Len(s) : s[j] = f /\ \E i \in 1..j - 1 : s[i] = e
    BY <1>1, <1>3 DEF Precedes
  <2>2. PICK i \in 1..j - 1 : s[i] = e
    BY <2>1
  <2> QED BY <1>1, <2>1, <2>2
<1> QED BY <1>2, <1>3

(* A list is a strict order of its elements.                                *)
LEMMA ListOrder ==
  ASSUME NEW S, NEW s \in Seq(S), IsInjective(s)
  PROVE  /\ \A e, f : Precedes(s, e, f) => Contains(s, e) /\ Contains(s, f)
         /\ \A e : ~ Precedes(s, e, e)
         /\ \A e, f : Precedes(s, e, f) => ~ Precedes(s, f, e)
         /\ \A e, f, g : Precedes(s, e, f) /\ Precedes(s, f, g) => Precedes(s, e, g)
         /\ \A e, f : Contains(s, e) /\ Contains(s, f) /\ e # f =>
              Precedes(s, e, f) \/ Precedes(s, f, e)
         /\ \A e : Contains(s, e) => e \in S
<1>1. Len(s) \in Nat /\ DOMAIN s = 1..Len(s) /\ \A i \in 1..Len(s) : s[i] \in S
  OBVIOUS
<1>3. \A e, f : Precedes(s, e, f) <=>
        \E i, j \in 1..Len(s) : i < j /\ s[i] = e /\ s[j] = f
  BY PrecedesByIndex
<1>2. \A i, j \in 1..Len(s) : Precedes(s, s[i], s[j]) <=> i < j
  BY <1>1, <1>3 DEF IsInjective
<1>4. \A e, f : Precedes(s, e, f) => Contains(s, e) /\ Contains(s, f)
  BY <1>3 DEF Contains
<1>5. \A e : Contains(s, e) <=> \E i \in 1..Len(s) : s[i] = e
  BY DEF Contains
<1>6. \A e : ~ Precedes(s, e, e)
  BY <1>1, <1>2, <1>3
<1>7. ASSUME NEW e, NEW f, NEW g, Precedes(s, e, f), Precedes(s, f, g)
      PROVE  Precedes(s, e, g)
  <2>1. PICK i \in 1..Len(s), j \in 1..Len(s) : s[i] = e /\ s[j] = f /\ i < j
    BY <1>3, <1>7
  <2>2. PICK k \in 1..Len(s) : s[k] = g
    BY <1>3, <1>7
  <2>3. j < k
    BY <1>2, <1>7, <2>1, <2>2
  <2> QED BY <1>2, <2>1, <2>2, <2>3
<1>8. ASSUME NEW e, NEW f, Contains(s, e), Contains(s, f), e # f
      PROVE  Precedes(s, e, f) \/ Precedes(s, f, e)
  <2>1. PICK i \in 1..Len(s), j \in 1..Len(s) : s[i] = e /\ s[j] = f
    BY <1>5, <1>8
  <2>2. i < j \/ j < i
    BY <1>1, <1>8, <2>1
  <2> QED BY <1>2, <2>1, <2>2
<1>9. \A e, f : Precedes(s, e, f) => ~ Precedes(s, f, e)
  BY <1>6, <1>7
<1>10. \A e : Contains(s, e) => e \in S
  BY <1>1, <1>5
<1> QED BY <1>4, <1>6, <1>7, <1>8, <1>9, <1>10

(* wl_list_insert() at the tail                                             *)
LEMMA AtTail ==
  ASSUME NEW S, NEW s \in Seq(S), NEW e \in S, IsInjective(s), ~ Contains(s, e)
  PROVE  /\ Append(s, e) \in Seq(S) /\ IsInjective(Append(s, e))
         /\ \A f : Contains(Append(s, e), f) <=> Contains(s, f) \/ f = e
         /\ \A f, g : Precedes(Append(s, e), f, g) <=>
              Precedes(s, f, g) \/ (Contains(s, f) /\ g = e)
<1> DEFINE t == Append(s, e)
           n == Len(s)
<1>1. /\ t \in Seq(S) /\ DOMAIN s = 1..n /\ DOMAIN t = 1..n + 1 /\ n \in Nat /\ Len(t) = n + 1
      /\ \A i \in 1..n : t[i] = s[i]
      /\ t[n + 1] = e
  OBVIOUS
<1>2. \A i \in 1..n : s[i] # e
  BY DEF Contains
<1>0. /\ \A f, g : Precedes(s, f, g) <=> \E i, j \in 1..n : i < j /\ s[i] = f /\ s[j] = g
      /\ \A f, g : Precedes(t, f, g) <=> \E i, j \in 1..n + 1 : i < j /\ t[i] = f /\ t[j] = g
  <2> HIDE DEF t
  <2> QED BY <1>1, PrecedesByIndex
<1> HIDE DEF t, n
<1>3. \A f : Contains(t, f) <=> Contains(s, f) \/ f = e
  BY <1>1 DEF Contains, n
<1>4. IsInjective(t)
  BY <1>1, <1>2 DEF IsInjective
<1>5. ASSUME NEW f, NEW g
      PROVE  Precedes(t, f, g) <=> Precedes(s, f, g) \/ (Contains(s, f) /\ g = e)
  <2>1. ASSUME Precedes(t, f, g)
        PROVE  Precedes(s, f, g) \/ (Contains(s, f) /\ g = e)
    <3>1. PICK i \in 1..n + 1, j \in 1..n + 1 : i < j /\ t[i] = f /\ t[j] = g
      BY <1>0, <2>1
    <3>2. i \in 1..n /\ s[i] = f
      BY <1>1, <3>1
    <3>3. CASE j = n + 1
      BY <1>1, <3>1, <3>2, <3>3 DEF Contains, n
    <3>4. CASE j \in 1..n
      BY <1>0, <1>1, <3>1, <3>2, <3>4
    <3> QED BY <1>1, <3>1, <3>3, <3>4
  <2>2. ASSUME Precedes(s, f, g) PROVE Precedes(t, f, g)
    <3>1. PICK i \in 1..n, j \in 1..n : i < j /\ s[i] = f /\ s[j] = g
      BY <1>0, <2>2
    <3>2. i \in 1..n + 1 /\ j \in 1..n + 1 /\ t[i] = f /\ t[j] = g
      BY <1>1, <3>1
    <3> QED BY <1>0, <3>1, <3>2
  <2>3. ASSUME Contains(s, f), g = e PROVE Precedes(t, f, g)
    <3>1. PICK i \in 1..n : s[i] = f
      BY <2>3 DEF Contains, n
    <3>2. i \in 1..n + 1 /\ n + 1 \in 1..n + 1 /\ i < n + 1 /\ t[i] = f
      BY <1>1, <3>1
    <3> QED BY <1>0, <1>1, <2>3, <3>2
  <2> QED BY <2>1, <2>2, <2>3
<1> QED BY <1>1, <1>3, <1>4, <1>5 DEF t

(* wl_list_insert() at the head                                             *)
LEMMA AtHead ==
  ASSUME NEW S, NEW s \in Seq(S), NEW e \in S, IsInjective(s), ~ Contains(s, e)
  PROVE  /\ <<e>> \o s \in Seq(S) /\ IsInjective(<<e>> \o s)
         /\ \A f : Contains(<<e>> \o s, f) <=> Contains(s, f) \/ f = e
         /\ \A f, g : Precedes(<<e>> \o s, f, g) <=>
              Precedes(s, f, g) \/ (f = e /\ Contains(s, g))
<1> DEFINE t == <<e>> \o s
           n == Len(s)
<1>1. /\ t \in Seq(S) /\ DOMAIN s = 1..n /\ DOMAIN t = 1..n + 1 /\ n \in Nat /\ Len(t) = n + 1
      /\ \A i \in 1..n : t[i + 1] = s[i]
      /\ t[1] = e
  OBVIOUS
<1>2. \A i \in 1..n : s[i] # e
  BY DEF Contains
<1>0. /\ \A f, g : Precedes(s, f, g) <=> \E i, j \in 1..n : i < j /\ s[i] = f /\ s[j] = g
      /\ \A f, g : Precedes(t, f, g) <=> \E i, j \in 1..n + 1 : i < j /\ t[i] = f /\ t[j] = g
  <2> HIDE DEF t
  <2> QED BY <1>1, PrecedesByIndex
<1> HIDE DEF t, n
<1>3. \A k \in 1..n + 1 : k = 1 \/ (k - 1 \in 1..n /\ t[k] = s[k - 1])
  <2> SUFFICES ASSUME NEW k \in 1..n + 1, k # 1 PROVE k - 1 \in 1..n /\ t[k] = s[k - 1]
    OBVIOUS
  <2>1. k - 1 \in 1..n /\ (k - 1) + 1 = k
    BY <1>1
  <2> QED BY <1>1, <2>1
<1>4. \A f : Contains(t, f) <=> Contains(s, f) \/ f = e
  <2>1. ASSUME NEW f, Contains(t, f) PROVE Contains(s, f) \/ f = e
    BY <1>1, <1>3, <2>1 DEF Contains, n
  <2>2. ASSUME NEW f, Contains(s, f) PROVE Contains(t, f)
    <3>1. PICK i \in 1..n : s[i] = f
      BY <2>2 DEF Contains, n
    <3>2. i + 1 \in 1..n + 1 /\ t[i + 1] = f
      BY <1>1, <3>1
    <3> QED BY <1>1, <3>2 DEF Contains
  <2>3. Contains(t, e)
    BY <1>1 DEF Contains
  <2> QED BY <2>1, <2>2, <2>3
<1>5. IsInjective(t)
  <2> SUFFICES ASSUME NEW a \in 1..n + 1, NEW b \in 1..n + 1, t[a] = t[b], a < b PROVE FALSE
    BY <1>1 DEF IsInjective
  <2>1. b - 1 \in 1..n /\ t[b] = s[b - 1]
    BY <1>1, <1>3
  <2>2. CASE a = 1
    BY <1>1, <1>2, <2>1, <2>2
  <2>3. CASE a # 1
    <3>1. a - 1 \in 1..n /\ t[a] = s[a - 1] /\ a - 1 # b - 1
      BY <1>1, <1>3, <2>3
    <3> QED BY <1>1, <2>1, <3>1 DEF IsInjective
  <2> QED BY <2>2, <2>3
<1>6. ASSUME NEW f, NEW g
      PROVE  Precedes(t, f, g) <=> Precedes(s, f, g) \/ (f = e /\ Contains(s, g))
  <2>1. ASSUME Precedes(t, f, g)
        PROVE  Precedes(s, f, g) \/ (f = e /\ Contains(s, g))
    <3>1. PICK i \in 1..n + 1, j \in 1..n + 1 : i < j /\ t[i] = f /\ t[j] = g
      BY <1>0, <2>1
    <3>2. j - 1 \in 1..n /\ s[j - 1] = g
      BY <1>1, <1>3, <3>1
    <3>3. CASE i = 1
      BY <1>1, <3>1, <3>2, <3>3 DEF Contains, n
    <3>4. CASE i # 1
      <4>1. i - 1 \in 1..n /\ i - 1 < j - 1 /\ s[i - 1] = f
        BY <1>1, <1>3, <3>1, <3>4
      <4> QED BY <1>0, <3>2, <4>1
    <3> QED BY <3>3, <3>4
  <2>2. ASSUME Precedes(s, f, g) PROVE Precedes(t, f, g)
    <3>1. PICK i \in 1..n, j \in 1..n : i < j /\ s[i] = f /\ s[j] = g
      BY <1>0, <2>2
    <3>2. i + 1 \in 1..n + 1 /\ j + 1 \in 1..n + 1 /\ i + 1 < j + 1 /\ t[i + 1] = f /\ t[j + 1] = g
      BY <1>1, <3>1
    <3> QED BY <1>0, <3>2
  <2>3. ASSUME f = e, Contains(s, g) PROVE Precedes(t, f, g)
    <3>1. PICK j \in 1..n : s[j] = g
      BY <2>3 DEF Contains, n
    <3>2. 1 \in 1..n + 1 /\ j + 1 \in 1..n + 1 /\ 1 < j + 1 /\ t[j + 1] = g
      BY <1>1, <3>1
    <3> QED BY <1>0, <1>1, <2>3, <3>2
  <2> QED BY <2>1, <2>2, <2>3
<1> QED BY <1>1, <1>4, <1>5, <1>6 DEF t

(* The cursor of an emission and what follows it change places.             *)
LEMMA Swapped ==
  ASSUME NEW S, NEW s \in Seq(S), IsInjective(s), NEW k \in DOMAIN s, k + 1 \in DOMAIN s,
         NEW c, NEW e, s[k] = c, s[k + 1] = e,
         NEW t \in Seq(S), Len(t) = Len(s), t[k] = e, t[k + 1] = c,
         \A i \in DOMAIN s \ {k, k + 1} : t[i] = s[i]
  PROVE  /\ IsInjective(t)
         /\ \A f : Contains(t, f) <=> Contains(s, f)
         /\ \A f, g : Precedes(t, f, g) <=>
              (Precedes(s, f, g) /\ ~ (f = c /\ g = e)) \/ (f = e /\ g = c)
<1> DEFINE n == Len(s)
           p(i) == IF i = k THEN k + 1 ELSE IF i = k + 1 THEN k ELSE i
<1>1. DOMAIN s = 1..n /\ n \in Nat /\ k \in 1..n /\ k + 1 \in 1..n /\ c \in S /\ e \in S
  OBVIOUS
<1>2. DOMAIN t = 1..n /\ Len(t) = n
  BY <1>1
<1>3. \A i \in 1..n : p(i) \in 1..n /\ p(p(i)) = i /\ t[i] = s[p(i)]
  BY <1>1
<1>4. \A i, j \in 1..n : i < j /\ ~ (i = k /\ j = k + 1) => p(i) < p(j)
  BY <1>1
<1>5. p(k) = k + 1 /\ p(k + 1) = k
  BY <1>1
<1> HIDE DEF n, p
<1>6. IsInjective(t)
  <2> SUFFICES ASSUME NEW a \in 1..n, NEW b \in 1..n, t[a] = t[b] PROVE a = b
    BY <1>2 DEF IsInjective
  <2>1. p(a) = p(b)
    BY <1>1, <1>3 DEF IsInjective
  <2> QED BY <1>3, <2>1
<1>7. \A f : Contains(t, f) <=> Contains(s, f)
  BY <1>1, <1>2, <1>3 DEF Contains, n
<1>8. /\ \A f, g : Precedes(s, f, g) <=> \E i, j \in 1..n : i < j /\ s[i] = f /\ s[j] = g
      /\ \A f, g : Precedes(t, f, g) <=> \E i, j \in 1..n : i < j /\ t[i] = f /\ t[j] = g
  BY <1>2, PrecedesByIndex DEF n
<1>9. ASSUME NEW f, NEW g, Precedes(t, f, g)
      PROVE  (Precedes(s, f, g) /\ ~ (f = c /\ g = e)) \/ (f = e /\ g = c)
  <2>1. PICK i \in 1..n, j \in 1..n : i < j /\ t[i] = f /\ t[j] = g
    BY <1>8, <1>9
  <2>2. CASE i = k /\ j = k + 1
    BY <1>1, <1>3, <1>5, <2>1, <2>2
  <2>3. CASE ~ (i = k /\ j = k + 1)
    <3>1. p(i) < p(j) /\ s[p(i)] = f /\ s[p(j)] = g /\ p(i) \in 1..n /\ p(j) \in 1..n
      BY <1>3, <1>4, <2>1, <2>3
    <3>2. f = c /\ g = e => p(i) = k /\ p(j) = k + 1
      BY <1>1, <3>1 DEF IsInjective
    <3>3. f = c /\ g = e => i = k + 1 /\ j = k
      BY <1>3, <1>5, <3>2
    <3> QED BY <1>1, <1>8, <2>1, <3>1, <3>3
  <2> QED BY <2>2, <2>3
<1>10. ASSUME NEW f, NEW g, Precedes(s, f, g), ~ (f = c /\ g = e)
       PROVE  Precedes(t, f, g)
  <2>1. PICK i \in 1..n, j \in 1..n : i < j /\ s[i] = f /\ s[j] = g
    BY <1>8, <1>10
  <2>2. p(i) < p(j)
    BY <1>1, <1>4, <1>10, <2>1
  <2>3. p(i) \in 1..n /\ p(j) \in 1..n /\ t[p(i)] = f /\ t[p(j)] = g
    BY <1>3, <2>1
  <2> QED BY <1>8, <2>2, <2>3
<1>11. Precedes(t, e, c)
  <2>1. t[k] = e /\ t[k + 1] = c /\ k < k + 1
    BY <1>1, <1>3, <1>5
  <2> QED BY <1>1, <1>8, <2>1
<1> QED BY <1>2, <1>6, <1>7, <1>9, <1>10, <1>11

(* wl_list_remove()                                                         *)
LEMMA Unlinked ==
  ASSUME NEW S, NEW s \in Seq(S), NEW e, IsInjective(s), Contains(s, e)
  PROVE  /\ RemoveFirst(s, e) \in Seq(S) /\ IsInjective(RemoveFirst(s, e))
         /\ \A f : Contains(RemoveFirst(s, e), f) <=> Contains(s, f) /\ f # e
         /\ \A f, g : Precedes(RemoveFirst(s, e), f, g) <=>
              Precedes(s, f, g) /\ f # e /\ g # e
<1> DEFINE n == Len(s)
<1>0. DOMAIN s = 1..n /\ n \in Nat
  OBVIOUS
<1>1. PICK m \in 1..n : s[m] = e
  BY DEF Contains
<1> DEFINE I == {j \in 1..n : s[j] = e}
           t == [j \in 1..n - 1 |-> IF j < m THEN s[j] ELSE s[j + 1]]
           p(j) == IF j < m THEN j ELSE j + 1
<1>2. I = {m}
  BY <1>0, <1>1 DEF IsInjective
<1>3. Min(I) = m
  BY <1>2 DEF Min
<1>4. RemoveFirst(s, e) = RemoveAt(s, m)
  BY <1>1, <1>2, <1>3 DEF RemoveFirst, SelectInSeq
<1>5. RemoveAt(s, m) = t
  <2> DEFINE a == SubSeq(s, 1, m - 1)
             b == SubSeq(s, m + 1, n)
  <2>1. a \in Seq(S) /\ Len(a) = m - 1 /\ \A j \in 1..m - 1 : a[j] = s[j]
    BY SubSeqProperties
  <2>2. b \in Seq(S) /\ Len(b) = n - m /\ \A j \in 1..n - m : b[j] = s[m + j]
    BY SubSeqProperties
  <2> HIDE DEF a, b
  <2>3. /\ a \o b \in Seq(S) /\ Len(a \o b) = n - 1
        /\ \A j \in 1..n - 1 : (a \o b)[j] = IF j < m THEN a[j] ELSE b[j - (m - 1)]
    <3>1. a \in Seq(S) /\ b \in Seq(S) /\ Len(a) = m - 1 /\ Len(b) = n - m
      BY <2>1, <2>2
    <3>2. /\ a \o b \in Seq(S)
          /\ Len(a \o b) = Len(a) + Len(b)
          /\ \A j \in 1..Len(a) + Len(b) :
               (a \o b)[j] = IF j =< Len(a) THEN a[j] ELSE b[j - Len(a)]
      BY <3>1, ConcatProperties
    <3> QED BY <3>1, <3>2
  <2>4. t \in Seq(S) /\ Len(t) = Len(a \o b) /\ \A j \in 1..Len(t) : t[j] = (a \o b)[j]
    <3>1. \A j \in 1..n - 1 : t[j] = IF j < m THEN s[j] ELSE s[j + 1]
      OBVIOUS
    <3>2. t \in Seq(S) /\ Len(t) = n - 1
      OBVIOUS
    <3>3. \A j \in 1..n - 1 : (a \o b)[j] = IF j < m THEN s[j] ELSE s[j + 1]
      BY <1>0, <2>1, <2>2, <2>3
    <3> HIDE DEF t
    <3> QED BY <2>3, <3>1, <3>2, <3>3
  <2>5. t = a \o b
    BY <2>3, <2>4, SeqEqual
  <2> QED BY <2>5 DEF RemoveAt, a, b
<1>6. /\ t \in Seq(S) /\ Len(t) = n - 1 /\ DOMAIN t = 1..n - 1
      /\ \A j \in 1..n - 1 : t[j] = s[p(j)]
  BY <1>0
<1>7. /\ \A j \in 1..n - 1 : p(j) \in 1..n /\ p(j) # m
      /\ \A i, j \in 1..n - 1 : i < j <=> p(i) < p(j)
      /\ \A k \in 1..n : k # m => \E j \in 1..n - 1 : p(j) = k
  <2>1. ASSUME NEW k \in 1..n, k # m PROVE \E j \in 1..n - 1 : p(j) = k
    <3>1. CASE k < m
      BY <1>0, <3>1
    <3>2. CASE k > m
      <4>1. k - 1 \in 1..n - 1 /\ p(k - 1) = k
        BY <1>0, <3>2
      <4> QED BY <4>1
    <3> QED BY <1>0, <2>1, <3>1, <3>2
  <2> QED BY <1>0, <2>1
<1> HIDE DEF I, t, p
<1>8. \A k \in 1..n : s[k] = e => k = m
  BY <1>0, <1>1 DEF IsInjective
<1>9. IsInjective(t)
  <2> SUFFICES ASSUME NEW a \in 1..n - 1, NEW b \in 1..n - 1, t[a] = t[b] PROVE a = b
    BY <1>6 DEF IsInjective
  <2>1. p(a) = p(b)
    BY <1>0, <1>6, <1>7 DEF IsInjective
  <2>2. p(a) \in Nat /\ p(b) \in Nat /\ ~ (a < b) /\ ~ (b < a)
    BY <1>0, <1>7, <2>1
  <2> QED BY <1>0, <2>2
<1>10. ASSUME NEW f PROVE Contains(t, f) <=> Contains(s, f) /\ f # e
  <2>1. Contains(t, f) <=> \E j \in 1..n - 1 : s[p(j)] = f
    BY <1>6 DEF Contains
  <2>2. Contains(s, f) <=> \E k \in 1..n : s[k] = f
    BY DEF Contains
  <2>3. ASSUME NEW j \in 1..n - 1, s[p(j)] = f PROVE Contains(s, f) /\ f # e
    BY <1>7, <1>8, <2>2, <2>3
  <2>4. ASSUME NEW k \in 1..n, s[k] = f, f # e PROVE Contains(t, f)
    BY <1>1, <1>7, <2>1, <2>4
  <2> QED BY <2>1, <2>2, <2>3, <2>4
<1>11. ASSUME NEW f, NEW g
       PROVE  Precedes(t, f, g) <=> Precedes(s, f, g) /\ f # e /\ g # e
  <2>1. Precedes(t, f, g) <=> \E i, j \in 1..n - 1 : i < j /\ s[p(i)] = f /\ s[p(j)] = g
    <3>0. t \in Seq(S)
      BY <1>6
    <3>1. Precedes(t, f, g) <=> \E i, j \in 1..Len(t) : i < j /\ t[i] = f /\ t[j] = g
      BY ONLY <3>0, PrecedesByIndex
    <3>2. Len(t) = n - 1
      BY <1>6
    <3> QED BY <1>6, <3>1, <3>2
  <2>2. Precedes(s, f, g) <=> \E i, j \in 1..n : i < j /\ s[i] = f /\ s[j] = g
    BY PrecedesByIndex
  <2> HIDE DEF n
  <2>3. ASSUME NEW i \in 1..n - 1, NEW j \in 1..n - 1, i < j, s[p(i)] = f, s[p(j)] = g
        PROVE  Precedes(s, f, g) /\ f # e /\ g # e
    <3>1. p(i) < p(j) /\ p(i) \in 1..n /\ p(j) \in 1..n /\ p(i) # m /\ p(j) # m
      BY <1>7, <2>3
    <3> QED BY <1>8, <2>2, <2>3, <3>1
  <2>4. ASSUME NEW k \in 1..n, NEW l \in 1..n, k < l, s[k] = f, s[l] = g, f # e, g # e
        PROVE  Precedes(t, f, g)
    <3>1. k # m /\ l # m
      BY <1>1, <2>4
    <3>2. PICK i \in 1..n - 1 : p(i) = k
      BY <1>7, <3>1
    <3>3. PICK j \in 1..n - 1 : p(j) = l
      BY <1>7, <3>1
    <3> QED BY <1>7, <2>1, <2>4, <3>2, <3>3
  <2> QED BY <2>1, <2>2, <2>3, <2>4
<1> QED BY <1>4, <1>5, <1>6, <1>9, <1>10, <1>11

(* The element that the next pointer of e refers to, and the head.          *)
LEMMA NextInList ==
  ASSUME NEW S, list \in Seq(S), IsInjective(list), NEW e, Contains(list, e)
  PROVE  /\ Position(e) \in DOMAIN list /\ list[Position(e)] = e
         /\ \/ Position(e) = Len(list) /\ After(e) = ListHead /\ \A f : ~ Precedes(list, e, f)
            \/ /\ Position(e) + 1 \in DOMAIN list /\ list[Position(e) + 1] = After(e)
               /\ Precedes(list, e, After(e))
               /\ \A f : Precedes(list, e, f) => f = After(e) \/ Precedes(list, After(e), f)
               /\ \A f : Precedes(list, f, After(e)) => f = e \/ Precedes(list, f, e)
<1>1. DOMAIN list = 1..Len(list) /\ Len(list) \in Nat
  OBVIOUS
<1>2. PICK k \in 1..Len(list) : k = Position(e) /\ list[k] = e
  BY <1>1 DEF Contains, Position
<1>3. \A f, g : Precedes(list, f, g) <=>
        \E i, j \in 1..Len(list) : i < j /\ list[i] = f /\ list[j] = g
  BY PrecedesByIndex
<1>4. \A i \in 1..Len(list) : list[i] = e => i = k
  BY <1>1, <1>2 DEF IsInjective
<1>5. CASE k = Len(list)
  <2>1. After(e) = ListHead
    BY <1>2, <1>5 DEF After
  <2>2. ASSUME NEW f, Precedes(list, e, f) PROVE FALSE
    <3>1. PICK i \in 1..Len(list), j \in 1..Len(list) : i < j /\ list[i] = e
      BY <1>3, <2>2
    <3>2. i = k
      BY <1>4, <3>1
    <3> QED BY <1>1, <1>5, <3>1, <3>2
  <2> QED BY <1>1, <1>2, <1>5, <2>1, <2>2
<1>6. CASE k # Len(list)
  <2>1. k + 1 \in 1..Len(list)
    BY <1>1, <1>2, <1>6
  <2>2. PICK a : a = After(e) /\ list[k + 1] = a
    BY <1>2, <1>6 DEF After
  <2>3. \A i \in 1..Len(list) : list[i] = a => i = k + 1
    BY <1>1, <2>1, <2>2 DEF IsInjective
  <2>4. Precedes(list, e, a)
    BY <1>1, <1>2, <1>3, <2>1, <2>2
  <2>5. ASSUME NEW f, Precedes(list, e, f) PROVE f = a \/ Precedes(list, a, f)
    <3>1. PICK j \in 1..Len(list) : k < j /\ list[j] = f
      BY <1>3, <1>4, <2>5
    <3>2. j = k + 1 \/ k + 1 < j
      BY <1>1, <3>1
    <3> QED BY <1>3, <2>1, <2>2, <3>1, <3>2
  <2>6. ASSUME NEW f, Precedes(list, f, a) PROVE f = e \/ Precedes(list, f, e)
    <3>1. PICK i \in 1..Len(list) : i < k + 1 /\ list[i] = f
      BY <1>3, <2>3, <2>6
    <3>2. i = k \/ i < k
      BY <1>1, <3>1
    <3> QED BY <1>2, <1>3, <3>1, <3>2
  <2> QED BY <1>1, <1>2, <2>1, <2>2, <2>4, <2>5, <2>6
<1> QED BY <1>5, <1>6

LEMMA FirstInList ==
  ASSUME NEW S, list \in Seq(S), IsInjective(list)
  PROVE  IF list = <<>> THEN First = ListHead /\ \A f : ~ Contains(list, f)
         ELSE Contains(list, First) /\ \A f : Contains(list, f) => f = First \/ Precedes(list, First, f)
<1>1. DOMAIN list = 1..Len(list) /\ Len(list) \in Nat /\ (list = <<>> <=> Len(list) = 0)
  OBVIOUS
<1>2. CASE list = <<>>
  BY <1>1, <1>2 DEF First, Contains
<1>3. CASE list # <<>>
  <2>1. First = list[1] /\ 1 \in 1..Len(list)
    BY <1>1, <1>3 DEF First
  <2>2. ASSUME NEW f, Contains(list, f) PROVE f = First \/ Precedes(list, First, f)
    <3>1. PICK j \in 1..Len(list) : list[j] = f
      BY <2>2 DEF Contains
    <3>2. j = 1 \/ 1 < j
      BY <1>1, <3>1
    <3> QED BY <2>1, <3>1, <3>2, PrecedesByIndex
  <2> QED BY <1>3, <2>1, <2>2 DEF Contains
<1> QED BY <1>2, <1>3

-----------------------------------------------------------------------------
(* Markers and walks *)

LEMMA MarkerFacts ==
  /\ \A i \in Nat \ {0} : Cursor(i) \in Markers /\ End(i) \in Markers
  /\ \A i, j \in Nat \ {0} : /\ Cursor(i) = Cursor(j) => i = j
                             /\ End(i) = End(j) => i = j
                             /\ Cursor(i) # End(j)
  /\ \A e \in Markers : e.of \in Nat \ {0} /\ (e = Cursor(e.of) \/ e = End(e.of))
  /\ \A i \in Nat \ {0} : Cursor(i).of = i /\ End(i).of = i
BY DEF Markers, Cursor, End

LEMMA MarkersApart ==
  /\ Listeners \cap Markers = {} /\ ListHead # Null
  /\ ListHead \notin Elements /\ Null \notin Elements /\ None \notin Listeners
<1>1. Markers \subseteq [marker : {"cursor", "end"}, of : Nat]
  BY DEF Markers
<1> QED BY <1>1, EmissionAssumption DEF Elements

LEMMA TopWalk ==
  ASSUME Types
  PROVE  /\ Depth \in Nat /\ DOMAIN emissions = 1..Depth
         /\ \A i \in DOMAIN emissions : emissions[i] \in Walk
         /\ emissions = <<>> <=> Depth = 0
         /\ emissions # <<>> => Depth \in DOMAIN emissions /\ Top = emissions[Depth] /\ Top \in Walk
         /\ ~ Calling => emissions # <<>> /\ Top.running = None
BY DEF Types, Depth, Top, Last, Calling

(* A walk begins.                                                           *)
LEMMA Begun ==
  ASSUME Types, NEW w \in Walk, emissions' = Append(emissions, w)
  PROVE  /\ emissions' \in Seq(Walk)
         /\ Depth' = Depth + 1 /\ DOMAIN emissions' = 1..Depth + 1
         /\ emissions'[Depth + 1] = w
         /\ \A i \in DOMAIN emissions : i \in DOMAIN emissions' /\ emissions'[i] = emissions[i]
BY DEF Types, Depth

(* The innermost walk goes on.                                              *)
LEMMA Updated ==
  ASSUME Types, emissions # <<>>, NEW w \in Walk, Update(w)
  PROVE  /\ emissions' \in Seq(Walk)
         /\ Depth' = Depth /\ DOMAIN emissions' = DOMAIN emissions
         /\ emissions'[Depth] = w
         /\ \A i \in DOMAIN emissions : i # Depth => emissions'[i] = emissions[i]
BY TopWalk DEF Types, Update, Depth

(* The innermost walk ends.                                                 *)
LEMMA Ended ==
  ASSUME Types, emissions # <<>>, emissions' = Front(emissions)
  PROVE  /\ emissions' \in Seq(Walk)
         /\ Depth' = Depth - 1 /\ DOMAIN emissions' = 1..Depth - 1
         /\ \A i \in 1..Depth - 1 : i \in DOMAIN emissions /\ emissions'[i] = emissions[i]
<1>1. Len(emissions) \in Nat \ {0} /\ \A i \in 1..Len(emissions) : emissions[i] \in Walk
  BY DEF Types
<1> DEFINE m == Len(emissions) - 1
           t == SubSeq(emissions, 1, m)
<1>0. emissions \in Seq(Walk) /\ 1 \in 1..Len(emissions) + 1 /\ m \in 0..Len(emissions)
  BY <1>1 DEF Types
<1>2. /\ t \in Seq(Walk)
      /\ Len(t) = m
      /\ \A i \in 1..m : t[i] = emissions[i]
  <2> HIDE DEF m
  <2>1. m \in Nat /\ m =< Len(emissions) /\ m - 1 + 1 = m /\ \A i \in 1..m : i \in 1..Len(emissions) /\ 1 + i - 1 = i
    BY <1>0, <1>1
  <2> QED BY <1>0, <1>1, <2>1, SubSeqProperties
<1>3. emissions' = t
  BY DEF Front
<1> HIDE DEF t
<1>4. DOMAIN t = 1..Len(t)
  BY <1>2
<1> QED BY <1>1, <1>2, <1>3, <1>4 DEF Depth, Types

-----------------------------------------------------------------------------
(* The inductive invariant *)

LEMMA InitIInv == Init => IInv
<1> SUFFICES ASSUME Init PROVE IInv
  OBVIOUS
<1>1. Types
  BY DEF Init, Types, IsInjective
<1>2. \A e, f : ~ Contains(list, e) /\ ~ Precedes(list, e, f)
  BY DEF Init, Contains, Precedes
<1>3. DOMAIN emissions = {}
  BY DEF Init
<1>4. Links
  BY <1>2, <1>3 DEF Init, Links, Mutable
<1>5. Pointers
  BY <1>3 DEF Pointers
<1> QED BY <1>1, <1>4, <1>5 DEF Linkage, IInv

LEMMA SignalAddKeeps ==
  ASSUME Linkage, NEW l \in Listeners, SignalAdd(l)
  PROVE  Linkage' /\ (Pointers /\ ~ RemovesNext => Pointers')
<1> USE DEF Linkage
<1>1. /\ list \in Seq(Elements) /\ IsInjective(list) /\ ~ Contains(list, l) /\ l \in Elements
      /\ list' = Append(list, l)
  BY DEF SignalAdd, Fresh, Links, Types, Elements
<1>2. /\ list' \in Seq(Elements) /\ IsInjective(list')
      /\ \A f : Contains(list', f) <=> Contains(list, f) \/ f = l
      /\ \A f, g : Precedes(list', f, g) <=> Precedes(list, f, g) \/ (Contains(list, f) /\ g = l)
  BY <1>1, AtTail
<1>3. state' = [state EXCEPT ![l] = "added"] /\ emissions' = emissions
  BY DEF SignalAdd
<1>4. Types'
  BY <1>2, <1>3 DEF Types
<1>5. \A i \in Nat \ {0} : Cursor(i) # l /\ End(i) # l
  BY MarkerFacts, MarkersApart
<1>6. Links'
  BY <1>2, <1>3, <1>5 DEF Links, Mutable, Types
<1>7. Pointers /\ ~ RemovesNext => Pointers'
  BY <1>2, <1>3 DEF Pointers
<1> QED BY <1>4, <1>6, <1>7

LEMMA SignalRemoveKeeps ==
  ASSUME Linkage, NEW l \in Listeners, SignalRemove(l)
  PROVE  Linkage' /\ (Pointers /\ ~ RemovesNext => Pointers')
<1> USE DEF Linkage
<1>1. /\ list \in Seq(Elements) /\ IsInjective(list) /\ Contains(list, l)
      /\ list' = RemoveFirst(list, l)
  BY DEF SignalRemove, Links, Types
<1>2. /\ list' \in Seq(Elements) /\ IsInjective(list')
      /\ \A f : Contains(list', f) <=> Contains(list, f) /\ f # l
      /\ \A f, g : Precedes(list', f, g) <=> Precedes(list, f, g) /\ f # l /\ g # l
  BY <1>1, Unlinked
<1>3. state' = [state EXCEPT ![l] = "removed"] /\ emissions' = emissions
  BY DEF SignalRemove
<1>4. Types'
  BY <1>2, <1>3 DEF Types
<1>5. \A i \in Nat \ {0} : Cursor(i) # l /\ End(i) # l
  BY MarkerFacts, MarkersApart
<1>6. Links'
  BY <1>2, <1>3, <1>5 DEF Links, Mutable, Types
<1>7. Pointers /\ ~ RemovesNext => Pointers'
  BY <1>2, <1>3 DEF Pointers, SignalRemove
<1> QED BY <1>4, <1>6, <1>7

(* wl_signal_emit_mutable() links its markers at both ends.                 *)
LEMMA MarkersLinked ==
  ASSUME Linkage, EmitMutable
  PROVE  /\ list' \in Seq(Elements) /\ IsInjective(list')
         /\ \A f : Contains(list', f) <=>
              Contains(list, f) \/ f = Cursor(Depth + 1) \/ f = End(Depth + 1)
         /\ \A f, g : Precedes(list', f, g) <=>
              \/ Precedes(list, f, g)
              \/ Contains(list, f) /\ g = End(Depth + 1)
              \/ f = Cursor(Depth + 1) /\ (Contains(list, g) \/ g = End(Depth + 1))
<1> USE DEF Linkage
<1>1. Depth + 1 \in Nat \ {0} /\ Depth + 1 \notin DOMAIN emissions
  BY TopWalk
<1>2. PICK c, e : c = Cursor(Depth + 1) /\ e = End(Depth + 1)
  OBVIOUS
<1>3. c \in Elements /\ e \in Elements /\ c # e
  BY <1>1, <1>2, MarkerFacts DEF Elements
<1>4. ~ Contains(list, c) /\ ~ Contains(list, e)
  BY <1>1, <1>2 DEF Links, Mutable
<1>5. list \in Seq(Elements) /\ IsInjective(list)
  BY DEF Types
<1>6. PICK s : s = Append(list, e)
  OBVIOUS
<1>7. /\ s \in Seq(Elements) /\ IsInjective(s)
      /\ \A f : Contains(s, f) <=> Contains(list, f) \/ f = e
      /\ \A f, g : Precedes(s, f, g) <=> Precedes(list, f, g) \/ (Contains(list, f) /\ g = e)
  BY <1>3, <1>4, <1>5, <1>6, AtTail
<1>8. /\ <<c>> \o s \in Seq(Elements) /\ IsInjective(<<c>> \o s)
      /\ \A f : Contains(<<c>> \o s, f) <=> Contains(s, f) \/ f = c
      /\ \A f, g : Precedes(<<c>> \o s, f, g) <=> Precedes(s, f, g) \/ (f = c /\ Contains(s, g))
  BY <1>3, <1>4, <1>7, AtHead
<1>9. list' = <<c>> \o s
  BY <1>2, <1>6 DEF EmitMutable
<1> QED BY <1>2, <1>7, <1>8, <1>9

LEMMA EmitMutableKeeps ==
  ASSUME Linkage, EmitMutable
  PROVE  Linkage' /\ (Pointers /\ ~ RemovesNext => Pointers')
<1> USE DEF Linkage
<1>1. PICK n \in Nat \ {0} : n = Depth + 1 /\ n \notin DOMAIN emissions
  BY TopWalk
<1>2. /\ list' \in Seq(Elements) /\ IsInjective(list')
      /\ \A f : Contains(list', f) <=> Contains(list, f) \/ f = Cursor(n) \/ f = End(n)
      /\ \A f, g : Precedes(list', f, g) <=>
           \/ Precedes(list, f, g)
           \/ Contains(list, f) /\ g = End(n)
           \/ f = Cursor(n) /\ (Contains(list, g) \/ g = End(n))
  BY <1>1, MarkersLinked
<1>3. PICK w \in Walk : w.walk = "mutable" /\ emissions' = Append(emissions, w)
  BY DEF EmitMutable, Walk
<1>4. /\ emissions' \in Seq(Walk) /\ DOMAIN emissions' = 1..n /\ DOMAIN emissions = 1..n - 1
      /\ emissions'[n] = w
      /\ \A i \in DOMAIN emissions : emissions'[i] = emissions[i]
  BY <1>1, <1>3, Begun, TopWalk
<1>5. state' = state
  BY DEF EmitMutable
<1>6. Types'
  BY <1>2, <1>4, <1>5 DEF Types
<1>7. \A i \in Nat \ {0} : Mutable(i)' <=> Mutable(i) \/ i = n
  BY <1>1, <1>3, <1>4 DEF Mutable
<1>8. Links'
  <2>1. \A l \in Listeners : l # Cursor(n) /\ l # End(n)
    BY MarkerFacts, MarkersApart
  <2>2. \A i \in Nat \ {0} : /\ Cursor(i) = Cursor(n) <=> i = n
                             /\ End(i) = End(n) <=> i = n
                             /\ Cursor(i) # End(n) /\ End(i) # Cursor(n)
    BY MarkerFacts
  <2> QED BY <1>2, <1>5, <1>7, <2>1, <2>2 DEF Links
<1>9. Pointers /\ ~ RemovesNext => Pointers'
  BY <1>1, <1>2, <1>3, <1>4 DEF Pointers
<1> QED BY <1>6, <1>8, <1>9

LEMMA SignalEmitKeeps ==
  ASSUME Linkage, SignalEmit
  PROVE  Linkage' /\ (Pointers /\ ~ RemovesNext => Pointers')
<1> USE DEF Linkage
<1>1. PICK n \in Nat \ {0} : n = Depth + 1 /\ n \notin DOMAIN emissions
  BY TopWalk
<1>2. list \in Seq(Elements) /\ IsInjective(list) /\ list' = list /\ state' = state
  BY DEF SignalEmit, Types
<1>3. First = ListHead \/ (Contains(list, First) /\ First \in Elements)
  BY <1>2, FirstInList, ListOrder
<1>4. PICK w \in Walk : /\ w.walk = "saved" /\ w.next = First
                       /\ emissions' = Append(emissions, w)
  BY <1>3 DEF SignalEmit, Walk
<1>5. /\ emissions' \in Seq(Walk) /\ DOMAIN emissions' = 1..n /\ DOMAIN emissions = 1..n - 1
      /\ emissions'[n] = w
      /\ \A i \in DOMAIN emissions : emissions'[i] = emissions[i]
  BY <1>1, <1>4, Begun, TopWalk
<1>6. Types'
  BY <1>2, <1>5 DEF Types
<1>7. \A i \in Nat \ {0} : Mutable(i)' <=> Mutable(i)
  BY <1>1, <1>4, <1>5 DEF Mutable
<1>8. Links'
  BY <1>2, <1>7 DEF Links
<1>9. Pointers /\ ~ RemovesNext => Pointers'
  <2>1. First \in Markers /\ Contains(list, First) => First.of < n
    <3> SUFFICES ASSUME First \in Markers, Contains(list, First) PROVE First.of < n
      OBVIOUS
    <3>1. PICK i \in Nat \ {0} : i = First.of /\ (First = Cursor(i) \/ First = End(i))
      BY MarkerFacts
    <3>2. Mutable(i)
      BY <3>1 DEF Links
    <3> QED BY <1>1, <1>5, <3>1, <3>2 DEF Mutable
  <2> QED BY <1>1, <1>2, <1>3, <1>4, <1>5, <2>1 DEF Pointers
<1> QED BY <1>6, <1>8, <1>9

LEMMA ReturnKeeps ==
  ASSUME Linkage, Return
  PROVE  Linkage' /\ (Pointers /\ ~ RemovesNext => Pointers')
<1> USE DEF Linkage
<1>1. emissions # <<>> /\ Top \in Walk /\ Depth \in DOMAIN emissions /\ Top = emissions[Depth]
  BY TopWalk DEF Return
<1>2. PICK w \in Walk : w.walk = Top.walk /\ w.next = Top.next /\ Update(w)
  BY <1>1 DEF Return, Walk
<1>3. /\ emissions' \in Seq(Walk) /\ DOMAIN emissions' = DOMAIN emissions /\ emissions'[Depth] = w
      /\ \A i \in DOMAIN emissions : i # Depth => emissions'[i] = emissions[i]
  BY <1>1, <1>2, Updated
<1>4. list' = list /\ state' = state
  BY DEF Return
<1>5. \A i \in DOMAIN emissions : /\ emissions'[i].walk = emissions[i].walk
                                 /\ emissions'[i].next = emissions[i].next
  BY <1>1, <1>2, <1>3
<1>6. Types'
  BY <1>3, <1>4 DEF Types
<1>7. Links'
  BY <1>3, <1>4, <1>5 DEF Links, Mutable
<1>8. Pointers /\ ~ RemovesNext => Pointers'
  BY <1>3, <1>4, <1>5 DEF Pointers
<1> QED BY <1>6, <1>7, <1>8

(* The element that a walk of wlroots calls next is linked between its      *)
(* markers; the two change places.                                          *)
LEMMA CursorMoved ==
  ASSUME Linkage, StepMutable, NEW n, NEW c, NEW e, n = Depth, c = Cursor(n), e = After(c)
  PROVE  /\ n \in Nat \ {0} /\ Mutable(n)
         /\ e \in Elements /\ Contains(list, e) /\ e # End(n) /\ e # c
         /\ Precedes(list, c, e) /\ Precedes(list, e, End(n))
         /\ \A f : Precedes(list, c, f) => f = e \/ Precedes(list, e, f)
         /\ list' \in Seq(Elements) /\ IsInjective(list')
         /\ \A f : Contains(list', f) <=> Contains(list, f)
         /\ \A f, g : Precedes(list', f, g) <=>
              (Precedes(list, f, g) /\ ~ (f = c /\ g = e)) \/ (f = e /\ g = c)
<1> USE DEF Linkage
<1>1. n \in Nat \ {0} /\ Mutable(n) /\ emissions # <<>>
  BY TopWalk DEF StepMutable, Mutable
<1>2. PICK z, k : z = End(n) /\ k = Position(c)
  OBVIOUS
<1>3. list \in Seq(Elements) /\ IsInjective(list) /\ Contains(list, c) /\ Precedes(list, c, z)
  BY <1>1, <1>2 DEF Types, Links
<1>4. e # z /\ list' = [list EXCEPT ![k] = e, ![k + 1] = c]
  BY <1>1, <1>2 DEF StepMutable
<1>5. /\ k \in DOMAIN list /\ list[k] = c
      /\ k + 1 \in DOMAIN list /\ list[k + 1] = e
      /\ Precedes(list, c, e)
      /\ \A f : Precedes(list, c, f) => f = e \/ Precedes(list, e, f)
  BY <1>2, <1>3, NextInList
<1>6. e \in Elements /\ c \in Elements /\ Contains(list, e) /\ e # c /\ Precedes(list, e, z)
  BY <1>3, <1>4, <1>5, ListOrder
<1>7. PICK t : t = list'
  OBVIOUS
<1>8. /\ t \in Seq(Elements) /\ Len(t) = Len(list) /\ t[k] = e /\ t[k + 1] = c
      /\ \A i \in DOMAIN list \ {k, k + 1} : t[i] = list[i]
  BY <1>3, <1>4, <1>5, <1>6, <1>7
<1>9. /\ IsInjective(t)
      /\ \A f : Contains(t, f) <=> Contains(list, f)
      /\ \A f, g : Precedes(t, f, g) <=>
           (Precedes(list, f, g) /\ ~ (f = c /\ g = e)) \/ (f = e /\ g = c)
  BY <1>3, <1>5, <1>8, Swapped
<1> QED BY ONLY <1>1, <1>2, <1>4, <1>5, <1>6, <1>7, <1>8, <1>9

LEMMA StepMutableKeeps ==
  ASSUME Linkage, StepMutable
  PROVE  Linkage' /\ (Pointers /\ ~ RemovesNext => Pointers')
<1> USE DEF Linkage
<1>1. PICK n, c, e : n = Depth /\ c = Cursor(n) /\ e = After(c)
  OBVIOUS
<1>2. /\ n \in Nat \ {0} /\ Mutable(n) /\ e # End(n)
      /\ list' \in Seq(Elements) /\ IsInjective(list')
      /\ \A f : Contains(list', f) <=> Contains(list, f)
      /\ \A f, g : Precedes(list', f, g) <=>
           (Precedes(list, f, g) /\ ~ (f = c /\ g = e)) \/ (f = e /\ g = c)
  BY <1>1, CursorMoved
<1>3. emissions # <<>> /\ Top \in Walk /\ Depth \in DOMAIN emissions /\ Top = emissions[Depth]
  BY TopWalk DEF StepMutable
<1>4. Notified(e) \in Listeners \cup {None}
  BY DEF Notified
<1>5. PICK w \in Walk : w.walk = Top.walk /\ w.next = Top.next /\ Update(w)
  BY <1>1, <1>3, <1>4 DEF StepMutable, Walk
<1>6. /\ emissions' \in Seq(Walk) /\ DOMAIN emissions' = DOMAIN emissions /\ emissions'[Depth] = w
      /\ \A i \in DOMAIN emissions : i # Depth => emissions'[i] = emissions[i]
  BY <1>3, <1>5, Updated
<1>7. \A i \in DOMAIN emissions : /\ emissions'[i].walk = emissions[i].walk
                                 /\ emissions'[i].next = emissions[i].next
  BY <1>3, <1>5, <1>6
<1>8. state' = state
  BY DEF StepMutable
<1>9. Types'
  BY <1>2, <1>6, <1>8 DEF Types
<1>10. Links'
  <2>1. \A i \in Nat \ {0} : Mutable(i)' <=> Mutable(i)
    BY <1>6, <1>7 DEF Mutable
  <2>2. ASSUME NEW i \in Nat \ {0}, Mutable(i) PROVE Precedes(list', Cursor(i), End(i))
    <3>1. Precedes(list, Cursor(i), End(i))
      BY <2>2 DEF Links
    <3>2. ~ (Cursor(i) = c /\ End(i) = e)
      BY <1>1, <1>2, MarkerFacts
    <3> QED BY <1>2, <3>1, <3>2
  <2> QED BY <1>2, <1>8, <2>1, <2>2 DEF Links
<1>11. Pointers /\ ~ RemovesNext => Pointers'
  BY <1>2, <1>6, <1>7 DEF Pointers
<1> QED BY <1>9, <1>10, <1>11

LEMMA StepSavedKeeps ==
  ASSUME Linkage, StepSaved
  PROVE  Linkage' /\ (Pointers /\ ~ RemovesNext => Pointers')
<1> USE DEF Linkage
<1>1. PICK n, e, a : n = Depth /\ e = Top.next /\ a = After(e)
  OBVIOUS
<1>2. emissions # <<>> /\ Top \in Walk /\ n \in DOMAIN emissions /\ Top = emissions[n]
  BY <1>1, TopWalk DEF StepSaved
<1>3. Top.walk = "saved" /\ e \notin {ListHead, Null} /\ list' = list /\ state' = state
  BY <1>1 DEF StepSaved
<1>4. list \in Seq(Elements) /\ IsInjective(list)
  BY DEF Types
<1>6. /\ a = Null \/ a = ListHead \/ (a \in Elements /\ Contains(list, a))
      /\ Contains(list, e) => a = ListHead \/ (a \in Elements /\ Contains(list, a))
  <2>1. ASSUME Contains(list, e) PROVE a = ListHead \/ (a \in Elements /\ Contains(list, a))
    BY <1>1, <1>4, <2>1, NextInList, ListOrder
  <2>2. ASSUME ~ Contains(list, e) PROVE a = Null
    BY <1>1, <2>2 DEF After
  <2> QED BY <2>1, <2>2
<1>7. Notified(e) \in Listeners \cup {None}
  BY DEF Notified
<1>8. PICK w \in Walk : w.walk = "saved" /\ w.next = a /\ Update(w)
  BY <1>1, <1>2, <1>3, <1>6, <1>7 DEF StepSaved, Walk
<1>9. /\ emissions' \in Seq(Walk) /\ DOMAIN emissions' = DOMAIN emissions /\ emissions'[n] = w
      /\ \A i \in DOMAIN emissions : i # n => emissions'[i] = emissions[i]
  BY <1>1, <1>2, <1>8, Updated
<1>10. Types'
  BY <1>3, <1>4, <1>9 DEF Types
<1>11. Links'
  BY <1>2, <1>3, <1>8, <1>9 DEF Links, Mutable
<1>12. ASSUME Pointers, ~ RemovesNext PROVE Pointers'
  <2>1. Contains(list, e)
    BY <1>1, <1>2, <1>3, <1>12 DEF Pointers
  <2>2. ASSUME a \in Markers, Contains(list, a) PROVE a.of < n
    <3>1. PICK i \in Nat \ {0} : i = a.of /\ (a = Cursor(i) \/ a = End(i))
      BY <2>2, MarkerFacts
    <3>2. i \in DOMAIN emissions /\ i # n
      BY <1>2, <1>3, <2>2, <3>1 DEF Links, Mutable
    <3> QED BY <1>1, <3>1, <3>2, TopWalk
  <2> QED BY <1>3, <1>6, <1>8, <1>9, <1>12, <2>1, <2>2 DEF Pointers
<1> QED BY <1>10, <1>11, <1>12

(* The markers are unlinked.                                                *)
LEMMA MarkersUnlinked ==
  ASSUME Linkage, FinishMutable, NEW n, NEW c, NEW z, n = Depth, c = Cursor(n), z = End(n)
  PROVE  /\ n \in Nat \ {0} /\ Mutable(n) /\ emissions # <<>> /\ c # z
         /\ Contains(list, c) /\ Contains(list, z) /\ Precedes(list, c, z)
         /\ \A f : Precedes(list, c, f) => f = z \/ Precedes(list, z, f)
         /\ \A f : Precedes(list, f, z) => f = c \/ Precedes(list, f, c)
         /\ list' \in Seq(Elements) /\ IsInjective(list')
         /\ \A f : Contains(list', f) <=> Contains(list, f) /\ f # c /\ f # z
         /\ \A f, g : Precedes(list', f, g) <=>
              Precedes(list, f, g) /\ f # c /\ f # z /\ g # c /\ g # z
<1> USE DEF Linkage
<1>1. n \in Nat \ {0} /\ Mutable(n) /\ emissions # <<>>
  BY TopWalk DEF FinishMutable, Mutable
<1>2. /\ list \in Seq(Elements) /\ IsInjective(list)
      /\ Contains(list, c) /\ Contains(list, z) /\ Precedes(list, c, z)
  BY <1>1 DEF Types, Links
<1>3. After(c) = z
  BY DEF FinishMutable
<1>4. c # z
  BY <1>1, MarkerFacts
<1>5. /\ \A f : Precedes(list, c, f) => f = z \/ Precedes(list, z, f)
      /\ \A f : Precedes(list, f, z) => f = c \/ Precedes(list, f, c)
  BY <1>2, <1>3, NextInList
<1>6. PICK s : s = RemoveFirst(list, c)
  OBVIOUS
<1>7. /\ s \in Seq(Elements) /\ IsInjective(s)
      /\ \A f : Contains(s, f) <=> Contains(list, f) /\ f # c
      /\ \A f, g : Precedes(s, f, g) <=> Precedes(list, f, g) /\ f # c /\ g # c
  BY <1>2, <1>6, Unlinked
<1>8. PICK t : t = RemoveFirst(s, z)
  OBVIOUS
<1>9. /\ t \in Seq(Elements) /\ IsInjective(t)
      /\ \A f : Contains(t, f) <=> Contains(s, f) /\ f # z
      /\ \A f, g : Precedes(t, f, g) <=> Precedes(s, f, g) /\ f # z /\ g # z
  <2>1. Contains(s, z)
    BY <1>2, <1>4, <1>7
  <2> QED BY <1>7, <1>8, <2>1, Unlinked
<1>10. list' = t
  BY <1>6, <1>8 DEF FinishMutable
<1> QED BY ONLY <1>1, <1>2, <1>4, <1>5, <1>7, <1>9, <1>10

LEMMA FinishMutableKeeps ==
  ASSUME Linkage, FinishMutable
  PROVE  Linkage' /\ (Pointers /\ ~ RemovesNext => Pointers')
<1> USE DEF Linkage
<1>1. PICK n, c, z : n = Depth /\ c = Cursor(n) /\ z = End(n)
  OBVIOUS
<1>2. /\ n \in Nat \ {0} /\ emissions # <<>>
      /\ list' \in Seq(Elements) /\ IsInjective(list')
      /\ \A f : Contains(list', f) <=> Contains(list, f) /\ f # c /\ f # z
      /\ \A f, g : Precedes(list', f, g) <=>
           Precedes(list, f, g) /\ f # c /\ f # z /\ g # c /\ g # z
  BY <1>1, MarkersUnlinked
<1>3. state' = state /\ emissions' = Front(emissions)
  BY DEF FinishMutable
<1>4. /\ emissions' \in Seq(Walk) /\ DOMAIN emissions' = 1..n - 1 /\ DOMAIN emissions = 1..n
      /\ \A i \in 1..n - 1 : i \in DOMAIN emissions /\ emissions'[i] = emissions[i]
  BY <1>1, <1>2, <1>3, Ended, TopWalk
<1>5. Types'
  BY <1>2, <1>3, <1>4 DEF Types
<1>6. \A i \in Nat \ {0} : Mutable(i)' <=> Mutable(i) /\ i # n
  BY <1>2, <1>4 DEF Mutable
<1>7. \A i \in Nat \ {0} : /\ Cursor(i) = c <=> i = n
                           /\ End(i) = z <=> i = n
                           /\ Cursor(i) # z /\ End(i) # c
  BY <1>1, <1>2, MarkerFacts
<1>8. c \in Markers /\ z \in Markers /\ c.of = n /\ z.of = n
  BY <1>1, <1>2, MarkerFacts
<1>9. Links'
  BY <1>2, <1>3, <1>6, <1>7, <1>8, MarkersApart DEF Links
<1>10. ASSUME Pointers, ~ RemovesNext PROVE Pointers'
  <2> SUFFICES ASSUME NEW i \in 1..n - 1, emissions[i].walk = "saved", emissions[i].next # ListHead
               PROVE  /\ Contains(list', emissions[i].next)
                      /\ emissions[i].next \in Markers => emissions[i].next.of < i
    BY <1>4 DEF Pointers
  <2>1. PICK e : e = emissions[i].next
    OBVIOUS
  <2>2. Contains(list, e) /\ (e \in Markers => e.of < i) /\ i < n
    BY <1>2, <1>4, <1>10, <2>1 DEF Pointers
  <2>3. e # c /\ e # z
    BY <1>2, <1>8, <2>2
  <2> QED BY <1>2, <2>1, <2>2, <2>3
<1> QED BY <1>5, <1>9, <1>10

LEMMA FinishSavedKeeps ==
  ASSUME Linkage, FinishSaved
  PROVE  Linkage' /\ (Pointers /\ ~ RemovesNext => Pointers')
<1> USE DEF Linkage
<1>1. PICK n : n = Depth
  OBVIOUS
<1>2. n \in Nat \ {0} /\ emissions # <<>> /\ emissions[n].walk = "saved"
  BY <1>1, TopWalk DEF FinishSaved
<1>3. state' = state /\ list' = list /\ emissions' = Front(emissions)
  BY DEF FinishSaved
<1>4. /\ emissions' \in Seq(Walk) /\ DOMAIN emissions' = 1..n - 1 /\ DOMAIN emissions = 1..n
      /\ \A i \in 1..n - 1 : i \in DOMAIN emissions /\ emissions'[i] = emissions[i]
  BY <1>1, <1>2, <1>3, Ended, TopWalk
<1>5. Types'
  BY <1>3, <1>4 DEF Types
<1>6. \A i \in Nat \ {0} : Mutable(i)' <=> Mutable(i)
  BY <1>2, <1>4 DEF Mutable
<1>7. Links'
  BY <1>3, <1>6 DEF Links
<1>8. Pointers /\ ~ RemovesNext => Pointers'
  BY <1>3, <1>4 DEF Pointers
<1> QED BY <1>5, <1>7, <1>8

LEMMA NextKeeps ==
  ASSUME Linkage, [Next]_vars
  PROVE  Linkage' /\ (Pointers /\ ~ RemovesNext => Pointers')
<1>1. CASE \E l \in Listeners : SignalAdd(l)
  BY <1>1, SignalAddKeeps
<1>2. CASE \E l \in Listeners : SignalRemove(l)
  BY <1>2, SignalRemoveKeeps
<1>3. CASE EmitMutable
  BY <1>3, EmitMutableKeeps
<1>4. CASE SignalEmit
  BY <1>4, SignalEmitKeeps
<1>5. CASE Return
  BY <1>5, ReturnKeeps
<1>6. CASE StepMutable
  BY <1>6, StepMutableKeeps
<1>7. CASE StepSaved
  BY <1>7, StepSavedKeeps
<1>8. CASE FinishMutable
  BY <1>8, FinishMutableKeeps
<1>9. CASE FinishSaved
  BY <1>9, FinishSavedKeeps
<1>10. CASE UNCHANGED vars
  BY <1>10 DEF vars, Linkage, Types, Links, Mutable, Pointers
<1> QED BY <1>1, <1>2, <1>3, <1>4, <1>5, <1>6, <1>7, <1>8, <1>9, <1>10 DEF Next, Walking

(* Whatever the callbacks remove: the list holds each listener once, and    *)
(* exactly the listeners that were added and not removed, with the markers  *)
(* of every emission of wlroots under way in their order.                   *)
THEOREM ListLinked == Spec => []Linkage
<1>1. Init => Linkage
  BY InitIInv DEF IInv
<1>2. Linkage /\ [Next]_vars => Linkage'
  BY NextKeeps
<1> QED BY <1>1, <1>2, PTL DEF Spec

(* What wl_signal_emit() has saved stays linked as long as no callback of   *)
(* it removes the listener that comes next.                                 *)
THEOREM Invariance ==
  ASSUME ~ RemovesNext
  PROVE  Spec => []IInv
<1>1. Init => IInv
  BY InitIInv
<1>2. IInv /\ [Next]_vars => IInv'
  BY NextKeeps DEF IInv
<1> QED BY <1>1, <1>2, PTL DEF Spec

-----------------------------------------------------------------------------
(* Who is called *)

LEMMA CalledIsAdded ==
  ASSUME IInv, ~ RemovesNext, [Next]_vars, NEW l \in Listeners, Calls(l)
  PROVE  state[l] = "added"
<1> USE DEF IInv, Linkage
<1>0. PICK n : n = Depth
  OBVIOUS
<1>1. /\ emissions # <<>> /\ n \in Nat \ {0} /\ n \in DOMAIN emissions /\ DOMAIN emissions = 1..n
      /\ Top = emissions[n] /\ Top \in Walk /\ Top.running # l
      /\ Len(emissions') = n /\ emissions'[n].running = l
  BY <1>0, TopWalk, MarkersApart DEF Calls, Top, Last
<1>2. ASSUME emissions' = emissions PROVE FALSE
  BY <1>1, <1>2
<1>3. ASSUME NEW w, emissions' = Append(emissions, w) PROVE FALSE
  <2>1. Len(emissions') = n + 1
    BY <1>0, <1>3 DEF Types, Depth
  <2> QED BY <1>1, <2>1
<1>4. ASSUME emissions' = Front(emissions) PROVE FALSE
  <2>1. Len(emissions') = n - 1
    BY <1>0, <1>1, <1>4, Ended DEF Depth
  <2> QED BY <1>1, <2>1
<1>5. CASE Return
  <2>1. PICK w \in Walk : w.running = None /\ Update(w)
    BY <1>1, <1>5 DEF Return, Walk
  <2>2. emissions'[n] = w
    BY <1>0, <1>1, <2>1, Updated
  <2> QED BY <1>1, <2>1, <2>2, MarkersApart
<1>6. CASE StepMutable
  <2>1. PICK c, e : c = Cursor(n) /\ e = After(c)
    OBVIOUS
  <2>2. Contains(list, e)
    BY <1>0, <1>6, <2>1, CursorMoved
  <2>3. PICK w \in Walk : w.running = Notified(e) /\ Update(w)
    BY <1>0, <1>1, <1>6, <2>1 DEF StepMutable, Walk, Notified
  <2>4. emissions'[n] = w
    BY <1>0, <1>1, <2>3, Updated
  <2>5. e = l
    BY <1>1, <2>3, <2>4, MarkersApart DEF Notified
  <2> QED BY <2>2, <2>5 DEF Links
<1>7. CASE StepSaved
  <2>1. PICK e : e = Top.next /\ e # ListHead /\ Top.walk = "saved"
    BY <1>7 DEF StepSaved
  <2>2. Contains(list, e)
    BY <1>1, <2>1 DEF Pointers
  <2>3. list \in Seq(Elements) /\ IsInjective(list)
    BY DEF Types
  <2>4. After(e) = ListHead \/ After(e) \in Elements
    BY <2>2, <2>3, NextInList, ListOrder
  <2>5. PICK w \in Walk : w.running = Notified(e) /\ Update(w)
    BY <1>1, <1>7, <2>1, <2>4 DEF StepSaved, Walk, Notified
  <2>6. emissions'[n] = w
    BY <1>0, <1>1, <2>5, Updated
  <2>7. e = l
    BY <1>1, <2>5, <2>6, MarkersApart DEF Notified
  <2> QED BY <2>2, <2>7 DEF Links
<1>8. CASE FinishMutable \/ FinishSaved
  BY <1>4, <1>8 DEF FinishMutable, FinishSaved
<1>9. CASE EmitMutable \/ SignalEmit
  BY <1>3, <1>9 DEF EmitMutable, SignalEmit
<1>10. CASE \E k \in Listeners : SignalAdd(k) \/ SignalRemove(k)
  BY <1>2, <1>10 DEF SignalAdd, SignalRemove
<1>11. CASE UNCHANGED vars
  BY <1>2, <1>11 DEF vars
<1> QED BY <1>5, <1>6, <1>7, <1>8, <1>9, <1>10, <1>11 DEF Next, Walking

(* cfun_wl_signal_remove: no emission, not even one that was under way,     *)
(* calls a listener that has been removed.                                  *)
THEOREM RemovedStaysSilent ==
  ASSUME ~ RemovesNext
  PROVE  Spec => RemovedNotCalled
<1>1. IInv /\ [Next]_vars => \A l \in Listeners : Calls(l) => state[l] # "removed"
  BY CalledIsAdded
<1>2. Spec => []IInv
  BY Invariance
<1> QED BY <1>1, <1>2, PTL DEF Spec, RemovedNotCalled

-----------------------------------------------------------------------------
(* The refinement: the listeners, their order and what each emission owes   *)

LEMMA Debt ==
  ASSUME NEW t, NEW o, NEW r, NEW d, d = [todo |-> t, open |-> o, running |-> r]
  PROVE  /\ d.todo = t /\ d.open = o /\ d.running = r
         /\ \A u : [d EXCEPT !.todo = u] = [todo |-> u, open |-> o, running |-> r]
         /\ \A q : [d EXCEPT !.running = q] = [todo |-> t, open |-> o, running |-> q]
<1>1. d.todo = t /\ d.open = o /\ d.running = r
  OBVIOUS
<1>2. ASSUME NEW u PROVE [d EXCEPT !.todo = u] = [todo |-> u, open |-> o, running |-> r]
  OBVIOUS
<1>3. ASSUME NEW q PROVE [d EXCEPT !.running = q] = [todo |-> t, open |-> o, running |-> q]
  OBVIOUS
<1> QED BY <1>1, <1>2, <1>3

LEMMA OwedFacts ==
  ASSUME Types
  PROVE  /\ Owed \in Seq(Abstract!Emissions) /\ Len(Owed) = Depth /\ DOMAIN Owed = 1..Depth
         /\ \A i \in 1..Depth : Owed[i] = [todo    |-> Ahead(i),
                                         open    |-> emissions[i].walk = "saved",
                                         running |-> emissions[i].running]
         /\ \A i \in 1..Depth : Owed[i].open <=> emissions[i].walk = "saved"
         /\ \A i \in 1..Depth : Ahead(i) \subseteq Listeners
         /\ Abstract!Calling <=> Calling
         /\ emissions # <<>> => Owed # <<>> /\ Abstract!Top = Owed[Depth]
<1>1. \A i \in 1..Depth : Ahead(i) \subseteq Listeners
  BY DEF Ahead
<1>2. Depth \in Nat /\ DOMAIN emissions = 1..Depth /\ \A i \in 1..Depth : emissions[i] \in Walk
  BY TopWalk
<1>3. \A i \in 1..Depth : [todo |-> Ahead(i), open |-> emissions[i].walk = "saved",
                          running |-> emissions[i].running] \in Abstract!Emissions
  BY <1>1, <1>2 DEF Abstract!Emissions, Walk
<1>4. /\ Owed \in Seq(Abstract!Emissions) /\ Len(Owed) = Depth /\ DOMAIN Owed = 1..Depth
      /\ \A i \in 1..Depth : Owed[i] = [todo    |-> Ahead(i),
                                      open    |-> emissions[i].walk = "saved",
                                      running |-> emissions[i].running]
  BY <1>2, <1>3 DEF Owed
<1>5. Owed = <<>> <=> emissions = <<>>
  BY <1>2, <1>4, TopWalk
<1>6. emissions # <<>> => Abstract!Top = Owed[Depth] /\ Owed[Depth].running = Top.running
  BY <1>4, TopWalk DEF Abstract!Top, Abstract!Last
<1>7. Abstract!Calling <=> Calling
  BY <1>5, <1>6 DEF Abstract!Calling, Calling
<1>8. ASSUME NEW i \in 1..Depth PROVE Owed[i].open <=> emissions[i].walk = "saved"
  <2>1. PICK o, t, r, d : /\ o = (emissions[i].walk = "saved") /\ t = Ahead(i)
                        /\ r = emissions[i].running /\ d = Owed[i]
    OBVIOUS
  <2>2. d = [todo |-> t, open |-> o, running |-> r]
    BY <1>4, <2>1, Zenon
  <2>3. d.open = o
    BY <2>2, Debt
  <2> QED BY <2>1, <2>3, Zenon
<1> QED BY <1>1, <1>4, <1>5, <1>6, <1>7, <1>8

LEMMA OwedNext ==
  ASSUME Types'
  PROVE  /\ Owed' \in Seq(Abstract!Emissions) /\ Len(Owed') = Depth' /\ DOMAIN Owed' = 1..Depth'
         /\ \A i \in 1..Depth' : Owed'[i] = [todo    |-> Ahead(i)',
                                          open    |-> emissions'[i].walk = "saved",
                                          running |-> emissions'[i].running]
<1>1. \A i \in 1..Depth' : Ahead(i)' \subseteq Listeners
  BY DEF Ahead
<1>2. Depth' \in Nat /\ DOMAIN emissions' = 1..Depth' /\ \A i \in 1..Depth' : emissions'[i] \in Walk
  BY DEF Types, Depth
<1>3. \A i \in 1..Depth' : [todo |-> Ahead(i)', open |-> emissions'[i].walk = "saved",
                           running |-> emissions'[i].running] \in Abstract!Emissions
  BY <1>1, <1>2 DEF Abstract!Emissions, Walk
<1> QED BY <1>2, <1>3 DEF Owed

(* What a step makes of what an emission owes.                              *)
LEMMA OwedStep ==
  ASSUME Types, Types', NEW i \in 1..Depth, i \in 1..Depth',
         emissions'[i].walk = emissions[i].walk
  PROVE  /\ Owed[i].todo = Ahead(i) /\ Owed[i].running = emissions[i].running
         /\ emissions'[i].running = emissions[i].running => Owed'[i] = [Owed[i] EXCEPT !.todo = Ahead(i)']
         /\ Ahead(i)' = Ahead(i) => Owed'[i] = [Owed[i] EXCEPT !.running = emissions'[i].running]
         /\ emissions'[i].running = emissions[i].running /\ Ahead(i)' = Ahead(i) => Owed'[i] = Owed[i]
         /\ Owed'[i] = [todo |-> Ahead(i)', open |-> Owed[i].open, running |-> emissions'[i].running]
<1>1. PICK o, t, u, r, q, d, e :
        /\ o = (emissions[i].walk = "saved") /\ t = Ahead(i) /\ u = Ahead(i)'
        /\ r = emissions[i].running /\ q = emissions'[i].running /\ d = Owed[i] /\ e = Owed'[i]
  OBVIOUS
<1>2. d = [todo |-> t, open |-> o, running |-> r]
  BY <1>1, OwedFacts, Zenon
<1>3. e = [todo |-> u, open |-> o, running |-> q]
  BY <1>1, OwedNext, Zenon
<1>4. /\ d.todo = t /\ d.running = r /\ d.open = o
      /\ [d EXCEPT !.todo = u] = [todo |-> u, open |-> o, running |-> r]
      /\ [d EXCEPT !.running = q] = [todo |-> t, open |-> o, running |-> q]
  BY ONLY <1>2, Debt
<1>5. /\ q = r => e = [d EXCEPT !.todo = u]
      /\ u = t => e = [d EXCEPT !.running = q]
      /\ q = r /\ u = t => e = d
      /\ e = [todo |-> u, open |-> d.open, running |-> q]
  BY ONLY <1>2, <1>3, <1>4
<1> QED BY ONLY <1>1, <1>4, <1>5

LEMMA AddRefines ==
  ASSUME IInv, ~ RemovesNext, NEW l \in Listeners, SignalAdd(l)
  PROVE  Abstract!Add(l)
<1> USE DEF IInv, Linkage
<1>1. /\ list \in Seq(Elements) /\ IsInjective(list) /\ ~ Contains(list, l) /\ l \in Elements
      /\ list' = Append(list, l)
  BY DEF SignalAdd, Fresh, Links, Types, Elements
<1>2. /\ \A f : Contains(list', f) <=> Contains(list, f) \/ f = l
      /\ \A f, g : Precedes(list', f, g) <=> Precedes(list, f, g) \/ (Contains(list, f) /\ g = l)
  BY <1>1, AtTail
<1>3. emissions' = emissions /\ Depth' = Depth /\ Calling
  BY DEF SignalAdd, Depth
<1>4. l \notin Linked /\ Linked' = Linked \cup {l}
  BY <1>1, <1>2 DEF Linked
<1>5. Before' = Before \cup (Linked \X {l})
  <2>1. \A f, g : Precedes(list, f, g) => Contains(list, f) /\ Contains(list, g)
    BY <1>1, ListOrder
  <2> QED BY <1>2, <1>4, <2>1 DEF Before, Linked
<1>6. \A i \in 1..Depth : i \in Nat \ {0} /\ Cursor(i) \notin Listeners /\ End(i) \notin Listeners
  BY TopWalk, MarkerFacts, MarkersApart
<1>7. \A f, g : Precedes(list, f, g) => Contains(list, f) /\ Contains(list, g)
  BY <1>1, ListOrder
<1> DEFINE late == {i \in 1..Depth : emissions[i].walk = "saved" /\ emissions[i].next # ListHead}
<1>8. \A i \in 1..Depth : Ahead(i)' = IF i \in late THEN Ahead(i) \cup {l} ELSE Ahead(i)
  <2> SUFFICES ASSUME NEW i \in 1..Depth
               PROVE  Ahead(i)' = IF i \in late THEN Ahead(i) \cup {l} ELSE Ahead(i)
    OBVIOUS
  <2>1. CASE emissions[i].walk = "mutable"
    <3>1. ~ Precedes(list', l, End(i))
      BY <1>1, <1>2, <1>6, <1>7
    <3> QED BY <1>2, <1>3, <1>6, <2>1, <3>1 DEF Ahead
  <2>2. CASE emissions[i].walk = "saved"
    <3>1. PICK e : e = emissions[i].next
      OBVIOUS
    <3>2. e = ListHead \/ Contains(list, e)
      BY <2>2, <3>1, TopWalk DEF Pointers
    <3>3. e = ListHead => ~ Contains(list, e) /\ e \notin Listeners
      BY <1>1, MarkersApart, ListOrder DEF Elements
    <3> QED BY <1>2, <1>3, <2>2, <3>1, <3>2, <3>3 DEF Ahead
  <2> QED BY <2>1, <2>2, TopWalk DEF Walk
<1>9. late \in SUBSET {i \in DOMAIN Owed : Owed[i].open}
  <2>1. \A i \in late : i \in DOMAIN Owed /\ Owed[i].open
    BY OwedFacts
  <2> QED BY <2>1
<1>10. Owed' = [i \in DOMAIN Owed |->
         IF i \in late THEN [Owed[i] EXCEPT !.todo = @ \cup {l}] ELSE Owed[i]]
  <2>1. Types'
    BY SignalAddKeeps
  <2> HIDE DEF late
  <2>2. /\ DOMAIN Owed' = 1..Depth /\ DOMAIN Owed = 1..Depth
        /\ \A i \in 1..Depth :
             Owed'[i] = IF i \in late THEN [Owed[i] EXCEPT !.todo = @ \cup {l}] ELSE Owed[i]
    <3>1. DOMAIN Owed' = 1..Depth /\ DOMAIN Owed = 1..Depth
      BY <1>3, <2>1, OwedFacts, OwedNext
    <3>2. ASSUME NEW i \in 1..Depth
          PROVE  Owed'[i] = IF i \in late THEN [Owed[i] EXCEPT !.todo = @ \cup {l}] ELSE Owed[i]
      <4>1. /\ Owed[i].todo = Ahead(i) /\ Owed'[i] = [Owed[i] EXCEPT !.todo = Ahead(i)']
            /\ Ahead(i)' = Ahead(i) => Owed'[i] = Owed[i]
        BY <1>3, <2>1, OwedStep
      <4> QED BY <1>8, <4>1
    <3> QED BY <3>1, <3>2
  <2>3. Owed' \in Seq(Abstract!Emissions)
    BY <2>1, OwedNext
  <2> QED BY <2>2, <2>3
<1> HIDE DEF late
<1> QED BY <1>3, <1>4, <1>5, <1>9, <1>10, OwedFacts DEF Abstract!Add

LEMMA DropRefines ==
  ASSUME IInv, ~ RemovesNext, NEW l \in Listeners, SignalRemove(l)
  PROVE  Abstract!Drop(l)
<1> USE DEF IInv, Linkage
<1>1. /\ list \in Seq(Elements) /\ IsInjective(list) /\ Contains(list, l)
      /\ list' = RemoveFirst(list, l)
  BY DEF SignalRemove, Links, Types
<1>2. /\ \A f : Contains(list', f) <=> Contains(list, f) /\ f # l
      /\ \A f, g : Precedes(list', f, g) <=> Precedes(list, f, g) /\ f # l /\ g # l
  BY <1>1, Unlinked
<1>3. emissions' = emissions /\ Depth' = Depth /\ Calling
  BY DEF SignalRemove, Depth
<1>4. l \in Linked /\ Linked' = Linked \ {l}
  BY <1>1, <1>2 DEF Linked
<1>5. Before' = Before \cap (Linked' \X Linked')
  BY <1>2, <1>4 DEF Before
<1>6. \A i \in 1..Depth : i \in Nat \ {0} /\ Cursor(i) \notin Listeners /\ End(i) \notin Listeners
  BY TopWalk, MarkerFacts, MarkersApart
<1>7. ASSUME NEW i \in 1..Depth PROVE Ahead(i)' = Ahead(i) \ {l}
  <2>1. CASE emissions[i].walk = "mutable"
    BY <1>2, <1>3, <1>6, <2>1 DEF Ahead
  <2>2. CASE emissions[i].walk = "saved"
    <3>1. emissions[i].next # l
      BY TopWalk DEF SignalRemove
    <3> QED BY <1>2, <1>3, <2>2, <3>1 DEF Ahead
  <2> QED BY <2>1, <2>2, TopWalk DEF Walk
<1>8. Types'
  BY SignalRemoveKeeps
<1>9. Owed' = [i \in DOMAIN Owed |-> [Owed[i] EXCEPT !.todo = @ \ {l}]]
  <2>1. DOMAIN Owed' = 1..Depth /\ DOMAIN Owed = 1..Depth
    BY <1>3, <1>8, OwedFacts, OwedNext
  <2>2. ASSUME NEW i \in 1..Depth PROVE Owed'[i] = [Owed[i] EXCEPT !.todo = @ \ {l}]
    <3>1. Owed[i].todo = Ahead(i) /\ Owed'[i] = [Owed[i] EXCEPT !.todo = Ahead(i)']
      BY <1>3, <1>8, OwedStep
    <3> QED BY <1>7, <3>1
  <2>3. Owed' \in Seq(Abstract!Emissions)
    BY <1>8, OwedNext
  <2> QED BY <2>1, <2>2, <2>3
<1> QED BY <1>3, <1>4, <1>5, <1>9, OwedFacts DEF Abstract!Drop

(* A new emission owes a call to every listener.                            *)
LEMMA EmitRefines ==
  ASSUME Linkage, Linkage', Calling, Linked' = Linked, Before' = Before,
         NEW w \in Walk, emissions' = Append(emissions, w), w.running = None,
         \A i \in 1..Depth : Ahead(i)' = Ahead(i),
         NEW n, n = Depth + 1, Ahead(n)' = Linked
  PROVE  \E open \in BOOLEAN : Abstract!Emit(open)
<1> USE DEF Linkage
<1>1. PICK o \in BOOLEAN : o = (w.walk = "saved")
  OBVIOUS
<1>2. /\ Depth \in Nat /\ DOMAIN emissions = 1..Depth
      /\ Depth' = n /\ emissions'[n] = w
      /\ \A i \in 1..Depth : emissions'[i] = emissions[i]
  BY Begun, TopWalk
<1> DEFINE r == [todo |-> Linked, open |-> o, running |-> None]
<1>3. r \in Abstract!Emissions
  BY DEF Abstract!Emissions, Linked
<1>4. /\ Owed \in Seq(Abstract!Emissions) /\ Len(Owed) = Depth
      /\ Owed' \in Seq(Abstract!Emissions) /\ Len(Owed') = n
  BY <1>2, OwedFacts, OwedNext
<1>5. ASSUME NEW i \in 1..Depth PROVE Owed'[i] = Owed[i]
  <2>1. i \in 1..Depth'
    BY <1>2
  <2>2. emissions'[i] = emissions[i] /\ Ahead(i)' = Ahead(i)
    BY <1>2
  <2> QED BY <2>1, <2>2, OwedStep
<1>6. Owed'[n] = r
  <2>1. PICK e, t, q : e = Owed'[n] /\ t = Linked /\ q = w.running
    OBVIOUS
  <2>2. n \in 1..Depth'
    BY <1>2
  <2>3. e = [todo |-> t, open |-> o, running |-> q]
    BY <1>1, <1>2, <2>1, <2>2, OwedNext, Zenon
  <2> QED BY <2>1, <2>3
<1> HIDE DEF r
<1>7. Owed' = Append(Owed, r)
  BY <1>2, <1>3, <1>4, <1>5, <1>6
<1>8. Abstract!Emit(o)
  BY <1>7, OwedFacts DEF Abstract!Emit, r
<1> QED BY <1>8

LEMMA EmitMutableRefines ==
  ASSUME IInv, ~ RemovesNext, EmitMutable
  PROVE  \E open \in BOOLEAN : Abstract!Emit(open)
<1> USE DEF IInv, Linkage
<1>1. PICK n \in Nat \ {0} : n = Depth + 1
  BY TopWalk
<1>2. PICK w \in Walk : /\ w.walk = "mutable" /\ w.running = None
                       /\ emissions' = Append(emissions, w)
  BY DEF EmitMutable, Walk
<1>3. /\ DOMAIN emissions = 1..Depth /\ emissions'[n] = w
      /\ \A i \in 1..Depth : emissions'[i] = emissions[i]
  BY <1>1, <1>2, Begun, TopWalk
<1>4. PICK c, z : c = Cursor(n) /\ z = End(n)
  OBVIOUS
<1>5. /\ \A f : Contains(list', f) <=> Contains(list, f) \/ f = c \/ f = z
      /\ \A f, g : Precedes(list', f, g) <=>
           \/ Precedes(list, f, g)
           \/ Contains(list, f) /\ g = z
           \/ f = c /\ (Contains(list, g) \/ g = z)
  BY <1>1, <1>4, MarkersLinked
<1>6. c \in Markers /\ z \in Markers /\ c.of = n /\ z.of = n /\ c # z
  BY <1>1, <1>4, MarkerFacts
<1>7. c \notin Listeners /\ z \notin Listeners
  BY <1>6, MarkersApart
<1>8. \A f, g : Precedes(list, f, g) => Contains(list, f) /\ Contains(list, g)
  BY ListOrder DEF Types
<1>9. Linked' = Linked
  BY <1>5, <1>7 DEF Linked
<1>10. Before' = Before
  BY <1>5, <1>7, <1>9 DEF Before, Linked
<1>11. ASSUME NEW i \in 1..Depth PROVE Ahead(i)' = Ahead(i)
  <2>1. i \in Nat \ {0} /\ i < n
    BY <1>1, TopWalk
  <2>2. CASE emissions[i].walk = "mutable"
    <3>1. Cursor(i) \notin {c, z} /\ End(i) \notin {c, z}
      BY <1>1, <1>4, <2>1, MarkerFacts
    <3> QED BY <1>3, <1>5, <1>7, <2>2, <3>1 DEF Ahead
  <2>3. CASE emissions[i].walk = "saved"
    <3>1. PICK e : e = emissions[i].next
      OBVIOUS
    <3>2. e = ListHead \/ (e \in Markers => e.of < i)
      BY <1>3, <2>3, <3>1 DEF Pointers
    <3>3. e \notin {c, z}
      BY <1>6, <2>1, <3>2, MarkersApart DEF Elements
    <3> QED BY <1>3, <1>5, <1>7, <2>3, <3>1, <3>3 DEF Ahead
  <2> QED BY <1>3, <2>2, <2>3, TopWalk DEF Walk
<1>12. Ahead(n)' = Linked
  <2>1. \A l \in Listeners : Precedes(list', c, l) /\ Precedes(list', l, z) <=> Contains(list, l)
    BY <1>5, <1>7, <1>8
  <2> QED BY <1>2, <1>3, <1>4, <2>1 DEF Ahead, Linked
<1>13. Calling /\ Linkage'
  BY EmitMutableKeeps DEF EmitMutable
<1> HIDE DEF IInv, Linkage
<1> QED BY <1>1, <1>2, <1>9, <1>10, <1>11, <1>12, <1>13, EmitRefines DEF IInv

LEMMA SignalEmitRefines ==
  ASSUME IInv, ~ RemovesNext, SignalEmit
  PROVE  \E open \in BOOLEAN : Abstract!Emit(open)
<1> USE DEF IInv, Linkage
<1>1. PICK n \in Nat \ {0} : n = Depth + 1
  BY TopWalk
<1>2. list \in Seq(Elements) /\ IsInjective(list) /\ list' = list
  BY DEF SignalEmit, Types
<1>3. First = ListHead \/ First \in Elements
  BY <1>2, FirstInList, ListOrder
<1>4. PICK w \in Walk : /\ w.walk = "saved" /\ w.next = First /\ w.running = None
                       /\ emissions' = Append(emissions, w)
  BY <1>3 DEF SignalEmit, Walk
<1>5. /\ DOMAIN emissions = 1..Depth /\ emissions'[n] = w
      /\ \A i \in 1..Depth : emissions'[i] = emissions[i]
  BY <1>1, <1>4, Begun, TopWalk
<1>6. Linked' = Linked /\ Before' = Before
  BY <1>2 DEF Linked, Before
<1>7. \A i \in 1..Depth : Ahead(i)' = Ahead(i)
  BY <1>2, <1>5 DEF Ahead
<1>8. Ahead(n)' = Linked
  <2>1. \A f, g : Precedes(list, f, g) => Contains(list, f) /\ Contains(list, g)
    BY <1>2, ListOrder
  <2>2. \A l \in Listeners : l = First \/ Precedes(list, First, l) <=> Contains(list, l)
    <3>1. CASE list = <<>>
      <4>1. First = ListHead /\ \A f : ~ Contains(list, f)
        BY <1>2, <3>1, FirstInList
      <4> QED BY <2>1, <4>1, MarkersApart DEF Elements
    <3>2. CASE list # <<>>
      <4>1. Contains(list, First) /\ \A f : Contains(list, f) => f = First \/ Precedes(list, First, f)
        BY <1>2, <3>2, FirstInList
      <4> QED BY <2>1, <4>1
    <3> QED BY <3>1, <3>2
  <2> QED BY <1>2, <1>4, <1>5, <2>2 DEF Ahead, Linked
<1>9. Calling /\ Linkage'
  BY SignalEmitKeeps DEF SignalEmit
<1> HIDE DEF IInv, Linkage
<1> QED BY <1>1, <1>4, <1>6, <1>7, <1>8, <1>9, EmitRefines DEF IInv

LEMMA ReturnRefines ==
  ASSUME IInv, ~ RemovesNext, Return
  PROVE  Abstract!Return
<1> USE DEF IInv, Linkage
<1>1. PICK n : n = Depth
  OBVIOUS
<1>2. /\ emissions # <<>> /\ n \in 1..Depth /\ DOMAIN emissions = 1..Depth
      /\ Top = emissions[n] /\ Top \in Walk /\ Top.running # None
  BY <1>1, TopWalk DEF Return, Calling
<1>3. PICK w \in Walk : /\ w.walk = Top.walk /\ w.next = Top.next /\ w.running = None
                       /\ Update(w)
  BY <1>2 DEF Return, Walk
<1>4. /\ Depth' = n /\ emissions'[n] = w
      /\ \A i \in 1..Depth : i # n => emissions'[i] = emissions[i]
  BY <1>1, <1>2, <1>3, Updated
<1>5. \A i \in 1..Depth : /\ emissions'[i].walk = emissions[i].walk
                         /\ emissions'[i].next = emissions[i].next
  BY <1>2, <1>3, <1>4
<1>6. list' = list /\ Types'
  BY ReturnKeeps DEF Return
<1>7. \A i \in 1..Depth : Ahead(i)' = Ahead(i)
  BY <1>5, <1>6 DEF Ahead
<1>8. Linked' = Linked /\ Before' = Before
  BY <1>6 DEF Linked, Before
<1>9. ASSUME NEW i \in 1..Depth
      PROVE  Owed'[i] = IF i = n THEN [Owed[n] EXCEPT !.running = None] ELSE Owed[i]
  <2>1. /\ Owed'[i] = [Owed[i] EXCEPT !.running = emissions'[i].running]
        /\ emissions'[i].running = emissions[i].running => Owed'[i] = Owed[i]
    BY <1>1, <1>4, <1>5, <1>6, <1>7, OwedStep
  <2> QED BY <1>3, <1>4, <2>1
<1>10. /\ DOMAIN Owed = 1..Depth /\ DOMAIN Owed' = 1..Depth /\ Len(Owed) = n
       /\ Owed' \in Seq(Abstract!Emissions) /\ Owed \in Seq(Abstract!Emissions)
  BY <1>1, <1>4, <1>6, OwedFacts, OwedNext
<1>11. Owed' = [Owed EXCEPT ![Len(Owed)] = [Owed[n] EXCEPT !.running = None]]
  BY <1>9, <1>10
<1>12. Abstract!Top = Owed[n] /\ Owed # <<>> /\ Owed[n].running # None
  <2>1. Owed[n].running = emissions[n].running
    BY <1>1, <1>2, <1>4, <1>5, <1>6, OwedStep
  <2> QED BY <1>1, <1>2, <2>1, OwedFacts
<1> QED BY <1>8, <1>11, <1>12 DEF Abstract!Return

(* The innermost emission moves on: it calls the listener that it owes      *)
(* first, or it steps over the marker of another.                           *)
LEMMA StepRefines ==
  ASSUME Types, Types', emissions # <<>>, Top.running = None, NEW n, n = Depth,
         Linked' = Linked, Before' = Before,
         NEW w \in Walk, w.walk = Top.walk, Update(w),
         NEW e, w.running = Notified(e),
         \A i \in 1..Depth : i # n => Ahead(i)' = Ahead(i),
         Ahead(n)' = Ahead(n) \ {e},
         e \in Listeners => e \in Ahead(n) /\ \A k \in Ahead(n) : <<k, e>> \notin Before
  PROVE  (\E l \in Listeners : Abstract!Call(l)) \/ UNCHANGED <<Linked, Before, Owed>>
<1>1. /\ n \in 1..Depth /\ DOMAIN emissions = 1..Depth /\ Top = emissions[n]
      /\ \A i \in 1..Depth : emissions[i] \in Walk
  BY TopWalk
<1>2. /\ Depth' = n /\ emissions'[n] = w
      /\ \A i \in 1..Depth : i # n => emissions'[i] = emissions[i]
  BY <1>1, Updated
<1>3. \A i \in 1..Depth : emissions'[i].walk = emissions[i].walk
  BY <1>1, <1>2
<1>4. /\ DOMAIN Owed = 1..Depth /\ DOMAIN Owed' = 1..Depth /\ Len(Owed) = n
      /\ Owed' \in Seq(Abstract!Emissions) /\ Owed \in Seq(Abstract!Emissions)
  BY <1>2, OwedFacts, OwedNext
<1>5. ASSUME NEW i \in 1..Depth, i # n PROVE Owed'[i] = Owed[i]
  <2>1. emissions'[i].running = emissions[i].running /\ Ahead(i)' = Ahead(i)
    BY <1>2, <1>5
  <2> QED BY <1>2, <1>3, <2>1, OwedStep
<1>6. /\ Owed[n].todo = Ahead(n) /\ Owed[n].running = None
      /\ Ahead(n)' = Ahead(n) /\ w.running = None => Owed'[n] = Owed[n]
      /\ Owed'[n] = [todo |-> Ahead(n)', open |-> Owed[n].open, running |-> w.running]
  BY <1>1, <1>2, <1>3, OwedStep
<1>7. CASE e \in Listeners
  <2>1. PICK d : d = [todo |-> Owed[n].todo \ {e}, open |-> Owed[n].open, running |-> e]
    OBVIOUS
  <2>2. Owed'[n] = d
    BY <1>6, <1>7, <2>1 DEF Notified
  <2>3. Owed' = [Owed EXCEPT ![Len(Owed)] = d]
    BY <1>4, <1>5, <2>2
  <2>4. Abstract!Top = Owed[n] /\ Owed # <<>>
    BY <1>1, OwedFacts
  <2>5. Abstract!Call(e)
    BY <1>6, <1>7, <2>1, <2>3, <2>4 DEF Abstract!Call
  <2> QED BY <1>7, <2>5
<1>8. CASE e \notin Listeners
  <2>1. Ahead(n)' = Ahead(n) /\ w.running = None
    <3>1. Ahead(n) \subseteq Listeners
      BY <1>1, OwedFacts
    <3> QED BY <1>8, <3>1 DEF Notified
  <2>2. \A i \in 1..Depth : Owed'[i] = Owed[i]
    BY <1>5, <1>6, <2>1
  <2>3. Owed' = Owed
    BY <1>4, <2>2
  <2> QED BY <2>3
<1> QED BY <1>7, <1>8

LEMMA StepMutableRefines ==
  ASSUME IInv, ~ RemovesNext, StepMutable
  PROVE  (\E l \in Listeners : Abstract!Call(l)) \/ UNCHANGED <<Linked, Before, Owed>>
<1> USE DEF IInv, Linkage
<1>1. PICK n, c, e, z : n = Depth /\ c = Cursor(n) /\ e = After(c) /\ z = End(n)
  OBVIOUS
<1>2. /\ n \in Nat \ {0} /\ Mutable(n) /\ Contains(list, e) /\ e # z /\ e # c
      /\ Precedes(list, c, e) /\ Precedes(list, e, z)
      /\ \A f : Precedes(list, c, f) => f = e \/ Precedes(list, e, f)
      /\ \A f : Contains(list', f) <=> Contains(list, f)
      /\ \A f, g : Precedes(list', f, g) <=>
           (Precedes(list, f, g) /\ ~ (f = c /\ g = e)) \/ (f = e /\ g = c)
  BY <1>1, CursorMoved
<1>3. c \in Markers /\ z \in Markers /\ c.of = n /\ z.of = n /\ c # z
  BY <1>1, <1>2, MarkerFacts
<1>4. c \notin Listeners /\ z \notin Listeners
  BY <1>3, MarkersApart
<1>5. /\ emissions # <<>> /\ Top.running = None /\ Top \in Walk /\ Top.walk = "mutable"
      /\ DOMAIN emissions = 1..n /\ Top = emissions[n]
  BY <1>1, TopWalk DEF StepMutable
<1>6. Notified(e) \in Listeners \cup {None}
  BY DEF Notified
<1>7. PICK w \in Walk : w.walk = Top.walk /\ w.next = Top.next /\ w.running = Notified(e) /\ Update(w)
  BY <1>1, <1>5, <1>6 DEF StepMutable, Walk
<1>8. /\ emissions'[n] = w
      /\ \A i \in 1..n : i # n => emissions'[i] = emissions[i]
  BY <1>1, <1>5, <1>7, Updated
<1>9. Linked' = Linked
  BY <1>2 DEF Linked
<1>10. Before' = Before
  BY <1>2, <1>4, <1>9 DEF Before, Linked
<1>11. ASSUME NEW i \in 1..n, i # n PROVE Ahead(i)' = Ahead(i)
  <2>1. i \in Nat \ {0} /\ i < n
    BY <1>2, <1>11
  <2>2. CASE emissions[i].walk = "mutable"
    <3>1. Cursor(i) # c /\ End(i) # c
      BY <1>1, <1>2, <2>1, MarkerFacts
    <3> QED BY <1>2, <1>4, <1>8, <1>11, <2>2, <3>1 DEF Ahead
  <2>3. CASE emissions[i].walk = "saved"
    <3>1. PICK f : f = emissions[i].next
      OBVIOUS
    <3>2. f = ListHead \/ (f \in Markers => f.of < i)
      BY <1>5, <2>3, <3>1 DEF Pointers
    <3>3. f # c
      BY <1>2, <1>3, <2>1, <3>2, MarkersApart DEF Elements
    <3> QED BY <1>2, <1>4, <1>8, <1>11, <2>3, <3>1, <3>3 DEF Ahead
  <2> QED BY <1>5, <2>2, <2>3, TopWalk DEF Walk
<1>12. Ahead(n) = {l \in Listeners : Precedes(list, c, l) /\ Precedes(list, l, z)}
  BY <1>1, <1>5 DEF Ahead
<1>13. Ahead(n)' = {l \in Listeners : Precedes(list', c, l) /\ Precedes(list', l, z)}
  BY <1>1, <1>2, <1>5, <1>7, <1>8 DEF Ahead
<1>14. Ahead(n)' = Ahead(n) \ {e}
  BY <1>2, <1>3, <1>4, <1>12, <1>13
<1>15. e \in Listeners => e \in Ahead(n) /\ \A k \in Ahead(n) : <<k, e>> \notin Before
  <2>1. \A f, g : Precedes(list, f, g) => ~ Precedes(list, g, f)
    BY ListOrder DEF Types
  <2>2. ~ Precedes(list, e, e)
    BY <2>1
  <2>3. \A k \in Ahead(n) : ~ Precedes(list, k, e)
    BY <1>2, <1>12, <2>1, <2>2
  <2>4. \A k \in Ahead(n) : <<k, e>> \notin Before
    BY <2>3 DEF Before
  <2> QED BY <1>2, <1>12, <2>4
<1>16. Types'
  BY StepMutableKeeps
<1> HIDE DEF IInv, Linkage
<1>17. Types
  BY DEF IInv, Linkage
<1> QED BY <1>1, <1>5, <1>7, <1>9, <1>10, <1>11, <1>14, <1>15, <1>16, <1>17, StepRefines

LEMMA StepSavedRefines ==
  ASSUME IInv, ~ RemovesNext, StepSaved
  PROVE  (\E l \in Listeners : Abstract!Call(l)) \/ UNCHANGED <<Linked, Before, Owed>>
<1> USE DEF IInv, Linkage
<1>1. PICK n, e, a : n = Depth /\ e = Top.next /\ a = After(e)
  OBVIOUS
<1>2. /\ emissions # <<>> /\ Top.running = None /\ Top \in Walk /\ Top.walk = "saved"
      /\ DOMAIN emissions = 1..n /\ Top = emissions[n] /\ n \in 1..n
  BY <1>1, TopWalk DEF StepSaved
<1>3. list \in Seq(Elements) /\ IsInjective(list) /\ list' = list
  BY DEF StepSaved, Types
<1>4. Contains(list, e)
  BY <1>1, <1>2 DEF Pointers, StepSaved
<1>5. \/ a = ListHead /\ \A f : ~ Precedes(list, e, f)
      \/ /\ Precedes(list, e, a)
         /\ \A f : Precedes(list, e, f) => f = a \/ Precedes(list, a, f)
  BY <1>1, <1>3, <1>4, NextInList
<1>6. /\ \A f, g : Precedes(list, f, g) => Contains(list, f) /\ Contains(list, g)
      /\ \A f : ~ Precedes(list, f, f)
      /\ \A f, g : Precedes(list, f, g) => ~ Precedes(list, g, f)
      /\ \A f, g, h : Precedes(list, f, g) /\ Precedes(list, g, h) => Precedes(list, f, h)
      /\ \A f : Contains(list, f) => f \in Elements
  BY <1>3, ListOrder
<1>7. a = ListHead \/ a \in Elements
  BY <1>5, <1>6
<1>8. Notified(e) \in Listeners \cup {None}
  BY DEF Notified
<1>9. PICK w \in Walk : w.walk = Top.walk /\ w.next = a /\ w.running = Notified(e) /\ Update(w)
  BY <1>1, <1>2, <1>7, <1>8 DEF StepSaved, Walk
<1>10. /\ emissions'[n] = w
       /\ \A i \in 1..n : i # n => emissions'[i] = emissions[i]
  BY <1>1, <1>2, <1>9, Updated
<1>11. Linked' = Linked /\ Before' = Before
  BY <1>3 DEF Linked, Before
<1>12. \A i \in 1..n : i # n => Ahead(i)' = Ahead(i)
  BY <1>3, <1>10 DEF Ahead
<1>13. Ahead(n) = {l \in Listeners : l = e \/ Precedes(list, e, l)}
  BY <1>1, <1>2 DEF Ahead
<1>14. Ahead(n)' = {l \in Listeners : l = a \/ Precedes(list, a, l)}
  BY <1>2, <1>3, <1>9, <1>10 DEF Ahead
<1>15. ListHead \notin Listeners /\ ~ Contains(list, ListHead)
  BY <1>6, MarkersApart DEF Elements
<1>16. \A f : f = a \/ Precedes(list, a, f) => f = ListHead \/ Precedes(list, e, f)
  BY <1>5, <1>6, <1>15
<1>17. \A f : Precedes(list, e, f) => f = a \/ Precedes(list, a, f)
  BY <1>5
<1>18. Ahead(n)' = Ahead(n) \ {e}
  BY <1>6, <1>13, <1>14, <1>15, <1>16, <1>17
<1>19. e \in Listeners => e \in Ahead(n) /\ \A k \in Ahead(n) : <<k, e>> \notin Before
  <2>1. \A k \in Ahead(n) : ~ Precedes(list, k, e)
    BY <1>6, <1>13
  <2>2. \A k \in Ahead(n) : <<k, e>> \notin Before
    BY <2>1 DEF Before
  <2> QED BY <1>13, <2>2
<1>20. Types'
  BY StepSavedKeeps
<1> HIDE DEF IInv, Linkage
<1>21. Types
  BY DEF IInv, Linkage
<1> QED BY <1>1, <1>2, <1>9, <1>11, <1>12, <1>18, <1>19, <1>20, <1>21, StepRefines

(* An emission ends when it owes nothing more.                              *)
LEMMA FinishRefines ==
  ASSUME Types, Types', emissions # <<>>, Top.running = None, NEW n, n = Depth,
         Linked' = Linked, Before' = Before, emissions' = Front(emissions),
         \A i \in 1..n - 1 : Ahead(i)' = Ahead(i), Ahead(n) = {}
  PROVE  Abstract!Finish
<1>1. /\ n \in Nat \ {0} /\ n \in 1..Depth /\ DOMAIN emissions = 1..Depth /\ Top = emissions[n]
  BY TopWalk
<1>2. Depth' = n - 1 /\ \A i \in 1..n - 1 : emissions'[i] = emissions[i]
  BY Ended
<1>3. /\ DOMAIN Owed = 1..n /\ Len(Owed) = n /\ Len(Owed') = n - 1
      /\ Owed' \in Seq(Abstract!Emissions) /\ Owed \in Seq(Abstract!Emissions)
  BY <1>2, OwedFacts, OwedNext
<1>4. ASSUME NEW i \in 1..n - 1 PROVE Owed'[i] = Owed[i]
  <2>1. i \in 1..Depth /\ i \in 1..Depth' /\ emissions'[i] = emissions[i] /\ Ahead(i)' = Ahead(i)
    BY <1>1, <1>2
  <2> QED BY <2>1, OwedStep
<1>5. Owed' = Front(Owed)
  <2> DEFINE m == n - 1
             t == SubSeq(Owed, 1, m)
  <2>1. m \in Nat /\ m =< n /\ \A i \in 1..m : i \in 1..n /\ 1 + i - 1 = i
    BY <1>1
  <2>2. \A i \in 1..m : Owed[i] \in Abstract!Emissions
    BY <1>3, <2>1
  <2>3. /\ t \in Seq(Abstract!Emissions) /\ Len(t) = m
        /\ \A i \in 1..m : t[i] = Owed[i]
    <3> HIDE DEF m
    <3> QED BY <2>1, <2>2, SubSeqProperties
  <2>4. Front(Owed) = t
    BY <1>3 DEF Front
  <2>5. PICK r, q : r = Owed' /\ q = t
    OBVIOUS
  <2>6. r = q
    BY <1>3, <1>4, <2>3, <2>5, SeqEqual
  <2> QED BY <2>4, <2>5, <2>6
<1>6. Owed[n].todo = {} /\ Owed[n].running = None
  <2>1. PICK d, t, o, r : d = Owed[n] /\ t = Ahead(n) /\ r = emissions[n].running
                          /\ o = (emissions[n].walk = "saved")
    OBVIOUS
  <2>2. d = [todo |-> t, open |-> o, running |-> r]
    BY <1>1, <2>1, OwedFacts, Zenon
  <2>3. d.todo = t /\ d.running = r
    BY ONLY <2>2, Debt
  <2> QED BY <1>1, <2>1, <2>3
<1>7. Abstract!Top = Owed[n] /\ Owed # <<>>
  BY OwedFacts
<1> QED BY <1>5, <1>6, <1>7 DEF Abstract!Finish, Abstract!Front, Front

LEMMA FinishMutableRefines ==
  ASSUME IInv, ~ RemovesNext, FinishMutable
  PROVE  Abstract!Finish
<1> USE DEF IInv, Linkage
<1>1. PICK n, c, z : n = Depth /\ c = Cursor(n) /\ z = End(n)
  OBVIOUS
<1>2. /\ n \in Nat \ {0} /\ Mutable(n) /\ emissions # <<>>
      /\ Precedes(list, c, z)
      /\ \A f : Precedes(list, c, f) => f = z \/ Precedes(list, z, f)
      /\ \A f : Contains(list', f) <=> Contains(list, f) /\ f # c /\ f # z
      /\ \A f, g : Precedes(list', f, g) <=>
           Precedes(list, f, g) /\ f # c /\ f # z /\ g # c /\ g # z
  BY <1>1, MarkersUnlinked
<1>3. c \in Markers /\ z \in Markers /\ c.of = n /\ z.of = n
  BY <1>1, <1>2, MarkerFacts
<1>4. c \notin Listeners /\ z \notin Listeners
  BY <1>3, MarkersApart
<1>5. Top.running = None /\ emissions' = Front(emissions) /\ DOMAIN emissions = 1..n
  BY <1>1, TopWalk DEF FinishMutable
<1>6. \A i \in 1..n - 1 : emissions'[i] = emissions[i]
  BY <1>1, <1>2, <1>5, Ended
<1>7. Linked' = Linked
  BY <1>2, <1>4 DEF Linked
<1>8. Before' = Before
  BY <1>2, <1>4, <1>7 DEF Before, Linked
<1>9. ASSUME NEW i \in 1..n - 1 PROVE Ahead(i)' = Ahead(i)
  <2>1. i \in Nat \ {0} /\ i < n /\ i \in DOMAIN emissions
    BY <1>2, <1>5
  <2>2. CASE emissions[i].walk = "mutable"
    <3>1. Cursor(i) \notin {c, z} /\ End(i) \notin {c, z}
      BY <1>1, <1>2, <2>1, MarkerFacts
    <3> QED BY <1>2, <1>4, <1>6, <2>2, <3>1 DEF Ahead
  <2>3. CASE emissions[i].walk = "saved"
    <3>1. PICK f : f = emissions[i].next
      OBVIOUS
    <3>2. f = ListHead \/ (f \in Markers => f.of < i)
      BY <2>1, <2>3, <3>1 DEF Pointers
    <3>3. f \notin {c, z}
      BY <1>2, <1>3, <2>1, <3>2, MarkersApart DEF Elements
    <3> QED BY <1>2, <1>4, <1>6, <2>3, <3>1, <3>3 DEF Ahead
  <2> QED BY <2>1, <2>2, <2>3, TopWalk DEF Walk
<1>10. Ahead(n) = {}
  <2>1. Ahead(n) = {l \in Listeners : Precedes(list, c, l) /\ Precedes(list, l, z)}
    BY <1>1, <1>2 DEF Ahead, Mutable
  <2>2. \A f, g : Precedes(list, f, g) => ~ Precedes(list, g, f)
    BY ListOrder DEF Types
  <2> QED BY <1>2, <1>4, <2>1, <2>2
<1>11. Types'
  BY FinishMutableKeeps
<1> HIDE DEF IInv, Linkage
<1>12. Types
  BY DEF IInv, Linkage
<1> QED BY <1>1, <1>2, <1>5, <1>7, <1>8, <1>9, <1>10, <1>11, <1>12, FinishRefines

LEMMA FinishSavedRefines ==
  ASSUME IInv, ~ RemovesNext, FinishSaved
  PROVE  Abstract!Finish
<1> USE DEF IInv, Linkage
<1>1. PICK n : n = Depth
  OBVIOUS
<1>2. /\ emissions # <<>> /\ Top.running = None /\ emissions' = Front(emissions)
      /\ n \in Nat \ {0} /\ DOMAIN emissions = 1..n /\ list' = list
      /\ emissions[n].walk = "saved" /\ emissions[n].next = ListHead
  BY <1>1, TopWalk DEF FinishSaved
<1>3. \A i \in 1..n - 1 : emissions'[i] = emissions[i]
  BY <1>1, <1>2, Ended
<1>4. Linked' = Linked /\ Before' = Before
  BY <1>2 DEF Linked, Before
<1>5. \A i \in 1..n - 1 : Ahead(i)' = Ahead(i)
  BY <1>2, <1>3 DEF Ahead
<1>6. Ahead(n) = {}
  <2>1. \A f : ~ Precedes(list, ListHead, f)
    BY ListOrder, MarkersApart DEF Types
  <2> QED BY <1>2, <2>1, MarkersApart DEF Ahead, Elements
<1>7. Types'
  BY FinishSavedKeeps
<1> HIDE DEF IInv, Linkage
<1>8. Types
  BY DEF IInv, Linkage
<1> QED BY <1>1, <1>2, <1>4, <1>5, <1>6, <1>7, <1>8, FinishRefines

LEMMA InitRefines == Init => Abstract!Init
<1> SUFFICES ASSUME Init PROVE Abstract!Init
  OBVIOUS
<1>1. Types /\ Depth = 0
  BY InitIInv DEF IInv, Linkage, Init, Depth
<1>2. Owed = <<>>
  BY <1>1, OwedFacts
<1>3. \A e : ~ Contains(list, e)
  BY DEF Init, Contains
<1>4. Linked = {} /\ Before = {}
  BY <1>3 DEF Linked, Before
<1> QED BY <1>2, <1>4 DEF Abstract!Init

LEMMA NextRefines ==
  ASSUME IInv, ~ RemovesNext, [Next]_vars
  PROVE  [Abstract!Next]_<<Linked, Before, Owed>>
<1>1. CASE \E l \in Listeners : SignalAdd(l)
  BY <1>1, AddRefines DEF Abstract!Next
<1>2. CASE \E l \in Listeners : SignalRemove(l)
  BY <1>2, DropRefines DEF Abstract!Next
<1>3. CASE EmitMutable \/ SignalEmit
  BY <1>3, EmitMutableRefines, SignalEmitRefines DEF Abstract!Next
<1>4. CASE Return
  BY <1>4, ReturnRefines DEF Abstract!Next
<1>5. CASE StepMutable
  BY <1>5, StepMutableRefines DEF Abstract!Next
<1>6. CASE StepSaved
  BY <1>6, StepSavedRefines DEF Abstract!Next
<1>7. CASE FinishMutable \/ FinishSaved
  BY <1>7, FinishMutableRefines, FinishSavedRefines DEF Abstract!Next
<1>8. CASE UNCHANGED vars
  BY <1>8 DEF vars, Linked, Before, Owed, Ahead, Depth
<1> QED BY <1>1, <1>2, <1>3, <1>4, <1>5, <1>6, <1>7, <1>8 DEF Next, Walking

(* wl-signal-add, wl-signal-remove, wl-signal-emit and the emissions of     *)
(* wlroots, nested in any way: every listener that stays is called once by  *)
(* every emission that found it, in the order the listeners were added.     *)
THEOREM EmissionImplemented ==
  ASSUME ~ RemovesNext
  PROVE  Spec => ImplementsEmission
<1>1. IInv /\ [Next]_vars => [Abstract!Next]_Abstract!emVars
  BY NextRefines DEF Abstract!emVars
<1>2. Init => Abstract!Init
  BY InitRefines
<1>3. Spec => []IInv
  BY Invariance
<1> QED BY <1>1, <1>2, <1>3, PTL DEF Spec, ImplementsEmission, Abstract!Spec

=============================================================================
