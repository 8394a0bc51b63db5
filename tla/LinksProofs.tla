----------------------------- MODULE LinksProofs -----------------------------
(***************************************************************************)
(* The two lists that run through envs, for any number of slots and any    *)
(* history of calls: env_free_list is the sequence of free slots that Env  *)
(* works with, and env_sched_list a list of runnable environments until    *)
(* an element is removed or inserted twice.                                *)
(*                                                                         *)
(* First what LIST_INSERT_HEAD and LIST_REMOVE do to a well-formed list;   *)
(* then, from the invariant of EnvProofs, that env.c uses them on one.     *)
(***************************************************************************)
EXTENDS Links, EnvProofs, FiniteSetTheorems

USE NenvAssumption

\* The fields of a list head and of the entries in envs.
Link == Slot \union {None}
BackLink == Link \union {AtHead}
ListType(l) ==
    /\ l = [first |-> l.first, next |-> l.next, prev |-> l.prev]
    /\ l.first \in Link /\ l.next \in [Slot -> Link] /\ l.prev \in [Slot -> BackLink]

LEMMA SlotsArePlain == None \notin Slot /\ AtHead \notin Slot /\ AtHead /= None
BY DEF Slot, None, AtHead

-----------------------------------------------------------------------------
(* The macros of queue.h. *)

\* What LIST_INSERT_HEAD writes.
LEMMA InsertWrites ==
    ASSUME NEW l, ListType(l), NEW e \in Slot, NEW r, r = InsertHead(l, e)
    PROVE  /\ ListType(r) /\ r.first = e
           /\ \A s \in Slot : r.next[s] = IF s = e THEN l.first ELSE l.next[s]
           /\ \A s \in Slot : r.prev[s] = IF s = e THEN AtHead
                                          ELSE IF s = l.first THEN e ELSE l.prev[s]
<1> DEFINE old == IF l.first = None THEN l.prev ELSE [l.prev EXCEPT ![l.first] = e]
<1>1. r = [first |-> e, next |-> [l.next EXCEPT ![e] = l.first], prev |-> [old EXCEPT ![e] = AtHead]]
  <2> DEFINE f == l.first  n == l.next  p == l.prev
  <2>1. l = [first |-> f, next |-> n, prev |-> p]
    BY DEF ListType
  <2> HIDE DEF f, n, p
  <2>2. CASE f = None
    BY <2>1, <2>2 DEF InsertHead
  <2>3. CASE f /= None
    BY <2>1, <2>3 DEF InsertHead
  <2> QED BY <2>2, <2>3
<1>2. old \in [Slot -> BackLink] /\ \A s \in Slot : old[s] = IF s = l.first THEN e ELSE l.prev[s]
  BY SlotsArePlain DEF ListType, Link, BackLink
<1> HIDE DEF old
<1>3. /\ r.first = e /\ r.next = [l.next EXCEPT ![e] = l.first]
      /\ r.prev = [old EXCEPT ![e] = AtHead] /\ r = [first |-> r.first, next |-> r.next, prev |-> r.prev]
  BY <1>1
<1>4. ListType(r)
  BY <1>2, <1>3 DEF ListType, Link, BackLink
<1> QED BY <1>2, <1>3, <1>4 DEF ListType

\* What LIST_REMOVE writes for an element whose le_prev is not null.
LEMMA RemoveWrites ==
    ASSUME NEW l, ListType(l), NEW e \in Slot, l.prev[e] /= None, NEW r, r = Remove(l, e)
    PROVE  /\ ListType(r)
           /\ r.first = IF l.prev[e] = AtHead THEN l.next[e] ELSE l.first
           /\ \A s \in Slot : r.next[s] = IF s = l.prev[e] THEN l.next[e] ELSE l.next[s]
           /\ \A s \in Slot : r.prev[s] = IF s = l.next[e] THEN l.prev[e] ELSE l.prev[s]
<1> DEFINE n == l.next[e]
           p == l.prev[e]
           back == IF n = None THEN l.prev ELSE [l.prev EXCEPT ![n] = p]
           forth == IF p = AtHead THEN l.next ELSE [l.next EXCEPT ![p] = n]
           first == IF p = AtHead THEN n ELSE l.first
<1>1. n \in Link /\ p \in BackLink \ {None}
  BY DEF ListType
<1>2. r = [first |-> first, next |-> forth, prev |-> back]
  <2> DEFINE lf == l.first  ln == l.next  lp == l.prev
  <2>1. l = [first |-> lf, next |-> ln, prev |-> lp]
    BY DEF ListType
  <2> HIDE DEF lf, ln, lp
  <2>2. (IF l.next[e] = None THEN l ELSE [l EXCEPT !.prev[l.next[e]] = l.prev[e]])
          = [first |-> lf, next |-> ln, prev |-> back]
    <3>1. CASE n = None
      BY <2>1, <3>1
    <3>2. CASE n /= None
      BY <2>1, <3>2
    <3> QED BY <3>1, <3>2
  <2> HIDE DEF back
  <2>3. CASE p = AtHead
    BY <2>2, <2>3, SlotsArePlain DEF Remove
  <2>4. CASE p /= AtHead
    <3>1. p \in Slot
      BY <1>1, <2>4 DEF Link, BackLink
    <3> QED BY <2>2, <2>4, <3>1 DEF Remove
  <2> QED BY <2>3, <2>4
<1>3. back \in [Slot -> BackLink] /\ \A s \in Slot : back[s] = IF s = n THEN p ELSE l.prev[s]
  BY <1>1, SlotsArePlain DEF ListType, Link, BackLink
<1>4. forth \in [Slot -> Link] /\ \A s \in Slot : forth[s] = IF s = p THEN n ELSE l.next[s]
  BY <1>1, SlotsArePlain DEF ListType, Link, BackLink
<1>5. first \in Link
  BY <1>1 DEF ListType
<1> HIDE DEF back, forth, first
<1>6. /\ r.first = first /\ r.next = forth /\ r.prev = back
      /\ r = [first |-> r.first, next |-> r.next, prev |-> r.prev]
  BY <1>2
<1> QED BY <1>3, <1>4, <1>5, <1>6 DEF ListType, first

\* A list without repetition, as Holds looks at it.
LEMMA ListShape ==
    ASSUME NEW q \in Seq(Slot)
    PROVE  /\ Len(q) \in Nat /\ DOMAIN q = 1..Len(q) /\ (q = <<>> <=> Len(q) = 0)
           /\ \A i \in 1..Len(q) : q[i] \in Slot
OBVIOUS

\* LIST_INSERT_HEAD of a new element puts it before the others.
LEMMA InsertHolds ==
    ASSUME NEW l, ListType(l), NEW q \in Seq(Slot), Once(q), Holds(l, q),
           NEW e \in Slot, e \notin Elements(q)
    PROVE  ListType(InsertHead(l, e)) /\ Holds(InsertHead(l, e), <<e>> \o q)
<1> DEFINE p == <<e>> \o q
           n == Len(q)
<1>1. PICK r : r = InsertHead(l, e)
  OBVIOUS
<1>2. /\ ListType(r) /\ r.first = e
      /\ \A s \in Slot : r.next[s] = IF s = e THEN l.first ELSE l.next[s]
      /\ \A s \in Slot : r.prev[s] = IF s = e THEN AtHead
                                     ELSE IF s = l.first THEN e ELSE l.prev[s]
  BY <1>1, InsertWrites
<1>3. /\ n \in Nat /\ p /= <<>> /\ Len(p) = n + 1 /\ p[1] = e
      /\ \A i \in 1..n : p[i + 1] = q[i] /\ q[i] \in Slot /\ q[i] /= e
      /\ \A i, j \in 1..n : q[i] = q[j] => i = j
  BY DEF Elements, Once
<1>4. /\ n = 0 => l.first = None
      /\ n /= 0 => l.first = q[1] /\ l.prev[q[1]] = AtHead /\ l.next[q[n]] = None
      /\ \A i \in 1..(n - 1) : l.next[q[i]] = q[i + 1] /\ l.prev[q[i + 1]] = q[i]
  BY ListShape DEF Holds
<1> HIDE DEF p, n
<1>5. r.prev[p[1]] = AtHead /\ r.next[p[n + 1]] = None
  <2>1. CASE n = 0
    BY <1>2, <1>3, <1>4, <2>1
  <2>2. CASE n /= 0
    <3>1. n \in 1..n
      BY <1>3, <2>2
    <3> QED BY <1>2, <1>3, <1>4, <2>2, <3>1
  <2> QED BY <2>1, <2>2
<1>6. ASSUME NEW i \in 1..n
      PROVE  r.next[p[i]] = p[i + 1] /\ r.prev[p[i + 1]] = p[i]
  <2>1. p[i + 1] = q[i] /\ q[i] \in Slot /\ q[i] /= e /\ n /= 0 /\ 1 \in 1..n
    BY <1>3
  <2>2. CASE i = 1
    BY <1>2, <1>3, <1>4, <2>1, <2>2
  <2>3. CASE i /= 1
    <3> DEFINE j == i - 1
    <3>1. j \in 1..(n - 1) /\ j \in 1..n /\ j + 1 = i
      BY <1>3, <2>3
    <3> HIDE DEF j
    <3>2. p[i] = q[j] /\ q[j] \in Slot /\ q[j] /= e
      BY <1>3, <3>1
    <3>3. l.first = q[1] /\ l.next[q[j]] = q[i] /\ l.prev[q[i]] = q[j]
      BY <1>4, <2>1, <3>1
    <3>4. q[i] /= q[1]
      BY <1>3, <2>1, <2>3
    <3>5. r.next[q[j]] = l.next[q[j]]
      BY <1>2, <3>2
    <3>6. r.prev[q[i]] = l.prev[q[i]]
      BY <1>2, <2>1, <3>3, <3>4
    <3> QED BY <2>1, <3>2, <3>3, <3>5, <3>6
  <2> QED BY <2>2, <2>3
<1>7. Holds(r, p)
  <2>1. n = Len(p) - 1 /\ Len(p) = n + 1
    BY <1>3
  <2> QED BY <1>2, <1>3, <1>5, <1>6, <2>1 DEF Holds
<1> QED BY <1>1, <1>2, <1>7 DEF p

\* What is left of a list when its k-th element is taken out.
Without(q, k) == [i \in 1..(Len(q) - 1) |-> IF i < k THEN q[i] ELSE q[i + 1]]

IsWithout(p, q, k) ==
    /\ p \in Seq(Slot) /\ Len(p) = Len(q) - 1 /\ Once(p)
    /\ \A i \in 1..(Len(q) - 1) : p[i] = IF i < k THEN q[i] ELSE q[i + 1]
    /\ Elements(p) = Elements(q) \ {q[k]}

LEMMA WithoutShape ==
    ASSUME NEW q \in Seq(Slot), Once(q), NEW k \in 1..Len(q), NEW p, p = Without(q, k)
    PROVE  IsWithout(p, q, k)
<1> DEFINE n == Len(q)
<1>1. n \in Nat /\ DOMAIN q = 1..n /\ \A i \in 1..n : q[i] \in Slot
  BY ListShape
<1>2. p = [i \in 1..(n - 1) |-> IF i < k THEN q[i] ELSE q[i + 1]]
  BY DEF Without
<1>3. \A i, j \in 1..n : q[i] = q[j] => i = j
  BY <1>1 DEF Once
<1> HIDE DEF n
<1>4. n - 1 \in Nat /\ k \in 1..n
  BY <1>1 DEF n
<1>5. /\ DOMAIN p = 1..(n - 1)
      /\ \A i \in 1..(n - 1) : p[i] = IF i < k THEN q[i] ELSE q[i + 1]
  BY <1>2
<1>6. \A i \in 1..(n - 1) : i \in 1..n /\ i + 1 \in 1..n
  BY <1>1
<1>7. \A i \in 1..(n - 1) : p[i] \in Slot
  BY <1>1, <1>5, <1>6
<1>8. p \in Seq(Slot) /\ Len(p) = n - 1
  BY <1>2, <1>4, <1>5, <1>7
<1>9. ASSUME NEW i \in 1..(n - 1), NEW j \in 1..(n - 1), p[i] = p[j] PROVE i = j
  <2>1. CASE i < k /\ j < k
    BY <1>3, <1>5, <1>6, <1>9, <2>1
  <2>2. CASE ~(i < k) /\ ~(j < k)
    <3>1. i + 1 = j + 1
      BY <1>3, <1>5, <1>6, <1>9, <2>2
    <3> QED BY <3>1
  <2>3. CASE i < k /\ ~(j < k)
    <3>1. i = j + 1
      BY <1>3, <1>5, <1>6, <1>9, <2>3
    <3> QED BY <1>4, <2>3, <3>1
  <2>4. CASE ~(i < k) /\ j < k
    <3>1. i + 1 = j
      BY <1>3, <1>5, <1>6, <1>9, <2>4
    <3> QED BY <1>4, <2>4, <3>1
  <2> QED BY <2>1, <2>2, <2>3, <2>4
<1>10. Once(p)
  BY <1>5, <1>9 DEF Once
<1>11. ASSUME NEW i \in 1..(n - 1) PROVE p[i] \in Elements(q) \ {q[k]}
  <2>1. i < k => i /= k
    BY <1>4
  <2>2. ~(i < k) => i + 1 /= k
    BY <1>4
  <2> QED BY <1>1, <1>3, <1>4, <1>5, <1>6, <2>1, <2>2 DEF Elements
<1>12. ASSUME NEW j \in 1..n, q[j] /= q[k] PROVE \E i \in 1..(n - 1) : p[i] = q[j]
  <2>1. CASE j < k
    <3>1. j \in 1..(n - 1)
      BY <1>1, <1>4, <2>1
    <3> QED BY <1>5, <2>1, <3>1
  <2>2. CASE ~(j < k)
    <3>1. j - 1 \in 1..(n - 1) /\ ~(j - 1 < k) /\ (j - 1) + 1 = j
      BY <1>1, <1>4, <1>12, <2>2
    <3> QED BY <1>5, <3>1
  <2> QED BY <2>1, <2>2
<1>13. Elements(p) = Elements(q) \ {q[k]}
  <2>1. Elements(p) \subseteq Elements(q) \ {q[k]}
    BY <1>5, <1>11 DEF Elements
  <2>2. ASSUME NEW x \in Elements(q) \ {q[k]} PROVE x \in Elements(p)
    <3>1. PICK j \in 1..n : x = q[j]
      BY <1>1 DEF Elements
    <3>2. PICK i \in 1..(n - 1) : p[i] = q[j]
      BY <1>12, <3>1
    <3> QED BY <1>5, <3>1, <3>2 DEF Elements
  <2> QED BY <2>1, <2>2
<1> QED BY <1>5, <1>8, <1>10, <1>13 DEF n, IsWithout

\* LIST_REMOVE takes an element out, wherever it is in the list.
LEMMA RemoveHolds ==
    ASSUME NEW l, ListType(l), NEW q \in Seq(Slot), Once(q), Holds(l, q), NEW k \in 1..Len(q)
    PROVE  ListType(Remove(l, q[k])) /\ Holds(Remove(l, q[k]), Without(q, k))
<1> DEFINE n == Len(q)
           e == q[k]
           a == l.next[e]
           b == l.prev[e]
<1>1. PICK r : r = Remove(l, e)
  OBVIOUS
<1>2. PICK p : p = Without(q, k)
  OBVIOUS
<1>3. /\ n \in Nat /\ k \in 1..n /\ n /= 0
      /\ \A i \in 1..n : q[i] \in Slot /\ q[i] /= AtHead /\ q[i] /= None
      /\ \A i, j \in 1..n : q[i] = q[j] => i = j
  BY ListShape, SlotsArePlain DEF Once
<1>4. /\ l.first = q[1] /\ l.prev[q[1]] = AtHead /\ l.next[q[n]] = None
      /\ \A i \in 1..(n - 1) : l.next[q[i]] = q[i + 1] /\ l.prev[q[i + 1]] = q[i]
  BY <1>3, ListShape DEF Holds
<1>5. /\ p \in Seq(Slot) /\ Len(p) = n - 1 /\ (p = <<>> <=> n = 1)
      /\ \A i \in 1..(n - 1) : p[i] = IF i < k THEN q[i] ELSE q[i + 1]
  <2>1. p \in Seq(Slot) /\ Len(p) = n - 1
        /\ \A i \in 1..(n - 1) : p[i] = IF i < k THEN q[i] ELSE q[i + 1]
    <3>1. IsWithout(p, q, k)
      BY ONLY <1>2, WithoutShape, q \in Seq(Slot), Once(q), k \in 1..Len(q)
    <3> QED BY ONLY <3>1 DEF IsWithout
  <2> QED BY <1>3, <2>1, ListShape
<1> HIDE DEF n
<1>6. /\ k = 1 => b = AtHead
      /\ k > 1 => k - 1 \in 1..n /\ b = q[k - 1]
      /\ k = n => a = None
      /\ k < n => k + 1 \in 1..n /\ a = q[k + 1]
  <2>1. k > 1 => k - 1 \in 1..(n - 1) /\ k - 1 \in 1..n /\ (k - 1) + 1 = k
    BY <1>3
  <2>2. k < n => k \in 1..(n - 1) /\ k + 1 \in 1..n
    BY <1>3
  <2> QED BY <1>4, <2>1, <2>2
<1> HIDE DEF a, b
<1>7. k = 1 \/ k > 1
  BY <1>3
<1>8. k = n \/ k < n
  BY <1>3
<1>9. b /= None
  BY <1>3, <1>6, <1>7, SlotsArePlain
<1>10. /\ ListType(r) /\ r.first = IF b = AtHead THEN a ELSE l.first
       /\ \A s \in Slot : r.next[s] = IF s = b THEN a ELSE l.next[s]
       /\ \A s \in Slot : r.prev[s] = IF s = a THEN b ELSE l.prev[s]
  BY <1>1, <1>3, <1>9, RemoveWrites DEF a, b
<1>11. ASSUME NEW j \in 1..n
       PROVE  /\ j + 1 /= k => r.next[q[j]] = l.next[q[j]]
              /\ j + 1 = k => r.next[q[j]] = a
              /\ j /= k + 1 => r.prev[q[j]] = l.prev[q[j]]
              /\ j = k + 1 => r.prev[q[j]] = b
  <2>1. q[j] = b <=> j + 1 = k
    <3>1. k > 1 => (j = k - 1 <=> j + 1 = k)
      BY <1>3
    <3>2. k = 1 => j + 1 /= k
      BY <1>3
    <3> QED BY <1>3, <1>6, <1>7, <3>1, <3>2
  <2>2. q[j] = a <=> j = k + 1
    <3>1. k = n => j /= k + 1
      BY <1>3
    <3> QED BY <1>3, <1>6, <1>8, <3>1
  <2> QED BY <1>3, <1>10, <2>1, <2>2
<1>12. CASE n = 1
  <2>1. k = 1 /\ k = n /\ Len(p) = 0
    BY <1>3, <1>5, <1>12
  <2>2. r.first = None /\ p = <<>>
    BY <1>5, <1>6, <1>10, <1>12, <2>1
  <2> QED BY <1>1, <1>2, <1>10, <2>1, <2>2 DEF Holds
<1>13. CASE n /= 1
  <2> DEFINE m == n - 1
  <2>1. m \in 1..n /\ m \in Nat /\ m >= 1 /\ m + 1 = n /\ 1 \in 1..m /\ 1 \in 1..n /\ 1 + 1 \in 1..n /\ n \in 1..n
    BY <1>3, <1>13
  <2> HIDE DEF m
  <2>2. \A i \in 1..m : p[i] = IF i < k THEN q[i] ELSE q[i + 1]
    BY <1>5 DEF m
  <2>3. r.first = p[1] /\ r.prev[p[1]] = AtHead
    <3>1. CASE k = 1
      <4>1. p[1] = q[1 + 1] /\ k < n /\ k + 1 = 1 + 1
        BY <1>3, <1>13, <2>1, <2>2, <3>1
      <4>2. a = q[1 + 1] /\ b = AtHead
        BY <1>6, <3>1, <4>1
      <4> QED BY <1>10, <1>11, <2>1, <4>1, <4>2
    <3>2. CASE k > 1
      <4>1. p[1] = q[1] /\ 1 /= k + 1
        BY <1>3, <2>1, <2>2, <3>2
      <4>2. b /= AtHead
        BY <1>3, <1>6, <3>2
      <4> QED BY <1>4, <1>10, <1>11, <2>1, <4>1, <4>2
    <3> QED BY <1>7, <3>1, <3>2
  <2>4. r.next[p[m]] = None
    <3>1. CASE k = n
      <4>1. p[m] = q[m] /\ m + 1 = k
        BY <2>1, <2>2, <3>1
      <4> QED BY <1>6, <1>11, <2>1, <3>1, <4>1
    <3>2. CASE k < n
      <4>1. p[m] = q[n] /\ n + 1 /= k
        BY <1>3, <2>1, <2>2, <3>2
      <4> QED BY <1>4, <1>11, <2>1, <4>1
    <3> QED BY <1>8, <3>1, <3>2
  <2>5. ASSUME NEW i \in 1..(m - 1)
        PROVE  r.next[p[i]] = p[i + 1] /\ r.prev[p[i + 1]] = p[i]
    <3>1. /\ i \in 1..m /\ i + 1 \in 1..m /\ i \in 1..n /\ i + 1 \in 1..n /\ (i + 1) + 1 \in 1..n
          /\ i \in 1..(n - 1) /\ i + 1 \in 1..(n - 1)
      BY <2>1
    <3>2. CASE i + 1 < k
      <4>1. p[i] = q[i] /\ p[i + 1] = q[i + 1] /\ i + 1 /= k /\ i + 1 /= k + 1
        BY <1>3, <2>2, <3>1, <3>2
      <4> QED BY <1>4, <1>11, <3>1, <4>1
    <3>3. CASE i + 1 = k
      <4>1. p[i] = q[i] /\ p[i + 1] = q[k + 1] /\ k + 1 \in 1..n /\ k < n /\ k > 1 /\ k - 1 = i
        <5>1. k \in 1..n /\ n \in Nat /\ i \in 1..n /\ (i + 1) + 1 \in 1..n
          BY <1>3, <3>1
        <5>2. k + 1 \in 1..n /\ k < n /\ k > 1 /\ k - 1 = i /\ i < k /\ ~(i + 1 < k)
          BY ONLY <3>3, <5>1
        <5>3. p[i] = q[i]
          BY ONLY <2>2, <3>1, <5>2
        <5>4. p[i + 1] = q[(i + 1) + 1]
          BY ONLY <2>2, <3>1, <5>2
        <5> QED BY ONLY <3>3, <5>2, <5>3, <5>4
      <4> QED BY <1>6, <1>11, <3>1, <3>3, <4>1
    <3>4. CASE i + 1 > k
      <4>1. p[i] = q[i + 1] /\ p[i + 1] = q[(i + 1) + 1] /\ (i + 1) + 1 /= k /\ (i + 1) + 1 /= k + 1
        BY <1>3, <2>2, <3>1, <3>4
      <4> QED BY <1>4, <1>11, <3>1, <4>1
    <3>5. i + 1 < k \/ i + 1 = k \/ i + 1 > k
      BY <1>3
    <3> QED BY <3>2, <3>3, <3>4, <3>5
  <2>6. Holds(r, p)
    <3>1. Len(p) = m /\ p /= <<>>
      BY <1>5, <1>13 DEF m
    <3> QED BY <2>3, <2>4, <2>5, <3>1 DEF Holds
  <2> QED BY <1>1, <1>2, <1>10, <2>6
<1> QED BY <1>12, <1>13

-----------------------------------------------------------------------------
(* What each call does to statuses and parents. *)

\* env_alloc, with the parent and status its caller gives the environment.
LEMMA AllocTable ==
    ASSUME IndInv, freeList /= <<>>, NEW parent \in Nat, NEW status \in Status,
           EnvAlloc(parent, status), NEW e, e = Head(freeList)
    PROVE  /\ e \in Slot /\ e \in FreeSlots /\ envs[e].status = ENV_FREE
           /\ freeList' = Tail(freeList) /\ FreeSlots' = FreeSlots \ {e}
           /\ envs'[e].status = status /\ envs'[e].parent = parent
           /\ \A s \in Slot : s /= e => envs'[s] = envs[s]
<1>1. /\ e \in Slot /\ e \in FreeSlots /\ FreeSlots' = FreeSlots \ {e}
      /\ envs'[e].parent = parent /\ \A s \in Slot : s /= e => envs'[s] = envs[s]
  BY AllocEffect
<1> DEFINE r == [envs[e] EXCEPT !.status = status, !.id = MkEnvId(nextId + 1, e), !.parent = parent]
<1>2. freeList' = Tail(freeList) /\ envs' = [envs EXCEPT ![e] = r]
  BY DEF EnvAlloc
<1>3. envs \in [Slot -> EnvRecord] /\ envs[e] \in EnvRecord
  BY <1>1 DEF IndInv, EnvTypeOK
<1>4. r.status = status
  BY <1>3 DEF EnvRecord
<1> HIDE DEF r
<1>5. envs'[e] = r
  BY <1>1, <1>2, <1>3
<1> QED BY <1>1, <1>2, <1>4, <1>5 DEF IndInv, FreeListSound

LEMMA CreateTable ==
    ASSUME IndInv, EnvCreate, NEW e, e = Head(freeList)
    PROVE  /\ freeList /= <<>> /\ e \in Slot /\ e \in FreeSlots /\ envs[e].status = ENV_FREE
           /\ freeList' = Tail(freeList) /\ FreeSlots' = FreeSlots \ {e}
           /\ envs'[e].status = ENV_RUNNABLE /\ envs'[e].parent = 0
           /\ \A s \in Slot : s /= e => envs'[s] = envs[s]
<1>1. 0 \in Nat /\ ENV_RUNNABLE \in Status
  BY DEF Status
<1> QED BY <1>1, AllocTable DEF EnvCreate

\* The caller of a system call has an id, which is never zero.
LEMMA CallerHasId ==
    ASSUME IndInv, mode = "user"
    PROVE  curenv \in Slot \ FreeSlots /\ envs[curenv].id \in Nat /\ envs[curenv].id /= 0
<1>1. curenv \in Slot \ FreeSlots
  BY CallerIsUsed
<1>2. PICK n \in 1..nextId : envs[curenv].id = MkEnvId(n, curenv)
  BY <1>1 DEF IndInv, IdsIssued
<1>3. n \in Nat \ {0}
  BY <1>2 DEF IndInv, EnvTypeOK
<1>4. envs[curenv].id \in Nat /\ envs[curenv].id > 0
  BY <1>1, <1>2, <1>3, IdIsPositive
<1> QED BY <1>1, <1>4

LEMMA ForkTable ==
    ASSUME IndInv, NEW outcome, SysEnvAlloc(outcome), NEW e, e = Head(freeList)
    PROVE  \/ outcome = "panic" /\ UNCHANGED <<envs, freeList>>
           \/ /\ outcome /= "panic"
              /\ freeList /= <<>> /\ e \in Slot /\ e \in FreeSlots /\ envs[e].status = ENV_FREE
              /\ freeList' = Tail(freeList) /\ FreeSlots' = FreeSlots \ {e}
              /\ envs'[e].status \in {ENV_RUNNABLE, ENV_NOT_RUNNABLE} /\ envs'[e].parent /= 0
              /\ \A s \in Slot : s /= e => envs'[s] = envs[s]
<1>1. envs[curenv].id \in Nat /\ envs[curenv].id /= 0 /\ freeList /= <<>>
  BY CallerHasId DEF SysEnvAlloc
<1>2. CASE outcome = "panic"
  BY <1>2 DEF SysEnvAlloc
<1>3. ASSUME NEW status \in {ENV_RUNNABLE, ENV_NOT_RUNNABLE}, outcome /= "panic",
             EnvAlloc(envs[curenv].id, status)
      PROVE  /\ e \in Slot /\ e \in FreeSlots /\ envs[e].status = ENV_FREE
             /\ freeList' = Tail(freeList) /\ FreeSlots' = FreeSlots \ {e}
             /\ envs'[e].status \in {ENV_RUNNABLE, ENV_NOT_RUNNABLE} /\ envs'[e].parent /= 0
             /\ \A s \in Slot : s /= e => envs'[s] = envs[s]
  <2>1. status \in Status
    BY DEF Status
  <2> QED BY <1>1, <1>3, <2>1, AllocTable
<1> QED BY <1>1, <1>2, <1>3 DEF SysEnvAlloc

\* A write to fields of one used slot.
LEMMA WriteTable ==
    ASSUME IndInv, NEW e \in Slot, NEW r, envs' = [envs EXCEPT ![e] = r]
    PROVE  envs'[e] = r /\ \A s \in Slot : s /= e => envs'[s] = envs[s]
<1>1. envs \in [Slot -> EnvRecord]
  BY DEF IndInv, EnvTypeOK
<1> QED BY <1>1

\* The environment destroyed is the caller or one of its children.
LEMMA DestroyTable ==
    ASSUME IndInv, NEW id \in NamedId, SysEnvDestroy(id), NEW e, e = Envid2Env(id, TRUE)
    PROVE  /\ e \in Slot \ FreeSlots /\ freeList' = <<e>> \o freeList
           /\ FreeSlots' = FreeSlots \union {e}
           /\ envs'[e].status = ENV_FREE
           /\ \A s \in Slot : s /= e => envs'[s] = envs[s]
           /\ e = curenv \/ envs[e].parent /= 0
<1>1. mode = "user" /\ e /= None /\ envs' = [envs EXCEPT ![e].status = ENV_FREE]
      /\ freeList' = <<e>> \o freeList
  BY DEF SysEnvDestroy
<1>2. e \in Slot \ FreeSlots
  BY <1>1, NamesAreNumbers, FoundIsUsed
<1>3. e = curenv \/ envs[e].parent = envs[curenv].id
  BY <1>1 DEF Envid2Env
<1>4. envs[curenv].id /= 0
  BY <1>1, CallerHasId
<1>5. FreeSlots' = FreeSlots \union {e} /\ envs'[e].status = ENV_FREE
      /\ \A s \in Slot : s /= e => envs'[s] = envs[s]
  BY <1>1, <1>2, FreeEffect
<1> QED BY <1>1, <1>2, <1>3, <1>4, <1>5

SetsStatus(e, id, status) ==
    /\ e = Envid2Env(id, FALSE) /\ freeList' = freeList /\ mode = "user"
    /\ envs'[e].status = status
    /\ envs'[e].parent = envs[e].parent /\ envs'[e].recving = envs[e].recving
    /\ \A s \in Slot : s /= e => envs'[s] = envs[s]
    /\ e = curenv \/ envs[e].status /= ENV_FREE

LEMMA SetStatusTable ==
    ASSUME IndInv, NEW id \in NamedId, NEW status \in SetStatus, SysSetEnvStatus(id, status)
    PROVE  \E e \in Slot \ FreeSlots : SetsStatus(e, id, status)
<1>1. PICK e : e = Envid2Env(id, FALSE)
  OBVIOUS
<1> DEFINE r == [envs[e] EXCEPT !.status = status]
<1>2. mode = "user" /\ e /= None /\ envs' = [envs EXCEPT ![e] = r] /\ freeList' = freeList
  BY <1>1 DEF SysSetEnvStatus
<1>3. e \in Slot \ FreeSlots
  BY <1>1, <1>2, NamesAreNumbers, FoundIsUsed
<1>4. e = curenv \/ envs[e].status /= ENV_FREE
  BY <1>1, <1>2 DEF Envid2Env
<1>5. envs[e] \in EnvRecord
  BY <1>3 DEF IndInv, EnvTypeOK
<1>6. r.status = status /\ r.parent = envs[e].parent /\ r.recving = envs[e].recving
  BY <1>5 DEF EnvRecord
<1> HIDE DEF r
<1>7. envs'[e] = r /\ \A s \in Slot : s /= e => envs'[s] = envs[s]
  BY <1>2, <1>3, WriteTable
<1> QED BY <1>1, <1>2, <1>3, <1>4, <1>6, <1>7 DEF SetsStatus

LEMMA RecvTable ==
    ASSUME IndInv, SysIpcRecv
    PROVE  /\ curenv \in Slot \ FreeSlots /\ freeList' = freeList
           /\ envs'[curenv].status = ENV_NOT_RUNNABLE /\ envs'[curenv].recving = 1
           /\ envs'[curenv].parent = envs[curenv].parent
           /\ \A s \in Slot : s /= curenv => envs'[s] = envs[s]
<1> DEFINE r == [envs[curenv] EXCEPT !.status = ENV_NOT_RUNNABLE, !.recving = 1]
<1>1. curenv \in Slot \ FreeSlots /\ envs' = [envs EXCEPT ![curenv] = r] /\ freeList' = freeList
  BY CallerHasId DEF SysIpcRecv
<1>2. envs[curenv] \in EnvRecord
  BY <1>1 DEF IndInv, EnvTypeOK
<1>3. r.status = ENV_NOT_RUNNABLE /\ r.recving = 1 /\ r.parent = envs[curenv].parent
  BY <1>2 DEF EnvRecord
<1> HIDE DEF r
<1>4. envs'[curenv] = r /\ \A s \in Slot : s /= curenv => envs'[s] = envs[s]
  BY <1>1, WriteTable
<1> QED BY <1>1, <1>3, <1>4

WroteTo(e) ==
    /\ e \in Slot \ FreeSlots /\ freeList' = freeList
    /\ envs[e].status = ENV_NOT_RUNNABLE
    /\ envs'[e].status = ENV_RUNNABLE /\ envs'[e].recving = 0
    /\ envs'[e].from = envs[curenv].id /\ envs'[e].parent = envs[e].parent
    /\ \A s \in Slot : s /= e => envs'[s] = envs[s]
LEMMA SendTable ==
    ASSUME IndInv, NEW id \in NamedId, NEW value \in Value, SysIpcCanSend(id, value),
           NEW e, e = Envid2Env(id, FALSE)
    PROVE  WroteTo(e)
<1> DEFINE r == [envs[e] EXCEPT !.value = value, !.from = envs[curenv].id,
                                !.recving = 0, !.status = ENV_RUNNABLE]
<1>1. mode = "user" /\ e /= None /\ envs' = [envs EXCEPT ![e] = r] /\ freeList' = freeList
  BY DEF SysIpcCanSend
<1>2. e \in Slot \ FreeSlots
  BY <1>1, NamesAreNumbers, FoundIsUsed
<1>3. envs[e].status = ENV_NOT_RUNNABLE
  BY DEF SysIpcCanSend, Receiving
<1>4. envs[e] \in EnvRecord
  BY <1>2 DEF IndInv, EnvTypeOK
<1>5. r.status = ENV_RUNNABLE /\ r.recving = 0 /\ r.from = envs[curenv].id
      /\ r.parent = envs[e].parent
  BY <1>4 DEF EnvRecord
<1> HIDE DEF r
<1>6. envs'[e] = r /\ \A s \in Slot : s /= e => envs'[s] = envs[s]
  BY <1>1, <1>2, WriteTable
<1> QED BY <1>1, <1>2, <1>3, <1>5, <1>6 DEF WroteTo

-----------------------------------------------------------------------------
(* The two properties of Env that depend on the statuses programs pass. *)

\* Every free slot can be allocated again, if no program passes ENV_FREE.
LEMMA SlotsKept ==
    ASSUME ENV_FREE \notin SetStatus, IndInv, NoSlotLost, [Next]_vars
    PROVE  NoSlotLost'
<1>1. CASE EnvCreate
  <2>1. PICK e : e = Head(freeList)
    OBVIOUS
  <2> QED BY <1>1, <2>1, CreateTable DEF NoSlotLost, ENV_FREE, ENV_RUNNABLE
<1>2. CASE (HandleIrq \/ SysYield) \/ UNCHANGED vars
  <2>1. UNCHANGED <<envs, freeList>>
    BY <1>2 DEF HandleIrq, SysYield, vars
  <2> QED BY <2>1 DEF NoSlotLost, FreeSlots
<1>3. ASSUME NEW outcome, SysEnvAlloc(outcome) PROVE NoSlotLost'
  <2>1. PICK e : e = Head(freeList)
    OBVIOUS
  <2>2. CASE UNCHANGED <<envs, freeList>>
    BY <2>2 DEF NoSlotLost, FreeSlots
  <2>3. CASE ~UNCHANGED <<envs, freeList>>
    BY <1>3, <2>1, <2>3, ForkTable DEF NoSlotLost, ENV_FREE, ENV_RUNNABLE, ENV_NOT_RUNNABLE
  <2> QED BY <2>2, <2>3
<1>4. ASSUME NEW id \in NamedId, SysEnvDestroy(id) PROVE NoSlotLost'
  <2>1. PICK e : e = Envid2Env(id, TRUE)
    OBVIOUS
  <2> QED BY <1>4, <2>1, DestroyTable DEF NoSlotLost
<1>5. ASSUME NEW id \in NamedId, NEW status \in SetStatus, SysSetEnvStatus(id, status)
      PROVE  NoSlotLost'
  <2>1. PICK e \in Slot \ FreeSlots : SetsStatus(e, id, status)
    BY <1>5, SetStatusTable
  <2>2. status /= ENV_FREE
    OBVIOUS
  <2> QED BY <2>1, <2>2 DEF NoSlotLost, FreeSlots, SetsStatus
<1>6. CASE SysIpcRecv
  BY <1>6, RecvTable DEF NoSlotLost, FreeSlots, ENV_FREE, ENV_NOT_RUNNABLE
<1>7. ASSUME NEW id \in NamedId, NEW value \in Value, SysIpcCanSend(id, value)
      PROVE  NoSlotLost'
  <2>1. PICK e : e = Envid2Env(id, FALSE)
    OBVIOUS
  <2>2. freeList' = freeList /\ envs'[e].status = ENV_RUNNABLE
        /\ \A s \in Slot : s /= e => envs'[s] = envs[s]
    <3>1. WroteTo(e)
      BY ONLY <1>7, <2>1, SendTable, IndInv
    <3> QED BY ONLY <3>1 DEF WroteTo
  <2> QED BY <2>2 DEF NoSlotLost, FreeSlots, ENV_FREE, ENV_RUNNABLE
<1> QED BY <1>1, <1>2, <1>3, <1>4, <1>5, <1>6, <1>7 DEF Next

\* env_init queues every slot.
LEMMA SlotsQueued == Init => NoSlotLost
<1> SUFFICES ASSUME Init, NEW s \in Slot PROVE s \in FreeSlots
  BY DEF NoSlotLost
<1>1. s + 1 \in 1..NENV /\ freeList = [i \in 1..NENV |-> i - 1]
  BY DEF Init, Slot
<1>2. s + 1 \in DOMAIN freeList /\ freeList[s + 1] = s
  BY <1>1 DEF Slot
<1> QED BY <1>2 DEF FreeSlots

\* Programs that never pass ENV_FREE to sys_set_env_status lose no slot: every slot with
\* that status is one env_alloc will find.
THEOREM SlotsAreKept == ASSUME ENV_FREE \notin SetStatus PROVE Spec => []NoSlotLost
<1>1. IndInv /\ NoSlotLost /\ [Next]_vars => NoSlotLost'
  BY SlotsKept
<1> QED BY <1>1, SlotsQueued, Invariant, PTL DEF Spec

\* Programs that never pass ENV_RUNNABLE to sys_set_env_status leave it to senders, or to
\* an end, to release a blocked receiver.
THEOREM ReceiversWake ==
    ASSUME ENV_RUNNABLE \notin SetStatus PROVE Spec => ReceiverWakesWithMessage
<1> DEFINE Woken(s) ==
        \/ envs'[s].status = ENV_FREE
        \/ /\ envs'[s].recving = 0 /\ envs'[s].status = ENV_RUNNABLE
           /\ envs'[s].from = envs[curenv].id
<1>1. ASSUME IndInv, [Next]_vars, NEW s \in Slot, Receiving(s), ~Receiving(s)'
      PROVE  Woken(s)
  <2>1. envs[s].status = ENV_NOT_RUNNABLE /\ envs[s].recving /= 0 /\ envs[s].status /= ENV_FREE
    BY <1>1 DEF Receiving, ENV_FREE, ENV_NOT_RUNNABLE
  <2>2. envs'[s] /= envs[s]
    BY <1>1 DEF Receiving
  <2>3. CASE EnvCreate
    <3>1. PICK e : e = Head(freeList)
      OBVIOUS
    <3> QED BY <1>1, <2>1, <2>2, <2>3, <3>1, CreateTable
  <2>4. CASE (HandleIrq \/ SysYield) \/ UNCHANGED vars
    BY <2>2, <2>4 DEF HandleIrq, SysYield, vars
  <2>5. ASSUME NEW outcome, SysEnvAlloc(outcome) PROVE FALSE
    <3>1. PICK e : e = Head(freeList)
      OBVIOUS
    <3> QED BY <1>1, <2>1, <2>2, <2>5, <3>1, ForkTable
  <2>6. ASSUME NEW id \in NamedId, SysEnvDestroy(id) PROVE Woken(s)
    <3>1. PICK e : e = Envid2Env(id, TRUE)
      OBVIOUS
    <3> QED BY <1>1, <2>2, <2>6, <3>1, DestroyTable
  <2>7. ASSUME NEW id \in NamedId, NEW status \in SetStatus, SysSetEnvStatus(id, status)
        PROVE  Woken(s)
    <3>1. PICK e \in Slot \ FreeSlots : SetsStatus(e, id, status)
      BY <1>1, <2>7, SetStatusTable
    <3>2. status = ENV_FREE \/ status = ENV_NOT_RUNNABLE
      BY ArgumentAssumption DEF Status
    <3>3. s = e
      BY <2>2, <3>1 DEF SetsStatus
    <3> QED BY <1>1, <2>1, <3>1, <3>2, <3>3 DEF Receiving, SetsStatus
  <2>8. CASE SysIpcRecv
    <3>1. s = curenv /\ envs'[s].status = ENV_NOT_RUNNABLE /\ envs'[s].recving = 1
      BY <1>1, <2>2, <2>8, RecvTable
    <3> QED BY <1>1, <3>1 DEF Receiving
  <2>9. ASSUME NEW id \in NamedId, NEW value \in Value, SysIpcCanSend(id, value)
        PROVE  Woken(s)
    <3>1. PICK e : e = Envid2Env(id, FALSE)
      OBVIOUS
    <3> QED BY <1>1, <2>2, <2>9, <3>1, SendTable DEF WroteTo
  <2> QED BY <1>1, <2>3, <2>4, <2>5, <2>6, <2>7, <2>8, <2>9 DEF Next
<1>2. IndInv /\ [Next]_vars =>
        [\A s \in Slot : Receiving(s) /\ ~Receiving(s)' =>
            \/ envs'[s].status = ENV_FREE
            \/ /\ envs'[s].recving = 0 /\ envs'[s].status = ENV_RUNNABLE
               /\ envs'[s].from = envs[curenv].id]_vars
  BY <1>1
<1> QED BY <1>2, Invariant, PTL DEF Spec, ReceiverWakesWithMessage

-----------------------------------------------------------------------------
(* The invariant of both lists. *)

FreeSide == ListType(free) /\ FreeLinksSound

\* Until something is removed or inserted twice, sched is a list of the slots in queued.
SchedSide ==
    misused = None =>
        /\ ListType(sched)
        /\ \E q \in Seq(Slot) : Once(q) /\ Elements(q) = queued /\ Holds(sched, q)

ListsInv == FreeSide /\ SchedSide /\ SchedListHoldsRunnable

\* Taking the head out of a sequence is taking its first element out.
LEMMA TailIsWithout ==
    ASSUME NEW q \in Seq(Slot), q /= <<>>
    PROVE  1 \in 1..Len(q) /\ q[1] = Head(q) /\ Tail(q) = Without(q, 1)
<1> DEFINE n == Len(q) - 1
           t == Tail(q)
           p == Without(q, 1)
<1>1. n \in Nat /\ 1 \in 1..Len(q) /\ q[1] = Head(q)
  OBVIOUS
<1>2. t \in Seq(Slot) /\ Len(t) = n /\ DOMAIN t = 1..n /\ \A i \in 1..n : t[i] = q[i + 1]
  OBVIOUS
<1>3. p = [i \in 1..n |-> IF i < 1 THEN q[i] ELSE q[i + 1]]
  BY DEF Without
<1> HIDE DEF n, t, p
<1>4. t \in [1..n -> Slot]
  BY <1>2
<1>5. \A i \in 1..n : ~(i < 1)
  BY <1>1
<1>6. p = [i \in 1..n |-> q[i + 1]]
  BY <1>3, <1>5
<1>7. t = p
  BY <1>2, <1>4, <1>6
<1> QED BY <1>1, <1>7 DEF t, p

\* env_alloc removes the first element of env_free_list.
LEMMA FreeTaken ==
    ASSUME IndInv, FreeSide, freeList /= <<>>,
           freeList' = Tail(freeList), free' = Remove(free, free.first)
    PROVE  FreeSide' /\ free.first = Head(freeList)
<1>1. freeList \in Seq(Slot) /\ Once(freeList) /\ ListType(free) /\ Holds(free, freeList)
  BY FreeListIsOnce DEF IndInv, EnvTypeOK, FreeSide, FreeLinksSound
<1>2. /\ 1 \in 1..Len(freeList) /\ freeList[1] = Head(freeList)
      /\ Tail(freeList) = Without(freeList, 1)
  BY <1>1, TailIsWithout
<1>3. free.first = freeList[1]
  BY <1>1 DEF Holds
<1>4. ListType(free') /\ Holds(free', freeList')
  BY <1>1, <1>2, <1>3, RemoveHolds
<1> QED BY <1>2, <1>3, <1>4 DEF FreeSide, FreeLinksSound, ListType, Holds

\* env_free inserts a slot that was in use, and so not on the list.
LEMMA FreePushed ==
    ASSUME IndInv, FreeSide, NEW e \in Slot \ FreeSlots,
           freeList' = <<e>> \o freeList, free' = InsertHead(free, e)
    PROVE  FreeSide'
<1>1. freeList \in Seq(Slot) /\ Once(freeList) /\ ListType(free) /\ Holds(free, freeList)
  BY FreeListIsOnce DEF IndInv, EnvTypeOK, FreeSide, FreeLinksSound
<1>2. e \notin Elements(freeList)
  BY DEF FreeSlots, Elements
<1>3. ListType(free') /\ Holds(free', freeList')
  BY <1>1, <1>2, InsertHolds
<1> QED BY <1>3 DEF FreeSide, FreeLinksSound, ListType, Holds

\* LIST_INSERT_HEAD on env_sched_list is harmless for a slot that is not in it.
LEMMA Enqueued ==
    ASSUME SchedSide, NEW e \in Slot, Enqueue(e)
    PROVE  SchedSide'
<1> SUFFICES ASSUME misused' = None
             PROVE  /\ ListType(sched)'
                    /\ \E q \in Seq(Slot) : Once(q) /\ Elements(q) = queued' /\ Holds(sched, q)'
  BY DEF SchedSide
<1>1. misused = None /\ e \notin queued /\ queued' = queued \union {e} /\ sched' = InsertHead(sched, e)
  BY SlotsArePlain DEF Enqueue
<1>2. PICK q \in Seq(Slot) : Once(q) /\ Elements(q) = queued /\ Holds(sched, q)
  BY <1>1 DEF SchedSide
<1>3. ListType(sched)
  BY <1>1 DEF SchedSide
<1>4. ListType(sched') /\ Holds(sched', <<e>> \o q)
  BY <1>1, <1>2, <1>3, InsertHolds
<1>5. <<e>> \o q \in Seq(Slot) /\ Once(<<e>> \o q) /\ Elements(<<e>> \o q) = queued'
  BY <1>1, <1>2, PushHead
<1>6. ListType(sched)' /\ Holds(sched, <<e>> \o q)'
  BY <1>4 DEF ListType, Holds
<1> QED BY <1>5, <1>6

\* LIST_REMOVE on env_sched_list is harmless for a slot that is in it.
LEMMA Dequeued ==
    ASSUME SchedSide, NEW e \in Slot, Dequeue(e)
    PROVE  SchedSide'
<1> SUFFICES ASSUME misused' = None
             PROVE  /\ ListType(sched)'
                    /\ \E q \in Seq(Slot) : Once(q) /\ Elements(q) = queued' /\ Holds(sched, q)'
  BY DEF SchedSide
<1>1. misused = None /\ e \in queued /\ queued' = queued \ {e} /\ sched' = Remove(sched, e)
  BY SlotsArePlain DEF Dequeue
<1>2. PICK q \in Seq(Slot) : Once(q) /\ Elements(q) = queued /\ Holds(sched, q)
  BY <1>1 DEF SchedSide
<1>3. ListType(sched)
  BY <1>1 DEF SchedSide
<1>4. PICK k \in 1..Len(q) : q[k] = e
  BY <1>1, <1>2, ListShape DEF Elements
<1> DEFINE p == Without(q, k)
<1>5. ListType(sched') /\ Holds(sched', p)
  BY <1>1, <1>2, <1>3, <1>4, RemoveHolds
<1>6. p \in Seq(Slot) /\ Once(p) /\ Elements(p) = queued'
  BY <1>1, <1>2, <1>4, WithoutShape DEF IsWithout
<1> HIDE DEF p
<1>7. ListType(sched)' /\ Holds(sched, p)'
  BY <1>5 DEF ListType, Holds
<1> QED BY <1>6, <1>7

\* env_init and LIST_INIT.
LEMMA ListsBuilt == LinksInit => ListsInv
<1> SUFFICES ASSUME LinksInit PROVE ListsInv
  OBVIOUS
<1>1. free = EnvInit /\ sched = EmptyList /\ queued = {} /\ freeList = [i \in 1..NENV |-> i - 1]
      /\ envs = [s \in Slot |-> FreeEnv]
  BY DEF LinksInit, Init
<1>2. 0 \in Slot /\ \A s \in Slot : s \in 0..(NENV - 1)
  BY DEF Slot
<1>3. /\ \A s \in Slot : s /= NENV - 1 => s + 1 \in Slot
      /\ \A s \in Slot : s /= 0 => s - 1 \in Slot
  BY DEF Slot
<1>4. ListType(free)
  <2> DEFINE n == [s \in Slot |-> IF s = NENV - 1 THEN None ELSE s + 1]
             p == [s \in Slot |-> IF s = 0 THEN AtHead ELSE s - 1]
  <2>1. n \in [Slot -> Link] /\ p \in [Slot -> BackLink]
    BY <1>3 DEF Link, BackLink
  <2>2. free = [first |-> 0, next |-> n, prev |-> p]
    BY <1>1 DEF EnvInit
  <2> HIDE DEF n, p
  <2> QED BY <1>2, <2>1, <2>2 DEF ListType, Link
<1>5. FreeLinksSound
  <2>1. /\ freeList \in Seq(Slot) /\ Len(freeList) = NENV /\ freeList /= <<>>
        /\ \A i \in 1..NENV : freeList[i] = i - 1
    <3>1. \A i \in 1..NENV : i - 1 \in Slot
      BY DEF Slot
    <3>2. PICK q : q = freeList
      OBVIOUS
    <3>3. q = [i \in 1..NENV |-> i - 1] /\ NENV \in Nat /\ NENV /= 0
      BY <1>1, <3>2
    <3>4. q \in Seq(Slot) /\ DOMAIN q = 1..NENV /\ \A i \in 1..NENV : q[i] = i - 1
      BY <3>1, <3>3
    <3>5. Len(q) = NENV
      BY <3>3, <3>4
    <3>6. q /= <<>>
      BY <3>3, <3>5
    <3> QED BY <3>2, <3>4, <3>5, <3>6
  <2>2. /\ free.first = 0
        /\ \A s \in Slot : free.next[s] = IF s = NENV - 1 THEN None ELSE s + 1
        /\ \A s \in Slot : free.prev[s] = IF s = 0 THEN AtHead ELSE s - 1
    BY <1>1 DEF EnvInit
  <2>3. freeList[1] = 0 /\ freeList[NENV] = NENV - 1 /\ NENV - 1 \in Slot
    BY <2>1 DEF Slot
  <2>4. free.first = freeList[1] /\ free.prev[freeList[1]] = AtHead /\ free.next[freeList[Len(freeList)]] = None
    BY <1>2, <2>1, <2>2, <2>3
  <2>5. ASSUME NEW i \in 1..(NENV - 1)
        PROVE  free.next[freeList[i]] = freeList[i + 1] /\ free.prev[freeList[i + 1]] = freeList[i]
    <3>1. /\ freeList[i] = i - 1 /\ freeList[i + 1] = i /\ i - 1 \in Slot /\ i \in Slot
          /\ i - 1 /= NENV - 1 /\ i /= 0 /\ (i - 1) + 1 = i
      BY <2>1 DEF Slot
    <3>2. free.next[i - 1] = (i - 1) + 1 /\ free.prev[i] = i - 1
      BY <2>2, <3>1
    <3> QED BY <3>1, <3>2
  <2> QED BY <2>1, <2>4, <2>5 DEF FreeLinksSound, Holds
<1>6. SchedSide
  <2> DEFINE none == [s \in Slot |-> None]
  <2>1. none \in [Slot -> Link] /\ none \in [Slot -> BackLink]
    BY DEF Link, BackLink
  <2>2. sched = [first |-> None, next |-> none, prev |-> none]
    BY <1>1 DEF EmptyList
  <2> HIDE DEF none
  <2>3. ListType(sched) /\ sched.first = None
    BY <2>1, <2>2 DEF ListType, Link
  <2>4. <<>> \in Seq(Slot) /\ Len(<<>>) = 0 /\ Once(<<>>) /\ Elements(<<>>) = {}
    BY DEF Once, Elements
  <2>5. Holds(sched, <<>>)
    BY <2>3, <2>4 DEF Holds
  <2> QED BY <1>1, <2>3, <2>4, <2>5 DEF SchedSide
<1>7. SchedListHoldsRunnable
  <2>1. FreeEnv.status = ENV_FREE /\ \A s \in Slot : envs[s] = FreeEnv
    BY <1>1 DEF FreeEnv
  <2> QED BY <1>1, <2>1 DEF SchedListHoldsRunnable, ENV_FREE, ENV_RUNNABLE
<1> QED BY <1>4, <1>5, <1>6, <1>7 DEF ListsInv, FreeSide

-----------------------------------------------------------------------------
(* One lemma for each use of the lists, then the theorems. *)

\* A slot that becomes runnable is queued, and one that ceases to be is taken out.
LEMMA QueuedRunnable ==
    ASSUME SchedListHoldsRunnable, NEW e \in Slot,
           \A s \in Slot : s /= e => envs'[s] = envs[s],
           \/ Enqueue(e) /\ envs'[e].status = ENV_RUNNABLE
           \/ Dequeue(e) /\ envs'[e].status /= ENV_RUNNABLE,
           queued \subseteq Slot
    PROVE  SchedListHoldsRunnable'
<1> SUFFICES ASSUME misused' = None
             PROVE  /\ \A s \in queued' : envs'[s].status = ENV_RUNNABLE
                    /\ \A s \in Slot : envs'[s].status = ENV_RUNNABLE /\ envs'[s].parent = 0
                        => s \in queued'
  BY DEF SchedListHoldsRunnable
<1>1. misused = None
  BY SlotsArePlain DEF Enqueue, Dequeue
<1>2. /\ \A s \in queued : envs[s].status = ENV_RUNNABLE
      /\ \A s \in Slot : envs[s].status = ENV_RUNNABLE /\ envs[s].parent = 0 => s \in queued
  BY <1>1 DEF SchedListHoldsRunnable
<1>3. CASE Enqueue(e) /\ envs'[e].status = ENV_RUNNABLE
  BY <1>2, <1>3 DEF Enqueue
<1>4. CASE Dequeue(e) /\ envs'[e].status /= ENV_RUNNABLE
  BY <1>2, <1>4 DEF Dequeue
<1> QED BY <1>3, <1>4

\* Only slots are queued while SchedSide says anything.
LEMMA QueuedSlots == ASSUME SchedSide, misused = None PROVE queued \subseteq Slot
<1>1. PICK q \in Seq(Slot) : Elements(q) = queued
  BY DEF SchedSide
<1> QED BY <1>1, ListShape DEF Elements

\* The same for any history: after a misuse nothing is claimed.
LEMMA StatusFollowed ==
    ASSUME SchedSide, SchedListHoldsRunnable, NEW e \in Slot,
           \A s \in Slot : s /= e => envs'[s] = envs[s],
           \/ Enqueue(e) /\ envs'[e].status = ENV_RUNNABLE
           \/ Dequeue(e) /\ envs'[e].status /= ENV_RUNNABLE
    PROVE  SchedSide' /\ SchedListHoldsRunnable'
<1>1. SchedSide'
  BY Enqueued, Dequeued
<1>2. CASE misused = None
  <2>1. queued \subseteq Slot
    BY <1>2, QueuedSlots
  <2> QED BY <1>1, <2>1, QueuedRunnable
<1>3. CASE misused /= None
  <2>1. Enqueue(e) \/ Dequeue(e)
    OBVIOUS
  <2>2. misused' = misused
    BY <1>3, <2>1 DEF Enqueue, Dequeue
  <2> QED BY <1>1, <1>3, <2>2 DEF SchedListHoldsRunnable
<1> QED BY <1>1, <1>2, <1>3

\* env_free_list is left alone with the sequence it holds.
LEMMA FreeSideStays == ASSUME FreeSide, freeList' = freeList, free' = free PROVE FreeSide'
BY DEF FreeSide, FreeLinksSound, ListType, Holds

\* env_sched_list is left alone.
LEMMA SchedSideStays ==
    ASSUME SchedSide, UNCHANGED <<sched, queued, misused>>
    PROVE  SchedSide'
<1> SUFFICES ASSUME misused = None
             PROVE  /\ ListType(sched)'
                    /\ \E q \in Seq(Slot) : Once(q) /\ Elements(q) = queued' /\ Holds(sched, q)'
  BY DEF SchedSide
<1>1. ListType(sched)
  BY DEF SchedSide
<1>2. PICK q \in Seq(Slot) : Once(q) /\ Elements(q) = queued /\ Holds(sched, q)
  BY DEF SchedSide
<1>3. ListType(sched)' /\ Holds(sched, q)'
  BY <1>1, <1>2 DEF ListType, Holds
<1> QED BY <1>2, <1>3

LEMMA CreateLinks == ASSUME IndInv, ListsInv, CreatePriority PROVE ListsInv'
<1>1. PICK e : e = Head(freeList)
  OBVIOUS
<1>2. /\ freeList /= <<>> /\ e \in Slot /\ freeList' = Tail(freeList)
      /\ envs'[e].status = ENV_RUNNABLE /\ \A s \in Slot : s /= e => envs'[s] = envs[s]
  BY <1>1, CreateTable DEF CreatePriority
<1>3. free' = Remove(free, free.first) /\ Enqueue(free.first)
  BY DEF CreatePriority
<1>4. FreeSide' /\ free.first = e
  BY <1>1, <1>2, <1>3, FreeTaken DEF ListsInv
<1>5. SchedSide' /\ SchedListHoldsRunnable'
  BY <1>2, <1>3, <1>4, StatusFollowed DEF ListsInv
<1> QED BY <1>4, <1>5 DEF ListsInv

\* A forked environment is not queued, and has a parent.
LEMMA ForkLinks == ASSUME IndInv, ListsInv, NEW outcome, ForkSlot(outcome) PROVE ListsInv'
<1>1. PICK e : e = Head(freeList)
  OBVIOUS
<1>2. SysEnvAlloc(outcome) /\ UNCHANGED <<sched, queued, misused>>
      /\ free' = IF outcome = "panic" THEN free ELSE Remove(free, free.first)
  BY DEF ForkSlot
<1>3. SchedSide'
  BY <1>2, SchedSideStays DEF ListsInv
<1>4. CASE outcome = "panic" /\ UNCHANGED <<envs, freeList>>
  <2>1. FreeSide'
    BY <1>2, <1>4, FreeSideStays DEF ListsInv
  <2>2. SchedListHoldsRunnable'
    BY <1>2, <1>4 DEF ListsInv, SchedListHoldsRunnable
  <2> QED BY <1>3, <2>1, <2>2 DEF ListsInv
<1>5. ASSUME outcome /= "panic", freeList /= <<>>, e \in Slot, envs[e].status = ENV_FREE,
             freeList' = Tail(freeList), envs'[e].parent /= 0,
             \A s \in Slot : s /= e => envs'[s] = envs[s]
      PROVE  ListsInv'
  <2>1. FreeSide'
    BY <1>2, <1>5, FreeTaken DEF ListsInv
  <2>2. ASSUME misused = None
        PROVE  /\ \A s \in queued : envs'[s].status = ENV_RUNNABLE
               /\ \A s \in Slot : envs'[s].status = ENV_RUNNABLE /\ envs'[s].parent = 0
                    => s \in queued
    <3>1. queued \subseteq Slot
      BY <2>2, QueuedSlots DEF ListsInv
    <3>2. /\ \A s \in queued : envs[s].status = ENV_RUNNABLE
          /\ \A s \in Slot : envs[s].status = ENV_RUNNABLE /\ envs[s].parent = 0 => s \in queued
      BY <2>2 DEF ListsInv, SchedListHoldsRunnable
    <3>3. e \notin queued
      BY <1>5, <3>2 DEF ENV_FREE, ENV_RUNNABLE
    <3> QED BY <1>5, <3>1, <3>2, <3>3
  <2>3. SchedListHoldsRunnable'
    BY <1>2, <2>2 DEF SchedListHoldsRunnable
  <2> QED BY <1>3, <2>1, <2>3 DEF ListsInv
<1>6. \/ outcome = "panic" /\ UNCHANGED <<envs, freeList>>
      \/ /\ outcome /= "panic" /\ freeList /= <<>> /\ e \in Slot /\ envs[e].status = ENV_FREE
         /\ freeList' = Tail(freeList) /\ envs'[e].parent /= 0
         /\ \A s \in Slot : s /= e => envs'[s] = envs[s]
  BY <1>1, <1>2, ForkTable
<1> QED BY <1>4, <1>5, <1>6

LEMMA FreeLinks == ASSUME IndInv, ListsInv, NEW id \in NamedId, FreeSlot(id) PROVE ListsInv'
<1>1. PICK e : e = Envid2Env(id, TRUE)
  OBVIOUS
<1>2. SysEnvDestroy(id) /\ free' = InsertHead(free, e) /\ Dequeue(e)
  BY <1>1 DEF FreeSlot
<1>3. /\ e \in Slot \ FreeSlots /\ freeList' = <<e>> \o freeList
      /\ envs'[e].status = ENV_FREE /\ \A s \in Slot : s /= e => envs'[s] = envs[s]
  BY <1>1, <1>2, DestroyTable
<1>4. FreeSide'
  BY <1>2, <1>3, FreePushed DEF ListsInv
<1>5. envs'[e].status /= ENV_RUNNABLE
  BY <1>3 DEF ENV_FREE, ENV_RUNNABLE
<1>6. SchedSide' /\ SchedListHoldsRunnable'
  BY <1>2, <1>3, <1>5, StatusFollowed DEF ListsInv
<1> QED BY <1>4, <1>6 DEF ListsInv

LEMMA StatusLinks ==
    ASSUME IndInv, ListsInv, NEW id \in NamedId, NEW status \in SetStatus,
           SetStatusLinks(id, status)
    PROVE  ListsInv'
<1>1. SysSetEnvStatus(id, status) /\ free' = free
  BY DEF SetStatusLinks
<1>2. PICK e \in Slot \ FreeSlots : SetsStatus(e, id, status)
  BY <1>1, SetStatusTable
<1>3. /\ e = Envid2Env(id, FALSE) /\ freeList' = freeList /\ envs'[e].status = status
      /\ envs'[e].parent = envs[e].parent /\ \A s \in Slot : s /= e => envs'[s] = envs[s]
  BY <1>2 DEF SetsStatus
<1>4. FreeSide'
  BY <1>1, <1>3, FreeSideStays DEF ListsInv
<1>5. CASE status = ENV_RUNNABLE
  <2>1. Enqueue(e)
    BY <1>3, <1>5 DEF SetStatusLinks
  <2> QED BY <1>3, <1>4, <1>5, <2>1, StatusFollowed DEF ListsInv
<1>6. CASE status /= ENV_RUNNABLE /\ envs[e].status /= status
  <2>1. Dequeue(e)
    BY <1>3, <1>6 DEF SetStatusLinks
  <2> QED BY <1>3, <1>4, <1>6, <2>1, StatusFollowed DEF ListsInv
<1>7. CASE status /= ENV_RUNNABLE /\ envs[e].status = status
  <2>1. UNCHANGED <<sched, queued, misused>>
    BY <1>3, <1>7 DEF SetStatusLinks
  <2>2. \A s \in Slot : envs'[s].status = envs[s].status /\ envs'[s].parent = envs[s].parent
    BY <1>3, <1>7
  <2>3. SchedSide'
    BY <2>1, SchedSideStays DEF ListsInv
  <2>4. SchedListHoldsRunnable'
    <3>1. misused = None => queued \subseteq Slot
      BY QueuedSlots DEF ListsInv
    <3> QED BY <2>1, <2>2, <3>1 DEF ListsInv, SchedListHoldsRunnable
  <2> QED BY <1>4, <2>3, <2>4 DEF ListsInv
<1> QED BY <1>5, <1>6, <1>7

LEMMA ReceiveLinks == ASSUME IndInv, ListsInv, RecvLinks PROVE ListsInv'
<1>1. SysIpcRecv /\ Dequeue(curenv) /\ free' = free
  BY DEF RecvLinks
<1>2. /\ curenv \in Slot /\ freeList' = freeList /\ envs'[curenv].status = ENV_NOT_RUNNABLE
      /\ \A s \in Slot : s /= curenv => envs'[s] = envs[s]
  BY <1>1, RecvTable
<1>3. envs'[curenv].status /= ENV_RUNNABLE
  BY <1>2 DEF ENV_NOT_RUNNABLE, ENV_RUNNABLE
<1>4. FreeSide'
  BY <1>1, <1>2, FreeSideStays DEF ListsInv
<1>5. SchedSide' /\ SchedListHoldsRunnable'
  BY <1>1, <1>2, <1>3, StatusFollowed DEF ListsInv
<1> QED BY <1>4, <1>5 DEF ListsInv

LEMMA DeliverLinks ==
    ASSUME IndInv, ListsInv, NEW id \in NamedId, NEW value \in Value, SendLinks(id, value)
    PROVE  ListsInv'
<1>1. PICK e : e = Envid2Env(id, FALSE)
  OBVIOUS
<1>2. SysIpcCanSend(id, value) /\ Enqueue(e) /\ free' = free
  BY <1>1 DEF SendLinks
<1>3. /\ e \in Slot /\ freeList' = freeList /\ envs'[e].status = ENV_RUNNABLE
      /\ \A s \in Slot : s /= e => envs'[s] = envs[s]
  <2>1. WroteTo(e)
    BY ONLY <1>1, <1>2, SendTable, IndInv, id \in NamedId, value \in Value
  <2> QED BY ONLY <2>1 DEF WroteTo
<1>4. FreeSide'
  BY <1>2, <1>3, FreeSideStays DEF ListsInv
<1>5. SchedSide' /\ SchedListHoldsRunnable'
  BY <1>2, <1>3, StatusFollowed DEF ListsInv
<1> QED BY <1>4, <1>5 DEF ListsInv

\* A switch of environment touches neither list.
LEMMA SwitchLinks ==
    ASSUME ListsInv, UNCHANGED <<envs, freeList, listVars>>
    PROVE  ListsInv'
<1>1. UNCHANGED <<envs, freeList, free, sched, queued, misused>>
  BY DEF listVars
<1>2. FreeSide' /\ SchedSide'
  BY <1>1, FreeSideStays, SchedSideStays DEF ListsInv
<1>3. SchedListHoldsRunnable'
  BY <1>1 DEF ListsInv, SchedListHoldsRunnable
<1> QED BY <1>2, <1>3 DEF ListsInv

\* Every step is one of Env, with what it does to the pointers added.
LEMMA LinksRefineEnv == [LinksNext]_<<vars, listVars>> => [Next]_vars
BY DEF LinksNext, Next, CreatePriority, ForkSlot, FreeSlot, SetStatusLinks, RecvLinks, SendLinks, vars

LEMMA LinksImplyEnv == LinksSpec => Spec
<1>1. LinksInit => Init
  BY DEF LinksInit
<1> QED BY <1>1, LinksRefineEnv, PTL DEF LinksSpec, Spec

\* The invariant of both lists, with that of the table.
THEOREM ListsInvariant == LinksSpec => []ListsInv
<1>1. IndInv /\ ListsInv /\ [LinksNext]_<<vars, listVars>> => ListsInv'
  <2> SUFFICES ASSUME IndInv, ListsInv, [LinksNext]_<<vars, listVars>> PROVE ListsInv'
    OBVIOUS
  <2>1. CASE CreatePriority
    BY <2>1, CreateLinks
  <2>2. CASE ((HandleIrq \/ SysYield) /\ UNCHANGED listVars) \/ UNCHANGED <<vars, listVars>>
    BY <2>2, SwitchLinks DEF HandleIrq, SysYield, vars
  <2>3. ASSUME NEW outcome, ForkSlot(outcome) PROVE ListsInv'
    BY <2>3, ForkLinks
  <2>4. ASSUME NEW id \in NamedId, FreeSlot(id) PROVE ListsInv'
    BY <2>4, FreeLinks
  <2>5. ASSUME NEW id \in NamedId, NEW status \in SetStatus, SetStatusLinks(id, status)
        PROVE  ListsInv'
    BY <2>5, StatusLinks
  <2>6. ASSUME NEW id \in NamedId, NEW value \in Value, SendLinks(id, value) PROVE ListsInv'
    BY <2>6, DeliverLinks
  <2>7. CASE RecvLinks
    BY <2>7, ReceiveLinks
  <2> QED BY <2>1, <2>2, <2>3, <2>4, <2>5, <2>6, <2>7 DEF LinksNext
<1> QED BY <1>1, ListsBuilt, LinksImplyEnv, Invariant, PTL DEF LinksSpec

\* The pointers of env_free_list are always those of a list that holds the free slots in
\* the order in which env_alloc takes them, whatever the programs call.
THEOREM FreeLinksAreSound == LinksSpec => []FreeLinksSound
<1>1. ListsInv => FreeLinksSound
  BY DEF ListsInv, FreeSide
<1> QED BY <1>1, ListsInvariant, PTL

\* Up to the first double removal or insertion, env_sched_list holds runnable environments
\* and every one that main created.
THEOREM SchedListIsRunnable == LinksSpec => []SchedListHoldsRunnable
<1>1. ListsInv => SchedListHoldsRunnable
  BY DEF ListsInv
<1> QED BY <1>1, ListsInvariant, PTL

\* A sequence without repetition is as long as its set of elements.
LEMMA LengthIsCardinality ==
    ASSUME NEW q \in Seq(Slot), Once(q)
    PROVE  Len(q) = Cardinality(Elements(q)) /\ q \in [1..Len(q) -> Elements(q)]
<1> DEFINE n == Len(q)
           S == Elements(q)
<1>1. n \in Nat /\ DOMAIN q = 1..n
  BY ListShape
<1>2. q \in [1..n -> S]
  <2>1. q \in [1..n -> Slot]
    OBVIOUS
  <2>2. \A i \in 1..n : q[i] \in S
    BY <1>1 DEF Elements
  <2> QED BY <2>1, <2>2
<1>3. /\ \A i, j \in 1..n : q[i] = q[j] => i = j
      /\ \A x \in S : \E i \in 1..n : q[i] = x
  BY <1>1 DEF Once, Elements
<1> HIDE DEF n, S
<1>4. q \in Injection(1..n, S) /\ q \in Surjection(1..n, S)
  BY <1>2, <1>3 DEF Injection, IsInjective, Surjection
<1>5. ExistsBijection(1..n, S)
  BY <1>4 DEF ExistsBijection, Bijection
<1>6. Cardinality(S) = n
  BY <1>1, <1>5, FS_CountingElements
<1> QED BY <1>2, <1>6 DEF n, S

\* Up to the first double removal or insertion, env_sched_list is a well-formed list of
\* exactly the slots put in it and not taken out since.
THEOREM SchedLinksAreSound == LinksSpec => []SchedLinksSound
<1>1. ListsInv => SchedLinksSound
  <2> SUFFICES ASSUME ListsInv, misused = None
               PROVE  \E q \in [1..Cardinality(queued) -> queued] :
                         {q[i] : i \in DOMAIN q} = queued /\ Holds(sched, q)
    BY DEF SchedLinksSound
  <2>1. PICK q \in Seq(Slot) : Once(q) /\ Elements(q) = queued /\ Holds(sched, q)
    BY DEF ListsInv, SchedSide
  <2>2. q \in [1..Cardinality(queued) -> queued]
    BY <2>1, LengthIsCardinality
  <2> QED BY <2>1, <2>2 DEF Elements
<1> QED BY <1>1, ListsInvariant, PTL

\* If programs only ever mark environments not runnable, the first misuse of the list is
\* by a forked environment, or by one that marked itself and went on running.
THEOREM MisuseIsByFork ==
    ASSUME SetStatus \subseteq {ENV_NOT_RUNNABLE} PROVE LinksSpec => MisuseStartsWithFork
<1> DEFINE Excused(e) == envs[e].parent /= 0 \/ (e = curenv /\ envs[e].status = ENV_NOT_RUNNABLE)
<1>1. ASSUME IndInv, ListsInv, NoSlotLost, [LinksNext]_<<vars, listVars>>, misused' /= misused
      PROVE  Excused(misused')
  <2>1. ASSUME NEW e, Enqueue(e) PROVE misused = None /\ misused' = e /\ e \in queued
    BY <1>1, <2>1 DEF Enqueue
  <2>2. ASSUME NEW e, Dequeue(e) PROVE misused = None /\ misused' = e /\ e \notin queued
    BY <1>1, <2>2 DEF Dequeue
  <2>3. ASSUME misused = None
        PROVE  /\ \A s \in queued : envs[s].status = ENV_RUNNABLE
               /\ \A s \in Slot : envs[s].status = ENV_RUNNABLE /\ envs[s].parent = 0 => s \in queued
    BY <1>1, <2>3 DEF ListsInv, SchedListHoldsRunnable
  <2>4. ASSUME NEW e \in Slot \ FreeSlots
        PROVE  envs[e].status = ENV_RUNNABLE \/ envs[e].status = ENV_NOT_RUNNABLE
    <3>1. envs[e] \in EnvRecord /\ envs[e].status /= ENV_FREE
      BY <1>1 DEF IndInv, EnvTypeOK, NoSlotLost
    <3>2. envs[e].status \in Status
      BY <3>1 DEF EnvRecord
    <3> QED BY <3>1, <3>2 DEF Status
  <2>5. CASE CreatePriority
    <3>1. PICK e : e = Head(freeList)
      OBVIOUS
    <3>2. e \in Slot /\ freeList /= <<>> /\ envs[e].status = ENV_FREE /\ freeList' = Tail(freeList)
      BY <1>1, <2>5, <3>1, CreateTable DEF CreatePriority
    <3>3. free.first = e
      BY <1>1, <2>5, <3>1, <3>2, FreeTaken DEF ListsInv, CreatePriority
    <3>4. Enqueue(e)
      BY <2>5, <3>3 DEF CreatePriority
    <3> QED BY <2>1, <2>3, <3>2, <3>4 DEF ENV_FREE, ENV_RUNNABLE
  <2>6. CASE \/ (HandleIrq \/ SysYield) /\ UNCHANGED listVars
             \/ \E outcome \in {"ok", "no_mem", "panic"} : ForkSlot(outcome)
             \/ UNCHANGED <<vars, listVars>>
    BY <1>1, <2>6 DEF ForkSlot, listVars
  <2>7. ASSUME NEW id \in NamedId, FreeSlot(id) PROVE Excused(misused')
    <3>1. PICK e : e = Envid2Env(id, TRUE)
      OBVIOUS
    <3>2. SysEnvDestroy(id) /\ Dequeue(e)
      BY <2>7, <3>1 DEF FreeSlot
    <3>3. e \in Slot \ FreeSlots /\ (e = curenv \/ envs[e].parent /= 0)
      BY <1>1, <3>1, <3>2, DestroyTable
    <3> QED BY <2>2, <2>3, <2>4, <3>2, <3>3
  <2>8. ASSUME NEW id \in NamedId, NEW status \in SetStatus, SetStatusLinks(id, status)
        PROVE  Excused(misused')
    <3>1. PICK e \in Slot \ FreeSlots : SetsStatus(e, id, status)
      BY <1>1, <2>8, SetStatusTable DEF SetStatusLinks
    <3>2. e = Envid2Env(id, FALSE) /\ status /= ENV_RUNNABLE /\ status = ENV_NOT_RUNNABLE
      BY <3>1 DEF SetsStatus, ENV_RUNNABLE, ENV_NOT_RUNNABLE
    <3>3. envs[e].status /= status
      <4>1. envs[e].status = status => UNCHANGED <<sched, queued, misused>>
        BY <2>8, <3>2 DEF SetStatusLinks
      <4> QED BY <1>1, <4>1
    <3>4. Dequeue(e)
      BY <2>8, <3>2, <3>3 DEF SetStatusLinks
    <3> QED BY <2>2, <2>3, <2>4, <3>1, <3>2, <3>3, <3>4
  <2>9. CASE RecvLinks
    <3>1. Dequeue(curenv) /\ curenv \in Slot \ FreeSlots
      BY <1>1, <2>9, RecvTable DEF RecvLinks
    <3> QED BY <2>2, <2>3, <2>4, <3>1
  <2>10. ASSUME NEW id \in NamedId, NEW value \in Value, SendLinks(id, value)
         PROVE  Excused(misused')
    <3>1. PICK e : e = Envid2Env(id, FALSE)
      OBVIOUS
    <3>2. Enqueue(e) /\ envs[e].status = ENV_NOT_RUNNABLE
      BY <1>1, <2>10, <3>1, SendTable DEF SendLinks, WroteTo
    <3> QED BY <2>1, <2>3, <3>2 DEF ENV_NOT_RUNNABLE, ENV_RUNNABLE
  <2> QED BY <1>1, <2>5, <2>6, <2>7, <2>8, <2>9, <2>10 DEF LinksNext
<1>2. IndInv /\ ListsInv /\ NoSlotLost /\ [LinksNext]_<<vars, listVars>> =>
        [misused' /= misused =>
            LET e == misused'
            IN  \/ envs[e].parent /= 0
                \/ e = curenv /\ envs[e].status = ENV_NOT_RUNNABLE]_<<vars, listVars>>
  BY <1>1
<1>3. ENV_FREE \notin SetStatus
  BY DEF ENV_FREE, ENV_NOT_RUNNABLE
<1>4. Spec => []NoSlotLost
  BY <1>3, SlotsAreKept
<1> QED BY <1>2, <1>4, ListsInvariant, LinksImplyEnv, Invariant, PTL DEF LinksSpec, MisuseStartsWithFork
=============================================================================
