----------------------------- MODULE ListFacts ------------------------------
(***************************************************************************)
(* A LIST of queue.h without repetition, as a sequence: what removing the  *)
(* head and inserting at the head do to the set of its elements.  And      *)
(* induction over the rounds of a loop.                                    *)
(***************************************************************************)
EXTENDS Integers, Sequences, WellFoundedInduction, TLAPS

\* A set of natural numbers that is not empty has a least element.
LEMMA LeastElement ==
    ASSUME NEW T \in SUBSET Nat, T /= {}
    PROVE  \E x \in T : \A y \in T : x <= y
<1>1. PICK x \in T : \A y \in T : <<y, x>> \notin OpToRel(<, Nat)
  BY NatLessThanWellFounded, WFMin, Zenon
<1>2. \A y \in T : <<y, x>> \in OpToRel(<, Nat) <=> y < x
  BY DEF OpToRel
<1>3. \A y \in T : ~(y < x)
  BY <1>1, <1>2, Zenon
<1> QED BY <1>3

\* Induction over the natural numbers, for a set of them.
LEMMA Induct ==
    ASSUME NEW S, 0 \in S, \A n \in Nat : n \in S => n + 1 \in S
    PROVE  Nat \subseteq S
<1> SUFFICES ASSUME Nat \ S /= {} PROVE FALSE
  OBVIOUS
<1>1. PICK x \in Nat \ S : \A y \in Nat \ S : x <= y
  BY LeastElement
<1>2. x - 1 \in Nat
  BY <1>1
<1>3. x - 1 \in S
  BY <1>1, <1>2
<1> QED BY <1>1, <1>2, <1>3

Elements(q) == {q[i] : i \in DOMAIN q}
Once(q) == \A i, j \in DOMAIN q : q[i] = q[j] => i = j

\* LIST_REMOVE of LIST_FIRST.
LEMMA TakeHead ==
    ASSUME NEW S, NEW q \in Seq(S), q /= <<>>, Once(q)
    PROVE  /\ Head(q) \in Elements(q) /\ Head(q) \in S
           /\ Tail(q) \in Seq(S) /\ Once(Tail(q))
           /\ Elements(Tail(q)) = Elements(q) \ {Head(q)}
<1>1. /\ Len(q) \in Nat /\ Len(q) >= 1 /\ DOMAIN q = 1..Len(q)
      /\ Head(q) = q[1] /\ Tail(q) \in Seq(S) /\ DOMAIN Tail(q) = 1..(Len(q) - 1)
      /\ \A i \in 1..(Len(q) - 1) : Tail(q)[i] = q[i + 1]
  OBVIOUS
<1>2. Head(q) \in Elements(q) /\ Head(q) \in S
  BY <1>1 DEF Elements
<1>3. Once(Tail(q))
  <2> SUFFICES ASSUME NEW i \in DOMAIN Tail(q), NEW j \in DOMAIN Tail(q), Tail(q)[i] = Tail(q)[j]
               PROVE  i = j
    BY DEF Once
  <2>1. i + 1 = j + 1
    BY <1>1 DEF Once
  <2> QED BY <1>1, <2>1
<1>4. Elements(Tail(q)) \subseteq Elements(q) \ {Head(q)}
  BY <1>1 DEF Elements, Once
<1>5. Elements(q) \ {Head(q)} \subseteq Elements(Tail(q))
  <2> SUFFICES ASSUME NEW i \in 1..Len(q), q[i] /= q[1]
               PROVE  q[i] \in Elements(Tail(q))
    BY <1>1 DEF Elements
  <2>1. i - 1 \in 1..(Len(q) - 1) /\ Tail(q)[i - 1] = q[i]
    BY <1>1
  <2> QED BY <1>1, <2>1 DEF Elements
<1> QED BY <1>1, <1>2, <1>3, <1>4, <1>5

\* LIST_INSERT_HEAD.
LEMMA PushHead ==
    ASSUME NEW S, NEW q \in Seq(S), Once(q), NEW e \in S, e \notin Elements(q)
    PROVE  /\ <<e>> \o q \in Seq(S) /\ Once(<<e>> \o q)
           /\ Elements(<<e>> \o q) = Elements(q) \union {e}
<1> DEFINE p == <<e>> \o q
<1>1. /\ Len(q) \in Nat /\ DOMAIN q = 1..Len(q)
      /\ p \in Seq(S) /\ DOMAIN p = 1..(Len(q) + 1)
      /\ p[1] = e /\ \A i \in 1..(Len(q) + 1) : i /= 1 => p[i] = q[i - 1]
  OBVIOUS
<1> HIDE DEF p
<1>2. ASSUME NEW i \in DOMAIN p PROVE p[i] = e \/ (i - 1 \in DOMAIN q /\ p[i] = q[i - 1])
  BY <1>1
<1>3. Once(p)
  <2> SUFFICES ASSUME NEW i \in DOMAIN p, NEW j \in DOMAIN p, p[i] = p[j] PROVE i = j
    BY DEF Once
  <2>1. CASE i = 1 \/ j = 1
    BY <1>1, <2>1 DEF Elements
  <2>2. CASE i /= 1 /\ j /= 1
    <3>1. i - 1 \in DOMAIN q /\ j - 1 \in DOMAIN q /\ q[i - 1] = q[j - 1]
      BY <1>1, <2>2
    <3> QED BY <1>1, <3>1 DEF Once
  <2> QED BY <2>1, <2>2
<1>4. Elements(p) \subseteq Elements(q) \union {e}
  BY <1>2 DEF Elements
<1>5. Elements(q) \union {e} \subseteq Elements(p)
  <2>1. e \in Elements(p)
    BY <1>1 DEF Elements
  <2>2. ASSUME NEW i \in DOMAIN q PROVE q[i] \in Elements(p)
    <3>1. i + 1 \in DOMAIN p /\ p[i + 1] = q[i]
      BY <1>1
    <3> QED BY <3>1 DEF Elements
  <2> QED BY <2>1, <2>2 DEF Elements
<1> QED BY <1>1, <1>3, <1>4, <1>5 DEF p

\* Several LIST_INSERT_HEAD: p goes before q.
LEMMA PushAll ==
    ASSUME NEW S, NEW p \in Seq(S), NEW q \in Seq(S), Once(p), Once(q),
           Elements(p) \cap Elements(q) = {}
    PROVE  Once(p \o q) /\ Elements(p \o q) = Elements(p) \union Elements(q)
<1> DEFINE r == p \o q
           n == Len(p)
<1>1. /\ n \in Nat /\ Len(q) \in Nat /\ DOMAIN p = 1..n /\ DOMAIN q = 1..Len(q)
      /\ DOMAIN r = 1..(n + Len(q))
      /\ \A i \in 1..n : r[i] = p[i]
      /\ \A i \in 1..(n + Len(q)) : i > n => r[i] = q[i - n]
  OBVIOUS
<1> HIDE DEF r, n
<1>2. \A i \in DOMAIN r : i <= n => i \in DOMAIN p /\ r[i] = p[i] /\ r[i] \in Elements(p)
  BY <1>1 DEF Elements
<1>3. \A i \in DOMAIN r : i > n => i - n \in DOMAIN q /\ r[i] = q[i - n] /\ r[i] \in Elements(q)
  BY <1>1 DEF Elements
<1>4. Once(r)
  <2> SUFFICES ASSUME NEW i \in DOMAIN r, NEW j \in DOMAIN r, r[i] = r[j] PROVE i = j
    BY DEF Once
  <2>1. CASE i <= n /\ j <= n
    BY <1>2, <2>1 DEF Once
  <2>2. CASE i > n /\ j > n
    <3>1. i - n = j - n
      BY <1>3, <2>2 DEF Once
    <3> QED BY <1>1, <3>1
  <2>3. CASE (i <= n /\ j > n) \/ (i > n /\ j <= n)
    <3>1. r[i] \in Elements(p) \cap Elements(q)
      BY <1>2, <1>3, <2>3
    <3> QED BY <3>1
  <2> QED BY <1>1, <2>1, <2>2, <2>3
<1>5. Elements(r) \subseteq Elements(p) \union Elements(q)
  <2> SUFFICES ASSUME NEW i \in DOMAIN r PROVE r[i] \in Elements(p) \union Elements(q)
    BY DEF Elements
  <2> QED BY <1>1, <1>2, <1>3
<1>6. Elements(p) \subseteq Elements(r)
  <2> SUFFICES ASSUME NEW i \in DOMAIN p PROVE p[i] \in Elements(r)
    BY DEF Elements
  <2>1. i \in DOMAIN r /\ r[i] = p[i]
    BY <1>1
  <2> QED BY <2>1 DEF Elements
<1>7. Elements(q) \subseteq Elements(r)
  <2> SUFFICES ASSUME NEW i \in DOMAIN q PROVE q[i] \in Elements(r)
    BY DEF Elements
  <2>1. i + n \in DOMAIN r /\ r[i + n] = q[i]
    BY <1>1
  <2> QED BY <2>1 DEF Elements
<1> QED BY <1>4, <1>5, <1>6, <1>7 DEF r
=============================================================================
