---------------------------- MODULE MemoryProofs ----------------------------
(***************************************************************************)
(* Theorems about Memory, for any number of frames, environments and       *)
(* pages, any table size and any width of pp_ref.                          *)
(*                                                                         *)
(* An operator of PMap is taken apart once (what it does to the fields of  *)
(* the record), page_insert into the steps of Inserted; each property is   *)
(* shown for the steps, then for the calls, then for the system.           *)
(*                                                                         *)
(* The invariant Good relates the free list, the counts and the entries.   *)
(* No part of what Memory checks is inductive alone: that page_alloc hands *)
(* out an unused frame needs counts that cover the pointers, and these     *)
(* survive page_decref and env_free because tables are exclusive and       *)
(* because the frames programs map are neither tables nor free (InUse).    *)
(***************************************************************************)
EXTENDS Memory, ListFacts, FiniteSetTheorems, TLAPS

-----------------------------------------------------------------------------
(* Arithmetic.                                                             *)

\* The constants as numbers.
LEMMA Sizes ==
    /\ NPAGE \in Nat /\ FirstFree \in Nat /\ 1 <= FirstFree /\ FirstFree <= NPAGE
    /\ FirstDevice \in Nat /\ FirstFree <= FirstDevice /\ FirstDevice <= NPAGE
    /\ PTES \in Nat /\ PTES > 0 /\ PMDS \in Nat /\ PMDS > 0
    /\ RefMod \in Nat /\ RefMod > 3
    /\ Frame = {f \in Nat : f < NPAGE} /\ Frame \subseteq Nat
    /\ UserVPN \subseteq Nat /\ VPN \subseteq Nat
BY SizeAssumption DEF Frame, VPN

\* Division with remainder.
LEMMA Division ==
    ASSUME NEW v \in Nat, NEW d \in Nat, d > 0
    PROVE  /\ v \div d \in Nat /\ v % d \in Nat
           /\ v = d * (v \div d) + (v % d) /\ v % d < d
OBVIOUS

\* The quotient is determined by its bounds.
LEMMA Quotient ==
    ASSUME NEW p \in Nat, NEW q \in Nat, NEW d \in Nat,
           NEW r \in Nat, NEW s \in Nat,
           r < d, s < d, d * p + r = d * q + s
    PROVE  p = q
<1>1. ASSUME NEW x \in Nat, NEW y \in Nat, x < y, NEW a \in Nat, NEW b \in Nat, a < d,
             d * x + a = d * y + b
      PROVE  FALSE
  <2>1. y - x - 1 \in Nat /\ d * (y - x - 1) \in Nat
    BY <1>1
  <2>2. d * y = d * x + d + d * (y - x - 1)
    BY <1>1, <2>1
  <2>3. d * x \in Nat /\ d * y \in Nat
    BY <1>1
  <2> HIDE <1>1
  <2> QED BY <1>1, <2>1, <2>2, <2>3
<1> QED BY <1>1

\* PUDX(va) is PMDX counted in middle directories.
LEMMA PudOfPmd ==
    ASSUME NEW v \in Nat
    PROVE  /\ PudOf(v) \in Nat /\ PmdOf(v) \in Nat
           /\ PudOf(v) = PmdOf(v) \div PMDS
<1> DEFINE q == v \div PTES
           r == v % PTES
           p == q \div PMDS
           s == q % PMDS
           d == PTES * PMDS
<1>1. q \in Nat /\ r \in Nat /\ v = PTES * q + r /\ r < PTES
  BY Division, Sizes
<1>2. p \in Nat /\ s \in Nat /\ q = PMDS * p + s /\ s < PMDS
  <2> HIDE DEF q
  <2> QED BY Division, Sizes, <1>1
<1>3. d \in Nat /\ d > 0
  BY Sizes
<1>4. v \div d \in Nat /\ v % d \in Nat /\ v = d * (v \div d) + (v % d) /\ v % d < d
  <2> HIDE DEF d
  <2> QED BY Division, <1>3
<1>5. PTES * s + r \in Nat /\ PTES * s + r < d
  <2> HIDE DEF q, r, p, s
  <2>1. PMDS - s - 1 \in Nat
    BY <1>2, Sizes
  <2>2. PTES * s \in Nat /\ PTES * (PMDS - s - 1) \in Nat
    BY <1>2, <2>1, Sizes
  <2>3. d = PTES * s + PTES + PTES * (PMDS - s - 1)
    BY <1>2, <2>1, Sizes
  <2> HIDE DEF d
  <2> QED BY <1>1, <1>2, <1>3, <2>2, <2>3, Sizes
<1>6. v = d * p + (PTES * s + r)
  <2> HIDE DEF q, r, p, s
  <2>1. PTES * q = PTES * (PMDS * p) + PTES * s
    BY <1>1, <1>2, Sizes
  <2>2. PTES * (PMDS * p) = d * p
    BY <1>1, <1>2, Sizes
  <2>3. PTES * (PMDS * p) \in Nat /\ PTES * s \in Nat /\ PTES * q \in Nat
    BY <1>1, <1>2, Sizes
  <2> QED BY <1>1, <2>1, <2>2, <2>3
<1>7. v \div d = p
  <2> HIDE DEF q, r, p, s, d
  <2>1. PICK y, z : y = v \div d /\ z = v % d
    OBVIOUS
  <2>2. PICK x : x = PTES * s + r
    OBVIOUS
  <2>3. /\ y \in Nat /\ z \in Nat /\ z < d /\ x \in Nat /\ x < d /\ p \in Nat /\ d \in Nat
        /\ d * y + z = d * p + x
    BY ONLY <1>2, <1>3, <1>4, <1>5, <1>6, <2>1, <2>2
  <2>4. y = p
    BY ONLY <2>3, Quotient
  <2> QED BY ONLY <2>1, <2>4
<1> QED BY <1>1, <1>2, <1>4, <1>7 DEF PudOf, PmdOf

-----------------------------------------------------------------------------
(* Table entries.                                                          *)

\* Entries of one level are never entries of another.
LEMMA Levels ==
    /\ \A l \in DirLocs : l[1] = "dir"
    /\ \A l \in PudLocs : l[1] = "pud"
    /\ \A l \in PmdLocs : l[1] = "pmd"
    /\ \A l \in PteLocs : l[1] = "pte"
    /\ \A l \in IdLocs : l[1] = "pte"
    /\ \A l \in BootTables : l[1] \in {"pud", "pmd"} /\ l[2] = Kernel
BY DEF DirLocs, PudLocs, PmdLocs, PteLocs, IdLocs, BootTables,
       DirLoc, PudLoc, PmdLoc, PteLoc, IdLoc

\* Where the entries that a walk reads lie among the counted ones.
LEMMA EntriesInLoc ==
    /\ TableLocs \subseteq CountedLoc /\ CountedLoc \subseteq Loc
    /\ \A a \in Envs : DirLoc(a) \in TableLocs /\ DirLoc(a) \notin BootTables
    /\ \A a \in Envs, v \in UserVPN : PudLoc(a, v) \in TableLocs /\ PmdLoc(a, v) \in TableLocs
    /\ \A a \in Envs, v \in UserVPN :
        /\ PteLoc(a, v) \in Loc /\ PteLoc(a, v) \notin BootTables
        /\ PteLoc(a, v) \notin TableLocs
<1>1. TableLocs \subseteq CountedLoc /\ CountedLoc \subseteq Loc
  BY Levels DEF TableLocs, CountedLoc, Loc
<1>2. \A a \in Envs : DirLoc(a) \in DirLocs
  BY DEF DirLocs
<1>3. \A a \in Envs, v \in UserVPN :
        PudLoc(a, v) \in PudLocs /\ PmdLoc(a, v) \in PmdLocs /\ PteLoc(a, v) \in PteLocs
  BY DEF PudLocs, PmdLocs, PteLocs, VPN
<1> QED BY <1>1, <1>2, <1>3, Levels DEF TableLocs, Loc

\* Environments share exactly the entries below the directory entries of _pg_dir.
LEMMA SpaceIsShared ==
    ASSUME NEW a \in Envs, NEW v
    PROVE  /\ Space(a, v) \in {a, Kernel}
           /\ Space(a, v) = Kernel <=> PudOf(v) \in SharedPuds
BY EnvsAssumption DEF Space

\* When two walks meet: in an entry of one level, and then in all levels above it.
LEMMA SameEntry ==
    ASSUME NEW a \in Envs, NEW b \in Envs, NEW v \in UserVPN, NEW w \in UserVPN
    PROVE  /\ DirLoc(a) = DirLoc(b) <=> a = b
           /\ PudLoc(a, v) = PudLoc(b, w) <=>
                Space(a, v) = Space(b, w) /\ PudOf(v) = PudOf(w)
           /\ PmdLoc(a, v) = PmdLoc(b, w) <=>
                Space(a, v) = Space(b, w) /\ PmdOf(v) = PmdOf(w)
           /\ PteLoc(a, v) = PteLoc(b, w) <=>
                Space(a, v) = Space(b, w) /\ v = w
           /\ PmdLoc(a, v) = PmdLoc(b, w) => PudLoc(a, v) = PudLoc(b, w)
           /\ PteLoc(a, v) = PteLoc(b, w) => PmdLoc(a, v) = PmdLoc(b, w)
<1>1. PmdOf(v) = PmdOf(w) => PudOf(v) = PudOf(w)
  BY PudOfPmd, Sizes
<1> QED BY <1>1 DEF DirLoc, PudLoc, PmdLoc, PteLoc

\* A walk reads three different entries, none of them a directory.
LEMMA DistinctEntries ==
    ASSUME NEW a \in Envs, NEW b \in Envs, NEW v \in UserVPN, NEW w \in UserVPN
    PROVE  /\ DirLoc(a) /= PudLoc(b, w) /\ DirLoc(a) /= PmdLoc(b, w) /\ DirLoc(a) /= PteLoc(b, w)
           /\ PudLoc(a, v) /= PmdLoc(b, w) /\ PudLoc(a, v) /= PteLoc(b, w)
           /\ PmdLoc(a, v) /= PteLoc(b, w)
BY DEF DirLoc, PudLoc, PmdLoc, PteLoc

\* The identity map has an entry of its own for each frame, which nobody counts.
LEMMA IdEntries ==
    /\ \A f \in Frame : IdLoc(f) \in Loc /\ IdLoc(f) \notin CountedLoc /\ IdLoc(f) \notin BootTables
    /\ \A f, g \in Frame : IdLoc(f) = IdLoc(g) => f = g
<1>1. \A f \in Frame : IdLoc(f) \in IdLocs
  BY DEF IdLocs
<1>2. \A f, g \in Frame : IdLoc(f) = IdLoc(g) => f = g
  BY DEF IdLoc
<1>3. ASSUME NEW f \in Frame PROVE IdLoc(f) \in PteLocs
  <2> DEFINE d == PTES * PMDS
  <2>1. d \in Nat /\ f \in Nat /\ f < d /\ d > 0
    BY SizeAssumption, Sizes
  <2>2. f \div d \in Nat /\ f % d \in Nat /\ f = d * (f \div d) + (f % d) /\ f % d < d
    <3> HIDE DEF d
    <3> QED BY <2>1, Division
  <2>3. d * 0 + f = d * (f \div d) + (f % d)
    BY <2>1, <2>2
  <2>4. f \div d = 0
    <3> HIDE DEF d
    <3> QED BY <2>1, <2>2, <2>3, Quotient
  <2>5. PudOf(f) = 0
    BY <2>4 DEF PudOf
  <2>6. \A a \in Envs : IdLoc(f) = PteLoc(a, f)
    BY <2>5 DEF PteLoc, IdLoc, Space, SharedPuds
  <2>7. f \in VPN
    BY DEF VPN
  <2> QED BY <2>6, <2>7, EnvsAssumption DEF PteLocs
<1> QED BY <1>1, <1>2, <1>3, Levels DEF CountedLoc, Loc

\* The pages programs name lie above the identity map of RAM and devices: the kernel
\* does not refuse lower ones, but a program that names them changes that map.
PagesAboveRAM == UserVPN \cap Frame = {}

\* A page above RAM is no page of the identity map.
LEMMA UserEntryCounted ==
    ASSUME PagesAboveRAM, NEW a \in Envs, NEW v \in UserVPN
    PROVE  PteLoc(a, v) \in CountedLoc
<1>1. PteLoc(a, v) \notin IdLocs
  BY DEF PteLoc, IdLocs, IdLoc, PagesAboveRAM
<1> QED BY <1>1, EntriesInLoc DEF CountedLoc

\* A finite number of entries, so that pointers to a frame can be counted.
LEMMA LocFinite == IsFiniteSet(Loc)
<1>1. IsFiniteSet(VPN)
  <2>1. IsFiniteSet(Frame)
    BY FS_Interval, Sizes DEF Frame
  <2> QED BY <2>1, FS_Union, SizeAssumption DEF VPN
<1>2. IsFiniteSet(Envs \X VPN)
  BY <1>1, FS_Product, EnvsAssumption
<1>3. IsFiniteSet(DirLocs)
  <2> DEFINE g == [a \in Envs |-> DirLoc(a)]
  <2>1. g \in Surjection(Envs, DirLocs)
    BY DEF Surjection, DirLocs
  <2> HIDE DEF g
  <2> QED BY <2>1, FS_Surjection, EnvsAssumption
<1>4. IsFiniteSet(PudLocs)
  <2> DEFINE g == [p \in Envs \X VPN |-> PudLoc(p[1], p[2])]
  <2>1. ASSUME NEW l \in PudLocs PROVE \E p \in Envs \X VPN : g[p] = l
    <3>1. PICK a \in Envs, v \in VPN : l = PudLoc(a, v)
      BY DEF PudLocs
    <3>2. <<a, v>> \in Envs \X VPN /\ g[<<a, v>>] = l
      BY <3>1
    <3> QED BY <3>2
  <2>2. g \in [Envs \X VPN -> PudLocs]
    BY DEF PudLocs
  <2>3. g \in Surjection(Envs \X VPN, PudLocs)
    BY <2>1, <2>2 DEF Surjection
  <2> HIDE DEF g
  <2> QED BY <2>3, <1>2, FS_Surjection
<1>5. IsFiniteSet(PmdLocs)
  <2> DEFINE g == [p \in Envs \X VPN |-> PmdLoc(p[1], p[2])]
  <2>1. ASSUME NEW l \in PmdLocs PROVE \E p \in Envs \X VPN : g[p] = l
    <3>1. PICK a \in Envs, v \in VPN : l = PmdLoc(a, v)
      BY DEF PmdLocs
    <3>2. <<a, v>> \in Envs \X VPN /\ g[<<a, v>>] = l
      BY <3>1
    <3> QED BY <3>2
  <2>2. g \in [Envs \X VPN -> PmdLocs]
    BY DEF PmdLocs
  <2>3. g \in Surjection(Envs \X VPN, PmdLocs)
    BY <2>1, <2>2 DEF Surjection
  <2> HIDE DEF g
  <2> QED BY <2>3, <1>2, FS_Surjection
<1>6. IsFiniteSet(PteLocs)
  <2> DEFINE g == [p \in Envs \X VPN |-> PteLoc(p[1], p[2])]
  <2>1. ASSUME NEW l \in PteLocs PROVE \E p \in Envs \X VPN : g[p] = l
    <3>1. PICK a \in Envs, v \in VPN : l = PteLoc(a, v)
      BY DEF PteLocs
    <3>2. <<a, v>> \in Envs \X VPN /\ g[<<a, v>>] = l
      BY <3>1
    <3> QED BY <3>2
  <2>2. g \in [Envs \X VPN -> PteLocs]
    BY DEF PteLocs
  <2>3. g \in Surjection(Envs \X VPN, PteLocs)
    BY <2>1, <2>2 DEF Surjection
  <2> HIDE DEF g
  <2> QED BY <2>3, <1>2, FS_Surjection
<1> QED BY <1>3, <1>4, <1>5, <1>6, FS_Union DEF Loc

-----------------------------------------------------------------------------
(* The type of mem, and what the elementary operations do to its fields.   *)

MemRec == [free : Seq(Frame), ref : [Frame -> 0..(RefMod - 1)],
           word : [Loc -> Frame \union {Nil, Boot}], panic : BOOLEAN, wrapped : BOOLEAN]

Typed(m) == m \in MemRec /\ \A l \in Loc : m.word[l] = Boot <=> l \in BootTables

\* The fields of a typed record.
LEMMA Fields ==
    ASSUME NEW m, Typed(m)
    PROVE  /\ m.free \in Seq(Frame) /\ m.ref \in [Frame -> 0..(RefMod - 1)]
           /\ m.word \in [Loc -> Frame \union {Nil, Boot}]
           /\ m.panic \in BOOLEAN /\ m.wrapped \in BOOLEAN
           /\ \A f \in Frame : m.ref[f] \in Nat /\ m.ref[f] < RefMod
           /\ \A l \in Loc : m.word[l] = Boot <=> l \in BootTables
BY Sizes DEF Typed, MemRec

\* One more reference, one less.
LEMMA Counting ==
    ASSUME NEW r \in Nat, r < RefMod
    PROVE  /\ (r + 1) % RefMod \in 0..(RefMod - 1)
           /\ (r + 1) % RefMod = IF r = RefMod - 1 THEN 0 ELSE r + 1
           /\ (r + RefMod - 1) % RefMod \in 0..(RefMod - 1)
           /\ (r + RefMod - 1) % RefMod = IF r = 0 THEN RefMod - 1 ELSE r - 1
BY Sizes

\* An entry is written and its target counted.
LEMMA LinkEffect ==
    ASSUME NEW m, Typed(m), NEW l \in Loc, l \notin BootTables, NEW f \in Frame
    PROVE  /\ Typed(Link(m, l, f))
           /\ Link(m, l, f).free = m.free
           /\ Link(m, l, f).ref = [m.ref EXCEPT ![f] = IF @ = RefMod - 1 THEN 0 ELSE @ + 1]
           /\ Link(m, l, f).word = [m.word EXCEPT ![l] = f]
           /\ Link(m, l, f).panic = m.panic
           /\ Link(m, l, f).wrapped = (m.wrapped \/ m.ref[f] = RefMod - 1)
<1> DEFINE n == Link(m, l, f)
           c == IF m.ref[f] = RefMod - 1 THEN 0 ELSE m.ref[f] + 1
<1>1. m.ref[f] \in Nat /\ m.ref[f] < RefMod
  BY Fields
<1>2. (m.ref[f] + 1) % RefMod = c /\ c \in 0..(RefMod - 1)
  BY <1>1, Counting, Sizes
<1>3. /\ n.free = m.free /\ n.ref = [m.ref EXCEPT ![f] = (m.ref[f] + 1) % RefMod]
      /\ n.word = [m.word EXCEPT ![l] = f] /\ n.panic = m.panic
      /\ n.wrapped = (m.wrapped \/ m.ref[f] = RefMod - 1)
  BY DEF Link, CountUp, Typed, MemRec
<1>4. n \in MemRec
  <2>1. [m.ref EXCEPT ![f] = c] \in [Frame -> 0..(RefMod - 1)]
    BY <1>2, Fields
  <2>2. [m.word EXCEPT ![l] = f] \in [Loc -> Frame \union {Nil, Boot}]
    BY Fields
  <2>3. (m.wrapped \/ m.ref[f] = RefMod - 1) \in BOOLEAN
    OBVIOUS
  <2> QED BY <1>2, <1>3, <2>1, <2>2, <2>3 DEF Link, CountUp, Typed, MemRec
<1>5. \A k \in Loc : n.word[k] = Boot <=> k \in BootTables
  BY <1>3, Fields, NilAssumption
<1> QED BY <1>2, <1>3, <1>4, <1>5 DEF Typed

\* pp_ref++ alone.
LEMMA CountUpEffect ==
    ASSUME NEW m, Typed(m), NEW f \in Frame
    PROVE  /\ Typed(CountUp(m, f))
           /\ CountUp(m, f).free = m.free /\ CountUp(m, f).word = m.word
           /\ CountUp(m, f).ref = [m.ref EXCEPT ![f] = IF @ = RefMod - 1 THEN 0 ELSE @ + 1]
           /\ CountUp(m, f).panic = m.panic
           /\ CountUp(m, f).wrapped = (m.wrapped \/ m.ref[f] = RefMod - 1)
<1> DEFINE n == CountUp(m, f)
           c == IF m.ref[f] = RefMod - 1 THEN 0 ELSE m.ref[f] + 1
<1>1. m.ref[f] \in Nat /\ m.ref[f] < RefMod
  BY Fields
<1>2. (m.ref[f] + 1) % RefMod = c /\ c \in 0..(RefMod - 1)
  BY <1>1, Counting, Sizes
<1>3. /\ n.free = m.free /\ n.ref = [m.ref EXCEPT ![f] = (m.ref[f] + 1) % RefMod]
      /\ n.word = m.word /\ n.panic = m.panic
      /\ n.wrapped = (m.wrapped \/ m.ref[f] = RefMod - 1)
  BY DEF CountUp, Typed, MemRec
<1>4. n \in MemRec
  <2>1. [m.ref EXCEPT ![f] = c] \in [Frame -> 0..(RefMod - 1)]
    BY <1>2, Fields
  <2>2. (m.wrapped \/ m.ref[f] = RefMod - 1) \in BOOLEAN
    OBVIOUS
  <2> QED BY <1>2, <1>3, <2>1, <2>2 DEF CountUp, Typed, MemRec
<1> QED BY <1>2, <1>3, <1>4 DEF Typed

\* page_alloc.
LEMMA AllocEffect ==
    ASSUME NEW m, Typed(m)
    PROVE  /\ m.free = <<>> => PageAlloc(m) = [mem |-> m, page |-> Nil]
           /\ m.free /= <<>> =>
                /\ PageAlloc(m).page = Head(m.free) /\ PageAlloc(m).page \in Frame
                /\ PageAlloc(m).mem.free = Tail(m.free)
           /\ Typed(PageAlloc(m).mem)
           /\ PageAlloc(m).mem.ref = m.ref /\ PageAlloc(m).mem.word = m.word
           /\ PageAlloc(m).mem.wrapped = m.wrapped
           /\ PageAlloc(m).page = Nil <=> m.free = <<>>
<1>1. CASE m.free = <<>>
  BY <1>1 DEF PageAlloc
<1>2. CASE m.free /= <<>>
  <2> DEFINE n == [m EXCEPT !.free = Tail(@), !.panic = @ \/ ~Reachable(m, Head(m.free))]
  <2>1. PageAlloc(m) = [mem |-> n, page |-> Head(m.free)]
    BY <1>2 DEF PageAlloc
  <2>2. Head(m.free) \in Frame /\ Tail(m.free) \in Seq(Frame)
    BY <1>2, Fields
  <2>3. /\ n.free = Tail(m.free) /\ n.ref = m.ref /\ n.word = m.word /\ n.wrapped = m.wrapped
    BY DEF Typed, MemRec
  <2>4. (m.panic \/ ~Reachable(m, Head(m.free))) \in BOOLEAN
    OBVIOUS
  <2>5. n \in MemRec
    BY <2>2, <2>4 DEF Typed, MemRec
  <2>6. Typed(n)
    BY <2>3, <2>5 DEF Typed
  <2> HIDE DEF n
  <2>7. PageAlloc(m).page = Head(m.free) /\ PageAlloc(m).mem = n
    BY <2>1
  <2> QED BY <1>2, <2>2, <2>3, <2>6, <2>7, NilAssumption
<1> QED BY <1>1, <1>2

\* page_lookup finds a frame or nothing, and what it finds is in the last entry.
LEMMA LookupEntry ==
    ASSUME NEW m, Typed(m), NEW a \in Envs, NEW v \in UserVPN
    PROVE  /\ PageLookup(m, a, v) \in Frame \union {Nil}
           /\ PageLookup(m, a, v) /= Nil =>
                /\ PageLookup(m, a, v) = m.word[PteLoc(a, v)]
                /\ m.word[PudLoc(a, v)] /= Nil /\ m.word[PmdLoc(a, v)] /= Nil
           /\ m.word[PteLoc(a, v)] \in Frame \union {Nil}
BY EntriesInLoc, Fields DEF PageLookup

\* page_remove of a page that is mapped.
LEMMA RemoveEffect ==
    ASSUME NEW m, Typed(m), NEW a \in Envs, NEW v \in UserVPN, PageLookup(m, a, v) /= Nil
    PROVE  LET n == PageRemove(m, a, v)
               f == m.word[PteLoc(a, v)]
           IN  /\ Typed(n) /\ f \in Frame /\ PageLookup(m, a, v) = f
               /\ n.free = IF m.ref[f] = 1 THEN <<f>> \o m.free ELSE m.free
               /\ n.ref = [m.ref EXCEPT ![f] = IF @ = 0 THEN RefMod - 1 ELSE @ - 1]
               /\ n.word = [m.word EXCEPT ![PteLoc(a, v)] = Nil]
               /\ n.panic = m.panic /\ n.wrapped = m.wrapped
<1> DEFINE n == PageRemove(m, a, v)
           f == m.word[PteLoc(a, v)]
           l == PteLoc(a, v)
           c == IF m.ref[f] = 0 THEN RefMod - 1 ELSE m.ref[f] - 1
           q == IF m.ref[f] = 1 THEN <<f>> \o m.free ELSE m.free
<1>1. f \in Frame /\ PageLookup(m, a, v) = f /\ l \in Loc /\ l \notin BootTables
  BY LookupEntry, EntriesInLoc
<1>2. n = [PageDecref(m, f) EXCEPT !.word[l] = Nil]
  BY <1>1 DEF PageRemove
<1> HIDE DEF f, l
<1>3. Less(m, f) = c /\ c \in 0..(RefMod - 1) /\ (c = 0 <=> m.ref[f] = 1)
  <2>1. m.ref[f] \in Nat /\ m.ref[f] < RefMod
    BY <1>1, Fields
  <2>2. (m.ref[f] + RefMod - 1) % RefMod = c
    BY <2>1, Counting
  <2>3. c \in 0..(RefMod - 1) /\ (c = 0 <=> m.ref[f] = 1)
    BY <2>1, Sizes
  <2> QED BY <2>2, <2>3 DEF Less
<1>4. /\ n.free = IF Less(m, f) = 0 THEN <<f>> \o m.free ELSE m.free
      /\ n.ref = [m.ref EXCEPT ![f] = Less(m, f)]
      /\ n.word = [m.word EXCEPT ![l] = Nil] /\ n.panic = m.panic /\ n.wrapped = m.wrapped
  BY <1>2 DEF PageDecref, Typed, MemRec
<1>5. n.free = q /\ n.ref = [m.ref EXCEPT ![f] = c]
  BY <1>3, <1>4
<1>6. n \in MemRec
  <2>1. [m.ref EXCEPT ![f] = c] \in [Frame -> 0..(RefMod - 1)]
    BY <1>3, Fields
  <2>2. [m.word EXCEPT ![l] = Nil] \in [Loc -> Frame \union {Nil, Boot}]
    BY Fields
  <2>3. q \in Seq(Frame)
    BY <1>1, Fields
  <2>4. /\ DOMAIN n = DOMAIN m
        /\ n = [x \in DOMAIN m |-> n[x]]
    BY <1>2 DEF PageDecref, Typed, MemRec
  <2> HIDE DEF c, q
  <2> QED BY <1>4, <1>5, <2>1, <2>2, <2>3, <2>4, Fields DEF Typed, MemRec
<1>7. \A k \in Loc : n.word[k] = Boot <=> k \in BootTables
  BY <1>1, <1>4, Fields, NilAssumption
<1> QED BY <1>1, <1>4, <1>5, <1>6, <1>7 DEF Typed, l, f

\* n is m after one level of pgdir_walk has put a new table at l.
Grown(m, n, l) ==
    /\ m.word[l] = Nil /\ m.free /= <<>>
    /\ Typed(n)
    /\ n.free = Tail(m.free)
    /\ n.ref = [m.ref EXCEPT ![Head(m.free)] = IF @ = RefMod - 1 THEN 0 ELSE @ + 1]
    /\ n.word = [m.word EXCEPT ![l] = Head(m.free)]
    /\ n.wrapped = (m.wrapped \/ m.ref[Head(m.free)] = RefMod - 1)

\* One level of pgdir_walk with create set.
LEMMA GrowEffect ==
    ASSUME NEW m, Typed(m), NEW l \in Loc
    PROVE  LET r == GrowTable(m, l)
           IN  /\ r.mem = m \/ Grown(m, r.mem, l)
               /\ r.ok => r.mem.word[l] /= Nil
               /\ ~r.ok => r.mem = m /\ m.word[l] = Nil
               /\ Typed(r.mem) /\ r.ok \in BOOLEAN
<1> DEFINE r == GrowTable(m, l)
           p == PageAlloc(m)
<1>1. CASE m.word[l] /= Nil
  <2>1. r = [mem |-> m, ok |-> TRUE]
    BY <1>1 DEF GrowTable
  <2> QED BY <1>1, <2>1
<1>2. CASE m.word[l] = Nil /\ p.page = Nil
  <2>1. r = [mem |-> m, ok |-> FALSE]
    BY <1>2 DEF GrowTable
  <2> QED BY <1>2, <2>1
<1>3. CASE m.word[l] = Nil /\ p.page /= Nil
  <2>1. r = [mem |-> Link(p.mem, l, p.page), ok |-> TRUE]
    BY <1>3 DEF GrowTable
  <2>2. m.free /= <<>> /\ p.page = Head(m.free) /\ p.page \in Frame
    BY <1>3, AllocEffect
  <2>3. l \notin BootTables
    BY <1>3, Fields, NilAssumption
  <2>4. PICK k, f : k = p.mem /\ f = p.page
    OBVIOUS
  <2>5. Typed(k) /\ k.free = Tail(m.free)
        /\ k.ref = m.ref /\ k.word = m.word /\ k.wrapped = m.wrapped
    BY <2>2, <2>4, AllocEffect
  <2>6. f = Head(m.free) /\ f \in Frame /\ f /= Nil
    BY <2>2, <2>4, NilAssumption
  <2>7. r.mem = Link(k, l, f) /\ r.ok = TRUE
    BY <2>1, <2>4
  <2> HIDE DEF p, r
  <2>8. PICK n : n = Link(k, l, f)
    OBVIOUS
  <2>9. /\ Typed(n) /\ n.free = k.free
        /\ n.ref = [k.ref EXCEPT ![f] = IF @ = RefMod - 1 THEN 0 ELSE @ + 1]
        /\ n.word = [k.word EXCEPT ![l] = f]
        /\ n.wrapped = (k.wrapped \/ k.ref[f] = RefMod - 1)
    <3>1. /\ Typed(Link(k, l, f)) /\ Link(k, l, f).free = k.free
          /\ Link(k, l, f).ref = [k.ref EXCEPT ![f] = IF @ = RefMod - 1 THEN 0 ELSE @ + 1]
          /\ Link(k, l, f).word = [k.word EXCEPT ![l] = f]
          /\ Link(k, l, f).wrapped = (k.wrapped \/ k.ref[f] = RefMod - 1)
      BY ONLY <2>3, <2>5, <2>6, LinkEffect, l \in Loc
    <3> QED BY ONLY <2>8, <3>1
  <2>10. n.word[l] /= Nil
    BY <2>5, <2>6, <2>9, Fields
  <2>11. Grown(m, n, l)
    BY <1>3, <2>2, <2>5, <2>6, <2>9 DEF Grown
  <2> QED BY <2>7, <2>8, <2>9, <2>10, <2>11 DEF r
<1> QED BY <1>1, <1>2, <1>3

\* n is m after page_remove of a mapping of v in the space of a.
Cleared(m, n, a, v) ==
    LET f == m.word[PteLoc(a, v)]
    IN  /\ m.word[PudLoc(a, v)] /= Nil /\ m.word[PmdLoc(a, v)] /= Nil
        /\ f \in Frame /\ PageLookup(m, a, v) = f
        /\ Typed(n)
        /\ n.free = IF m.ref[f] = 1 THEN <<f>> \o m.free ELSE m.free
        /\ n.ref = [m.ref EXCEPT ![f] = IF @ = 0 THEN RefMod - 1 ELSE @ - 1]
        /\ n.word = [m.word EXCEPT ![PteLoc(a, v)] = Nil]
        /\ n.wrapped = m.wrapped

\* n is m after the entry l is made to point to f.
Linked(m, n, l, f) ==
    /\ Typed(n)
    /\ n.free = m.free
    /\ n.ref = [m.ref EXCEPT ![f] = IF @ = RefMod - 1 THEN 0 ELSE @ + 1]
    /\ n.word = [m.word EXCEPT ![l] = f]
    /\ n.wrapped = (m.wrapped \/ m.ref[f] = RefMod - 1)

\* What page_insert does in the end is this.
LEMMA LinkIsLinked ==
    ASSUME NEW m, Typed(m), NEW l \in Loc, l \notin BootTables, NEW f \in Frame
    PROVE  Linked(m, Link(m, l, f), l, f)
<1>1. PICK n : n = Link(m, l, f)
  OBVIOUS
<1>2. /\ Typed(n) /\ n.free = m.free /\ n.word = [m.word EXCEPT ![l] = f]
      /\ n.ref = [m.ref EXCEPT ![f] = IF @ = RefMod - 1 THEN 0 ELSE @ + 1]
      /\ n.wrapped = (m.wrapped \/ m.ref[f] = RefMod - 1)
  BY <1>1, LinkEffect
<1>3. Linked(m, n, l, f)
  BY ONLY <1>2 DEF Linked
<1> QED BY ONLY <1>1, <1>3

\* page_remove does nothing or clears one entry.
LEMMA RemoveSteps ==
    ASSUME NEW m, Typed(m), NEW a \in Envs, NEW v \in UserVPN
    PROVE  \/ PageLookup(m, a, v) = Nil /\ PageRemove(m, a, v) = m
           \/ PageLookup(m, a, v) /= Nil /\ Cleared(m, PageRemove(m, a, v), a, v)
<1>1. CASE PageLookup(m, a, v) = Nil
  BY <1>1 DEF PageRemove
<1>2. CASE PageLookup(m, a, v) /= Nil
  BY <1>2, RemoveEffect, LookupEntry DEF Cleared
<1> QED BY <1>1, <1>2

\* page_insert: nothing to do; a walk that fails, at most after its first table; or the
\* removal of another mapping, up to two new tables, and the entry.
Inserted(m, r, a, v, f) ==
    \/ PageLookup(m, a, v) = f /\ r = [mem |-> m, ok |-> TRUE]
    \/ /\ PageLookup(m, a, v) = Nil /\ r.ok = FALSE
       /\ r.mem = m \/ Grown(m, r.mem, PudLoc(a, v))
    \/ \E c, d, e :
        /\ \/ c = m /\ PageLookup(m, a, v) = Nil
           \/ Cleared(m, c, a, v) /\ PageLookup(m, a, v) /= f
        /\ d = c \/ Grown(c, d, PudLoc(a, v))
        /\ e = d \/ Grown(d, e, PmdLoc(a, v))
        /\ d.word[PudLoc(a, v)] /= Nil /\ e.word[PmdLoc(a, v)] /= Nil
        /\ Linked(e, r.mem, PteLoc(a, v), f) /\ r.ok = TRUE

\* The paths through page_insert.
LEMMA InsertSteps ==
    ASSUME NEW m, Typed(m), NEW a \in Envs, NEW v \in UserVPN, NEW f \in Frame
    PROVE  Inserted(m, PageInsert(m, a, f, v), a, v, f)
<1> PICK r : r = PageInsert(m, a, f, v)
  OBVIOUS
<1> SUFFICES Inserted(m, r, a, v, f)
  OBVIOUS
<1> USE DEF Inserted
<1>1. CASE PageLookup(m, a, v) = f
  BY <1>1 DEF PageInsert
<1>2. CASE PageLookup(m, a, v) /= f
  <2> DEFINE u == PudLoc(a, v)
             w == PmdLoc(a, v)
             t == PteLoc(a, v)
  <2>1. u \in Loc /\ w \in Loc /\ t \in Loc /\ t \notin BootTables /\ u /= w /\ u /= t /\ w /= t
    BY EntriesInLoc, DistinctEntries
  <2>2. PICK c : c = PageRemove(m, a, v)
    OBVIOUS
  <2>3. \/ c = m /\ PageLookup(m, a, v) = Nil
        \/ Cleared(m, c, a, v) /\ PageLookup(m, a, v) /= Nil
    BY <2>2, RemoveSteps
  <2>4. Typed(c)
    BY <2>3 DEF Cleared
  <2>5. PICK p : p = GrowTable(c, u)
    OBVIOUS
  <2>6. PICK d : d = p.mem
    OBVIOUS
  <2>7. /\ d = c \/ Grown(c, d, u)
        /\ p.ok => d.word[u] /= Nil
        /\ ~p.ok => d = c /\ c.word[u] = Nil
        /\ Typed(d) /\ p.ok \in BOOLEAN
    BY <2>1, <2>4, <2>5, <2>6, GrowEffect
  <2>8. PICK q : q = GrowTable(d, w)
    OBVIOUS
  <2>9. PICK e : e = q.mem
    OBVIOUS
  <2>10. /\ e = d \/ Grown(d, e, w)
         /\ q.ok => e.word[w] /= Nil
         /\ ~q.ok => e = d /\ d.word[w] = Nil
         /\ Typed(e) /\ q.ok \in BOOLEAN
    BY <2>1, <2>7, <2>8, <2>9, GrowEffect
  <2>11. CASE ~p.ok
    <3>1. r = p
      BY <1>2, <2>2, <2>5, <2>11 DEF PageInsert, PgdirWalkCreate
    <3>2. c.word[u] = Nil
      BY <2>7, <2>11
    <3>3. ~Cleared(m, c, a, v)
      <4> SUFFICES ASSUME Cleared(m, c, a, v) PROVE FALSE
        OBVIOUS
      <4>1. m.word[u] /= Nil /\ c.word = [m.word EXCEPT ![t] = Nil]
        BY DEF Cleared
      <4> QED BY <4>1, <3>2, <2>1, Fields
    <3> QED BY <3>1, <3>3, <2>3, <2>6, <2>7, <2>11
  <2>12. CASE p.ok /\ ~q.ok
    <3>1. r = q
      BY <1>2, <2>2, <2>5, <2>6, <2>8, <2>12 DEF PageInsert, PgdirWalkCreate
    <3>2. d.word[w] = Nil /\ e = d
      BY <2>10, <2>12
    <3>3. ~Cleared(m, c, a, v)
      <4> SUFFICES ASSUME Cleared(m, c, a, v) PROVE FALSE
        OBVIOUS
      <4>1. m.word[w] /= Nil /\ c.word = [m.word EXCEPT ![t] = Nil]
        BY DEF Cleared
      <4>2. c.word[w] /= Nil
        BY <4>1, <2>1, Fields
      <4>3. CASE d = c
        BY <4>2, <4>3, <3>2
      <4>4. CASE Grown(c, d, u)
        <5>1. d.word = [c.word EXCEPT ![u] = Head(c.free)]
          BY <4>4 DEF Grown
        <5>2. d.word[w] = c.word[w]
          BY <5>1, <2>1, <2>4, Fields
        <5> QED BY <5>2, <4>2, <3>2
      <4> QED BY <4>3, <4>4, <2>7
    <3> QED BY <3>1, <3>2, <3>3, <2>3, <2>7, <2>9, <2>12
  <2>13. CASE p.ok /\ q.ok
    <3>1. r = [mem |-> Link(e, t, f), ok |-> TRUE]
      BY <1>2, <2>2, <2>5, <2>6, <2>8, <2>9, <2>13 DEF PageInsert, PgdirWalkCreate
    <3>2. Linked(e, Link(e, t, f), t, f)
      BY ONLY <2>1, <2>10, LinkIsLinked, f \in Frame, Zenon
    <3>3. r.mem = Link(e, t, f) /\ r.ok = TRUE
      BY <3>1
    <3>4. Linked(e, r.mem, t, f)
      BY <3>2, <3>3
    <3>5. \/ c = m /\ PageLookup(m, a, v) = Nil
          \/ Cleared(m, c, a, v) /\ PageLookup(m, a, v) /= f
      BY <1>2, <2>3
    <3> QED BY <3>3, <3>4, <3>5, <2>7, <2>10, <2>13
  <2> QED BY <2>7, <2>10, <2>11, <2>12, <2>13
<1> QED BY <1>1, <1>2

-----------------------------------------------------------------------------
(* A walk reaches every mapping: WalkReaches of Memory.                    *)

Walks(m) ==
    \A a \in Envs, v \in UserVPN :
        /\ m.word[PteLoc(a, v)] /= Nil => m.word[PmdLoc(a, v)] /= Nil
        /\ m.word[PmdLoc(a, v)] /= Nil => m.word[PudLoc(a, v)] /= Nil
        /\ Space(a, v) = a /\ m.word[PudLoc(a, v)] /= Nil => m.word[DirLoc(a)] /= Nil

\* Only entries matter to a walk.
LEMMA WalksSame ==
    ASSUME NEW m, NEW n, n.word = m.word, Walks(m)
    PROVE  Walks(n)
BY DEF Walks

\* An entry is made valid below a valid one.
LEMMA WalksSet ==
    ASSUME NEW m, Typed(m), Walks(m), NEW n, NEW x, x /= Nil,
           NEW a \in Envs, NEW v \in UserVPN, NEW l \in Loc,
           n.word = [m.word EXCEPT ![l] = x],
           \/ l = DirLoc(a)
           \/ l = PudLoc(a, v) /\ m.word[DirLoc(a)] /= Nil
           \/ l = PmdLoc(a, v) /\ m.word[PudLoc(a, v)] /= Nil
           \/ l = PteLoc(a, v) /\ m.word[PmdLoc(a, v)] /= Nil
    PROVE  Walks(n)
<1> SUFFICES ASSUME NEW b \in Envs, NEW w \in UserVPN
             PROVE  /\ n.word[PteLoc(b, w)] /= Nil => n.word[PmdLoc(b, w)] /= Nil
                    /\ n.word[PmdLoc(b, w)] /= Nil => n.word[PudLoc(b, w)] /= Nil
                    /\ Space(b, w) = b /\ n.word[PudLoc(b, w)] /= Nil =>
                         n.word[DirLoc(b)] /= Nil
  BY DEF Walks
<1>1. /\ m.word[PteLoc(b, w)] /= Nil => m.word[PmdLoc(b, w)] /= Nil
      /\ m.word[PmdLoc(b, w)] /= Nil => m.word[PudLoc(b, w)] /= Nil
      /\ Space(b, w) = b /\ m.word[PudLoc(b, w)] /= Nil => m.word[DirLoc(b)] /= Nil
  BY DEF Walks
<1>2. \A k \in Loc : n.word[k] = IF k = l THEN x ELSE m.word[k]
  BY Fields
<1>3. \A k \in Loc : m.word[k] /= Nil => n.word[k] /= Nil
  BY <1>2
<1>4. /\ PteLoc(b, w) \in Loc /\ PmdLoc(b, w) \in Loc /\ PudLoc(b, w) \in Loc
      /\ DirLoc(b) \in Loc
  BY EntriesInLoc
<1>5. PteLoc(b, w) = l => m.word[PmdLoc(b, w)] /= Nil
  BY SameEntry, DistinctEntries
<1>6. PmdLoc(b, w) = l => m.word[PudLoc(b, w)] /= Nil
  BY SameEntry, DistinctEntries
<1>7. Space(b, w) = b /\ PudLoc(b, w) = l => m.word[DirLoc(b)] /= Nil
  <2> SUFFICES ASSUME Space(b, w) = b, PudLoc(b, w) = l
               PROVE  m.word[DirLoc(b)] /= Nil
    OBVIOUS
  <2>1. l = PudLoc(a, v) /\ m.word[DirLoc(a)] /= Nil
    BY DistinctEntries
  <2>2. Space(a, v) = b
    BY <2>1, SameEntry
  <2>3. a = b
    BY <2>2, SpaceIsShared, EnvsAssumption
  <2> QED BY <2>1, <2>3
<1>8. n.word[PteLoc(b, w)] /= Nil => n.word[PmdLoc(b, w)] /= Nil
  BY <1>1, <1>2, <1>3, <1>4, <1>5
<1>9. n.word[PmdLoc(b, w)] /= Nil => n.word[PudLoc(b, w)] /= Nil
  BY <1>1, <1>2, <1>3, <1>4, <1>6
<1>10. Space(b, w) = b /\ n.word[PudLoc(b, w)] /= Nil => n.word[DirLoc(b)] /= Nil
  BY <1>1, <1>2, <1>3, <1>4, <1>7
<1> QED BY <1>8, <1>9, <1>10

\* A mapping is removed.
LEMMA WalksClear ==
    ASSUME NEW m, Typed(m), Walks(m), NEW n, NEW a \in Envs, NEW v \in UserVPN,
           n.word = [m.word EXCEPT ![PteLoc(a, v)] = Nil]
    PROVE  Walks(n)
<1> SUFFICES ASSUME NEW b \in Envs, NEW w \in UserVPN
             PROVE  /\ n.word[PteLoc(b, w)] /= Nil => n.word[PmdLoc(b, w)] /= Nil
                    /\ n.word[PmdLoc(b, w)] /= Nil => n.word[PudLoc(b, w)] /= Nil
                    /\ Space(b, w) = b /\ n.word[PudLoc(b, w)] /= Nil =>
                         n.word[DirLoc(b)] /= Nil
  BY DEF Walks
<1>1. \A k \in Loc : n.word[k] = IF k = PteLoc(a, v) THEN Nil ELSE m.word[k]
  BY Fields
<1>2. /\ n.word[PmdLoc(b, w)] = m.word[PmdLoc(b, w)]
      /\ n.word[PudLoc(b, w)] = m.word[PudLoc(b, w)]
      /\ n.word[DirLoc(b)] = m.word[DirLoc(b)]
  BY <1>1, EntriesInLoc, DistinctEntries
<1>3. n.word[PteLoc(b, w)] /= Nil => m.word[PteLoc(b, w)] /= Nil
  BY <1>1, EntriesInLoc
<1> QED BY <1>2, <1>3 DEF Walks

\* A new table below a valid entry.
LEMMA WalksGrown ==
    ASSUME NEW m, Typed(m), Walks(m), NEW n, NEW a \in Envs, NEW v \in UserVPN,
           \/ Grown(m, n, PudLoc(a, v)) /\ m.word[DirLoc(a)] /= Nil
           \/ Grown(m, n, PmdLoc(a, v)) /\ m.word[PudLoc(a, v)] /= Nil
    PROVE  Walks(n) /\ \A b \in Envs : n.word[DirLoc(b)] = m.word[DirLoc(b)]
<1>1. ASSUME NEW l \in Loc, Grown(m, n, l) PROVE
        /\ Head(m.free) /= Nil /\ n.word = [m.word EXCEPT ![l] = Head(m.free)]
  <2>1. Head(m.free) \in Frame
    BY <1>1, Fields DEF Grown
  <2> QED BY <2>1, <1>1, NilAssumption DEF Grown
<1>2. PudLoc(a, v) \in Loc /\ PmdLoc(a, v) \in Loc /\ \A b \in Envs : DirLoc(b) \in Loc
  BY EntriesInLoc
<1>3. \A b \in Envs : DirLoc(b) /= PudLoc(a, v) /\ DirLoc(b) /= PmdLoc(a, v)
  BY DistinctEntries
<1>4. CASE Grown(m, n, PudLoc(a, v)) /\ m.word[DirLoc(a)] /= Nil
  <2>1. Walks(n)
    BY <1>1, <1>2, <1>4, WalksSet
  <2> QED BY <2>1, <1>1, <1>2, <1>3, <1>4, Fields
<1>5. CASE Grown(m, n, PmdLoc(a, v)) /\ m.word[PudLoc(a, v)] /= Nil
  <2>1. Walks(n)
    BY <1>1, <1>2, <1>5, WalksSet
  <2> QED BY <2>1, <1>1, <1>2, <1>3, <1>5, Fields
<1> QED BY <1>4, <1>5

-----------------------------------------------------------------------------
(* Counts cover pointers: FreeListSound, RefCovers, TablesExclusive and    *)
(* KernelFramesKept of Memory.                                             *)

\* The frames below freemem: never free, counted once, mapped, in no table.
Kept(m) ==
    \A f \in Frame : f < FirstFree =>
        /\ f \notin Elements(m.free) /\ m.ref[f] = 1 /\ m.word[IdLoc(f)] = f
        /\ \A l \in CountedLoc : m.word[l] /= f

Covers(m) == \A f \in Frame : Cardinality(Ptrs(m, f)) <= m.ref[f]

Exclusive(m) ==
    \A l \in TableLocs : m.word[l] \in Frame =>
        Ptrs(m, m.word[l]) = {l} /\ m.ref[m.word[l]] = 1

FreeUncounted(m) == \A f \in Elements(m.free) : m.ref[f] = 0

Sound(m) == ~m.wrapped => Once(m.free) /\ FreeUncounted(m) /\ Covers(m) /\ Exclusive(m)

\* A frame that has been taken from the free list and is no table.
InUse(m, f) ==
    /\ f \in Frame
    /\ PagesAboveRAM =>
        /\ f >= FirstFree
        /\ ~m.wrapped => f \notin Elements(m.free) /\ \A l \in TableLocs : m.word[l] /= f

\* The pointers to a frame can be counted.
LEMMA PointersFinite ==
    ASSUME NEW m, NEW f
    PROVE  /\ IsFiniteSet(Ptrs(m, f)) /\ Cardinality(Ptrs(m, f)) \in Nat
           /\ Cardinality(Ptrs(m, f)) = 0 <=> Ptrs(m, f) = {}
<1>1. Ptrs(m, f) \in SUBSET Loc
  BY EntriesInLoc DEF Ptrs
<1>2. IsFiniteSet(Ptrs(m, f))
  BY <1>1, LocFinite, FS_Subset
<1> QED BY <1>2, FS_CardinalityType, FS_EmptySet

\* Writing an entry moves it from the pointers to one frame to those of another.
LEMMA PointersMove ==
    ASSUME NEW m, Typed(m), NEW l \in CountedLoc, NEW x, NEW n,
           n.word = [m.word EXCEPT ![l] = x], NEW f
    PROVE  Ptrs(n, f) = IF f = x THEN Ptrs(m, f) \union {l} ELSE Ptrs(m, f) \ {l}
<1>1. \A k \in Loc : n.word[k] = IF k = l THEN x ELSE m.word[k]
  BY Fields
<1> QED BY <1>1, EntriesInLoc DEF Ptrs

\* Nothing points to a free frame.
LEMMA FreeUnused ==
    ASSUME NEW m, Typed(m), FreeUncounted(m), Covers(m), NEW f \in Elements(m.free)
    PROVE  f \in Frame /\ m.ref[f] = 0 /\ Ptrs(m, f) = {}
<1>1. f \in Frame
  BY Fields DEF Elements
<1>2. m.ref[f] = 0 /\ Cardinality(Ptrs(m, f)) <= 0
  BY <1>1 DEF FreeUncounted, Covers
<1> QED BY <1>1, <1>2, PointersFinite

\* page_alloc takes the head of the list.
LEMMA AllocSound ==
    ASSUME NEW m, Typed(m), Sound(m), m.free /= <<>>, NEW n, Typed(n),
           n.free = Tail(m.free), n.ref = m.ref, n.word = m.word, n.wrapped = m.wrapped
    PROVE  /\ Sound(n)
           /\ ~n.wrapped =>
                /\ Head(m.free) \notin Elements(n.free) /\ n.ref[Head(m.free)] = 0
                /\ Ptrs(n, Head(m.free)) = {}
                /\ \A l \in CountedLoc : n.word[l] /= Head(m.free)
<1> SUFFICES ASSUME ~n.wrapped
             PROVE  /\ Once(n.free) /\ FreeUncounted(n) /\ Covers(n) /\ Exclusive(n)
                    /\ Head(m.free) \notin Elements(n.free) /\ n.ref[Head(m.free)] = 0
                    /\ Ptrs(n, Head(m.free)) = {}
                    /\ \A l \in CountedLoc : n.word[l] /= Head(m.free)
  BY DEF Sound
<1>1. Once(m.free) /\ FreeUncounted(m) /\ Covers(m) /\ Exclusive(m)
  BY DEF Sound
<1>2. \A f : Ptrs(n, f) = Ptrs(m, f)
  BY DEF Ptrs
<1>3. /\ Head(m.free) \in Elements(m.free) /\ Once(n.free)
      /\ Elements(n.free) = Elements(m.free) \ {Head(m.free)}
  BY <1>1, Fields, TakeHead
<1>4. m.ref[Head(m.free)] = 0 /\ Ptrs(m, Head(m.free)) = {}
  BY <1>1, <1>3, FreeUnused
<1>5. FreeUncounted(n)
  BY <1>1, <1>3 DEF FreeUncounted
<1>6. Covers(n)
  BY <1>1, <1>2 DEF Covers
<1>7. Exclusive(n)
  BY <1>1, <1>2 DEF Exclusive
<1>8. \A l \in CountedLoc : n.word[l] /= Head(m.free)
  BY <1>4 DEF Ptrs
<1> QED BY <1>2, <1>3, <1>4, <1>5, <1>6, <1>7, <1>8

\* An entry is made to point to a frame in use: f is not free, and no table.
LEMMA LinkSound ==
    ASSUME NEW m, Typed(m), Sound(m), NEW n, NEW l \in CountedLoc, NEW f \in Frame,
           Linked(m, n, l, f), l \notin TableLocs \/ (Ptrs(m, f) = {} /\ m.ref[f] = 0),
           ~m.wrapped => f \notin Elements(m.free) /\ \A k \in TableLocs : m.word[k] /= f
    PROVE  Sound(n)
<1> SUFFICES ASSUME ~n.wrapped
             PROVE  Once(n.free) /\ FreeUncounted(n) /\ Covers(n) /\ Exclusive(n)
  BY DEF Sound
<1>1. ~m.wrapped /\ m.ref[f] /= RefMod - 1
  BY DEF Linked
<1>2. Once(m.free) /\ FreeUncounted(m) /\ Covers(m) /\ Exclusive(m)
  BY <1>1 DEF Sound
<1>3. \A g \in Frame : n.ref[g] = IF g = f THEN m.ref[g] + 1 ELSE m.ref[g]
  BY <1>1, Fields DEF Linked
<1>4. \A k \in Loc : n.word[k] = IF k = l THEN f ELSE m.word[k]
  BY Fields DEF Linked
<1>5. \A g : Ptrs(n, g) = IF g = f THEN Ptrs(m, g) \union {l} ELSE Ptrs(m, g) \ {l}
  BY PointersMove DEF Linked
<1>6. n.free = m.free /\ f \notin Elements(m.free)
  BY <1>1 DEF Linked
<1>7. FreeUncounted(n)
  <2> SUFFICES ASSUME NEW g \in Elements(m.free) PROVE n.ref[g] = 0
    BY <1>6 DEF FreeUncounted
  <2>1. g \in Frame /\ m.ref[g] = 0
    BY <1>2, FreeUnused
  <2> QED BY <2>1, <1>3, <1>6
<1>8. Covers(n)
  <2> SUFFICES ASSUME NEW g \in Frame PROVE Cardinality(Ptrs(n, g)) <= n.ref[g]
    BY DEF Covers
  <2>1. /\ Cardinality(Ptrs(m, g)) <= m.ref[g] /\ Cardinality(Ptrs(m, g)) \in Nat
        /\ m.ref[g] \in Nat /\ IsFiniteSet(Ptrs(m, g))
    BY <1>2, PointersFinite, Fields DEF Covers
  <2>2. Cardinality(Ptrs(m, g) \union {l}) =
          IF l \in Ptrs(m, g) THEN Cardinality(Ptrs(m, g)) ELSE Cardinality(Ptrs(m, g)) + 1
    BY <2>1, FS_AddElement
  <2>3. Cardinality(Ptrs(m, g) \ {l}) =
          IF l \in Ptrs(m, g) THEN Cardinality(Ptrs(m, g)) - 1 ELSE Cardinality(Ptrs(m, g))
    BY <2>1, FS_RemoveElement
  <2>4. CASE g = f
    <3>1. Ptrs(n, g) = Ptrs(m, g) \union {l}
      BY <2>4, <1>5
    <3> QED BY <2>1, <2>2, <2>4, <3>1, <1>3
  <2>5. CASE g /= f
    <3>1. Ptrs(n, g) = Ptrs(m, g) \ {l}
      BY <2>5, <1>5
    <3> QED BY <2>1, <2>3, <2>5, <3>1, <1>3
  <2> QED BY <2>4, <2>5
<1>9. Exclusive(n)
  <2> SUFFICES ASSUME NEW k \in TableLocs, n.word[k] \in Frame
               PROVE  Ptrs(n, n.word[k]) = {k} /\ n.ref[n.word[k]] = 1
    BY DEF Exclusive
  <2>0. k \in Loc
    BY EntriesInLoc
  <2>1. CASE k = l
    <3>1. n.word[k] = f /\ Ptrs(m, f) = {} /\ m.ref[f] = 0
      BY <2>0, <2>1, <1>4
    <3>2. Ptrs(n, f) = {k}
      BY <2>1, <3>1, <1>5
    <3>3. n.ref[f] = 1
      BY <3>1, <1>3
    <3> QED BY <3>1, <3>2, <3>3
  <2>2. CASE k /= l
    <3>1. n.word[k] = m.word[k]
      BY <2>0, <2>2, <1>4
    <3>2. Ptrs(m, m.word[k]) = {k} /\ m.ref[m.word[k]] = 1 /\ m.word[k] /= f
      BY <3>1, <1>1, <1>2 DEF Exclusive
    <3>3. Ptrs(n, m.word[k]) = {k}
      BY <2>2, <3>2, <1>5
    <3>4. n.ref[m.word[k]] = 1
      BY <3>1, <3>2, <1>3
    <3> QED BY <3>1, <3>3, <3>4
  <2> QED BY <2>1, <2>2
<1> QED BY <1>2, <1>6, <1>7, <1>8, <1>9

\* A new table is counted once and pointed to once.
LEMMA GrowSound ==
    ASSUME NEW m, Typed(m), Sound(m), NEW n, NEW l \in TableLocs, Grown(m, n, l)
    PROVE  Sound(n)
<1>1. PICK k : k = [m EXCEPT !.free = Tail(m.free)]
  OBVIOUS
<1>2. /\ k.free = Tail(m.free) /\ k.ref = m.ref /\ k.word = m.word /\ k.wrapped = m.wrapped
      /\ k \in MemRec
  <2>1. Tail(m.free) \in Seq(Frame)
    BY Fields DEF Grown
  <2> QED BY <1>1, <2>1 DEF Typed, MemRec
<1>3. Typed(k)
  BY <1>2 DEF Typed
<1>4. Head(m.free) \in Frame /\ m.free /= <<>> /\ l \in CountedLoc
  BY Fields, EntriesInLoc DEF Grown
<1>5. /\ Sound(k)
      /\ ~k.wrapped =>
           /\ Head(m.free) \notin Elements(k.free) /\ k.ref[Head(m.free)] = 0
           /\ Ptrs(k, Head(m.free)) = {}
           /\ \A j \in CountedLoc : k.word[j] /= Head(m.free)
  BY <1>2, <1>3, <1>4, AllocSound
<1>6. Linked(k, n, l, Head(m.free))
  BY <1>2 DEF Grown, Linked
<1>7. CASE ~k.wrapped
  BY <1>3, <1>4, <1>5, <1>6, <1>7, LinkSound, EntriesInLoc
<1>8. CASE k.wrapped
  BY <1>6, <1>8 DEF Linked, Sound
<1> QED BY <1>7, <1>8

\* page_remove gives back one reference for the entry it clears.
LEMMA ClearSound ==
    ASSUME PagesAboveRAM, NEW m, Typed(m), Sound(m), NEW n,
           NEW a \in Envs, NEW v \in UserVPN, Cleared(m, n, a, v)
    PROVE  Sound(n) /\ (~n.wrapped => Elements(n.free) \subseteq Elements(m.free) \union {m.word[PteLoc(a, v)]})
<1> SUFFICES ASSUME ~n.wrapped
             PROVE  /\ Once(n.free) /\ FreeUncounted(n) /\ Covers(n) /\ Exclusive(n)
                    /\ Elements(n.free) \subseteq Elements(m.free) \union {m.word[PteLoc(a, v)]}
  BY DEF Sound
<1>1. PICK l, f : l = PteLoc(a, v) /\ f = m.word[l]
  OBVIOUS
<1>2. ~m.wrapped /\ f \in Frame /\ l \in CountedLoc /\ l \notin TableLocs /\ l \in Loc
  BY <1>1, UserEntryCounted, EntriesInLoc DEF Cleared
<1>3. Once(m.free) /\ FreeUncounted(m) /\ Covers(m) /\ Exclusive(m)
  BY <1>2 DEF Sound
<1>4. l \in Ptrs(m, f) /\ IsFiniteSet(Ptrs(m, f)) /\ Cardinality(Ptrs(m, f)) \in Nat
      /\ Cardinality(Ptrs(m, f)) /= 0
  <2>1. l \in Ptrs(m, f)
    BY <1>1, <1>2 DEF Ptrs
  <2> QED BY <2>1, PointersFinite
<1>5. m.ref[f] \in Nat /\ m.ref[f] >= Cardinality(Ptrs(m, f)) /\ m.ref[f] >= 1
  BY <1>2, <1>3, <1>4, Fields DEF Covers
<1>6. /\ n.free = IF m.ref[f] = 1 THEN <<f>> \o m.free ELSE m.free
      /\ n.ref = [m.ref EXCEPT ![f] = IF @ = 0 THEN RefMod - 1 ELSE @ - 1]
      /\ n.word = [m.word EXCEPT ![l] = Nil]
  BY <1>1 DEF Cleared
<1>7. \A g \in Frame : n.ref[g] = IF g = f THEN m.ref[g] - 1 ELSE m.ref[g]
  BY <1>5, <1>6, Fields
<1>8. \A k \in Loc : n.word[k] = IF k = l THEN Nil ELSE m.word[k]
  BY <1>6, Fields
<1>9. \A g \in Frame : Ptrs(n, g) = Ptrs(m, g) \ {l}
  BY <1>2, <1>6, PointersMove, NilAssumption
<1>10. f \notin Elements(m.free)
  BY <1>3, <1>5 DEF FreeUncounted
<1>11. /\ Once(n.free) /\ Elements(n.free) \subseteq Elements(m.free) \union {f}
       /\ m.ref[f] /= 1 => Elements(n.free) = Elements(m.free)
  <2>1. m.free \in Seq(Frame)
    BY Fields
  <2>2. Once(<<f>> \o m.free) /\ Elements(<<f>> \o m.free) = Elements(m.free) \union {f}
    BY <2>1, <1>2, <1>3, <1>10, PushHead
  <2>3. CASE m.ref[f] = 1
    <3>1. n.free = <<f>> \o m.free
      BY <2>3, <1>6
    <3> QED BY <2>2, <2>3, <3>1
  <2>4. CASE m.ref[f] /= 1
    <3>1. n.free = m.free
      BY <2>4, <1>6
    <3> QED BY <2>4, <3>1, <1>3
  <2> QED BY <2>3, <2>4
<1>12. FreeUncounted(n)
  <2> SUFFICES ASSUME NEW g \in Elements(n.free) PROVE n.ref[g] = 0
    BY DEF FreeUncounted
  <2>1. CASE g = f
    <3>1. m.ref[f] = 1
      BY <1>10, <1>11, <2>1
    <3> QED BY <2>1, <3>1, <1>2, <1>7
  <2>2. CASE g /= f
    <3>1. g \in Elements(m.free)
      BY <2>2, <1>11
    <3>2. g \in Frame /\ m.ref[g] = 0
      BY <3>1, <1>3, FreeUnused
    <3> QED BY <2>2, <3>2, <1>7
  <2> QED BY <2>1, <2>2
<1>13. Covers(n)
  <2> SUFFICES ASSUME NEW g \in Frame PROVE Cardinality(Ptrs(n, g)) <= n.ref[g]
    BY DEF Covers
  <2>1. /\ Cardinality(Ptrs(m, g)) <= m.ref[g] /\ Cardinality(Ptrs(m, g)) \in Nat
        /\ m.ref[g] \in Nat /\ IsFiniteSet(Ptrs(m, g))
    BY <1>3, PointersFinite, Fields DEF Covers
  <2>2. Cardinality(Ptrs(m, g) \ {l}) =
          IF l \in Ptrs(m, g) THEN Cardinality(Ptrs(m, g)) - 1 ELSE Cardinality(Ptrs(m, g))
    BY <2>1, FS_RemoveElement
  <2>3. Ptrs(n, g) = Ptrs(m, g) \ {l}
    BY <1>9
  <2>4. CASE g = f
    BY <2>1, <2>2, <2>3, <2>4, <1>4, <1>7
  <2>5. CASE g /= f
    BY <2>1, <2>2, <2>3, <2>5, <1>7
  <2> QED BY <2>4, <2>5
<1>14. Exclusive(n)
  <2> SUFFICES ASSUME NEW k \in TableLocs, n.word[k] \in Frame
               PROVE  Ptrs(n, n.word[k]) = {k} /\ n.ref[n.word[k]] = 1
    BY DEF Exclusive
  <2>1. k \in Loc /\ k /= l
    BY <1>2, EntriesInLoc
  <2>2. n.word[k] = m.word[k]
    BY <2>1, <1>8
  <2>3. Ptrs(m, m.word[k]) = {k} /\ m.ref[m.word[k]] = 1
    BY <2>2, <1>3 DEF Exclusive
  <2>4. m.word[k] /= f
    BY <2>1, <2>3, <1>4
  <2>5. Ptrs(n, m.word[k]) = {k}
    BY <2>1, <2>2, <2>3, <1>9
  <2>6. n.ref[m.word[k]] = 1
    BY <2>2, <2>3, <2>4, <1>7
  <2> QED BY <2>2, <2>5, <2>6
<1> QED BY <1>1, <1>11, <1>12, <1>13, <1>14

-----------------------------------------------------------------------------
(* The invariant, and that the steps of page_insert and env_setup_vm keep  *)
(* it.                                                                     *)

Good(m) == Typed(m) /\ Walks(m) /\ (PagesAboveRAM => Kept(m) /\ Sound(m))

SameDirs(m, n) == \A a \in Envs : n.word[DirLoc(a)] = m.word[DirLoc(a)]
StillInUse(m, n) == \A f : InUse(m, f) => InUse(n, f)

\* An entry above the kernel's frames is written, or no entry at all.
LEMMA KeptStep ==
    ASSUME NEW m, Typed(m), Kept(m), NEW n,
           \A f \in Frame : f < FirstFree =>
                /\ n.ref[f] = m.ref[f]
                /\ f \in Elements(n.free) => f \in Elements(m.free)
                /\ n.word[IdLoc(f)] = m.word[IdLoc(f)]
                /\ \A l \in CountedLoc : n.word[l] = f => m.word[l] = f
    PROVE  Kept(n)
BY DEF Kept

\* The head of the list is no frame of the kernel.
LEMMA HeadAboveKernel ==
    ASSUME NEW m, Typed(m), m.free /= <<>>, Kept(m)
    PROVE  /\ Head(m.free) \in Frame /\ Head(m.free) >= FirstFree
           /\ Elements(Tail(m.free)) \subseteq Elements(m.free)
<1>1. m.free \in Seq(Frame) /\ FirstFree \in Nat /\ Frame \subseteq Nat
  BY Fields, Sizes
<1>2. /\ Len(m.free) \in Nat /\ Len(m.free) >= 1 /\ DOMAIN m.free = 1..Len(m.free)
      /\ Head(m.free) = m.free[1] /\ DOMAIN Tail(m.free) = 1..(Len(m.free) - 1)
      /\ \A i \in 1..(Len(m.free) - 1) : Tail(m.free)[i] = m.free[i + 1]
  BY <1>1
<1>3. Head(m.free) \in Elements(m.free) /\ Head(m.free) \in Frame
  BY <1>1, <1>2 DEF Elements
<1>4. Elements(Tail(m.free)) \subseteq Elements(m.free)
  BY <1>2 DEF Elements
<1>5. \A f \in Frame : f < FirstFree => f \notin Elements(m.free)
  BY ONLY Kept(m) DEF Kept
<1>6. \A h \in Frame : ~(h < FirstFree) => h >= FirstFree
  BY ONLY <1>1
<1> QED BY ONLY <1>3, <1>4, <1>5, <1>6

\* page_alloc: the frame it returns is in use from now on.
LEMMA GoodAlloc ==
    ASSUME NEW m, Good(m), m.free /= <<>>, NEW n, Typed(n),
           n.free = Tail(m.free), n.ref = m.ref, n.word = m.word, n.wrapped = m.wrapped
    PROVE  Good(n) /\ SameDirs(m, n) /\ StillInUse(m, n) /\ InUse(n, Head(m.free))
<1>1. Typed(m) /\ Walks(n) /\ SameDirs(m, n)
  BY WalksSame DEF Good, SameDirs
<1>2. Head(m.free) \in Frame
  BY <1>1, Fields
<1>3. CASE PagesAboveRAM
  <2>1. Kept(m) /\ Sound(m)
    BY <1>3 DEF Good
  <2>2. Head(m.free) >= FirstFree /\ Elements(n.free) \subseteq Elements(m.free)
    BY <1>1, <2>1, HeadAboveKernel
  <2>3. Kept(n)
    BY <1>1, <2>1, <2>2, KeptStep
  <2>4. /\ Sound(n)
        /\ ~n.wrapped => /\ Head(m.free) \notin Elements(n.free)
                         /\ \A l \in CountedLoc : n.word[l] /= Head(m.free)
    BY <1>1, <2>1, AllocSound
  <2>5. InUse(n, Head(m.free))
    BY <1>2, <2>2, <2>4, EntriesInLoc DEF InUse
  <2>6. StillInUse(m, n)
    BY <2>2 DEF InUse, StillInUse
  <2> QED BY <1>1, <2>3, <2>4, <2>5, <2>6 DEF Good
<1>4. CASE ~PagesAboveRAM
  BY <1>1, <1>2, <1>4 DEF Good, InUse, StillInUse
<1> QED BY <1>3, <1>4

\* A new table: the frames in use stay in use.
LEMMA GoodGrown ==
    ASSUME NEW m, Good(m), NEW n, NEW l \in TableLocs, Grown(m, n, l), Walks(n)
    PROVE  Good(n) /\ StillInUse(m, n)
<1>1. Typed(m) /\ Typed(n) /\ l \in CountedLoc /\ l \in Loc
  BY EntriesInLoc DEF Good, Grown
<1>2. CASE PagesAboveRAM
  <2>1. Kept(m) /\ Sound(m)
    BY <1>2 DEF Good
  <2>2. /\ Head(m.free) \in Frame /\ Head(m.free) >= FirstFree
        /\ Elements(n.free) \subseteq Elements(m.free)
    BY <1>1, <2>1, HeadAboveKernel DEF Grown
  <2>3. \A k \in Loc : n.word[k] = IF k = l THEN Head(m.free) ELSE m.word[k]
    BY <1>1, Fields DEF Grown
  <2>4. \A f \in Frame : f /= Head(m.free) => n.ref[f] = m.ref[f]
    BY <1>1, Fields DEF Grown
  <2>5. \A f \in Frame : f < FirstFree => f /= Head(m.free) /\ IdLoc(f) \in Loc /\ IdLoc(f) /= l
    BY <1>1, <2>2, IdEntries, Sizes
  <2>6. Kept(n)
    BY <1>1, <2>1, <2>2, <2>3, <2>4, <2>5, KeptStep, EntriesInLoc
  <2>7. Sound(n)
    BY <1>1, <2>1, GrowSound
  <2>8. ASSUME NEW f, InUse(m, f) PROVE InUse(n, f)
    <3>1. ~n.wrapped => ~m.wrapped
      BY DEF Grown
    <3>2. ~m.wrapped => f /= Head(m.free)
      <4>1. m.free /= <<>> /\ m.free \in Seq(Frame)
        BY <1>1, Fields DEF Grown
      <4>2. Head(m.free) \in Elements(m.free)
        BY <4>1 DEF Elements
      <4> QED BY <4>2, <2>8, <1>2 DEF InUse
    <3>3. ~n.wrapped => \A k \in TableLocs : n.word[k] /= f
      BY <3>1, <3>2, <2>3, <2>8, <1>2, EntriesInLoc DEF InUse
    <3> QED BY <3>1, <3>3, <2>2, <2>8, <1>2 DEF InUse
  <2> QED BY <1>1, <2>6, <2>7, <2>8 DEF Good, StillInUse
<1>3. CASE ~PagesAboveRAM
  BY <1>1, <1>3 DEF Good, InUse, StillInUse
<1> QED BY <1>2, <1>3

\* page_remove: all frames in use but the one that was mapped stay in use.
LEMMA GoodCleared ==
    ASSUME NEW m, Good(m), NEW n, NEW a \in Envs, NEW v \in UserVPN, Cleared(m, n, a, v)
    PROVE  /\ Good(n) /\ SameDirs(m, n)
           /\ \A f : InUse(m, f) /\ f /= PageLookup(m, a, v) => InUse(n, f)
<1> DEFINE l == PteLoc(a, v)
           f == m.word[l]
<1>1. Typed(m) /\ Typed(n) /\ l \in Loc /\ f \in Frame /\ PageLookup(m, a, v) = f
  BY EntriesInLoc DEF Good, Cleared
<1>2. \A k \in Loc : n.word[k] = IF k = l THEN Nil ELSE m.word[k]
  BY <1>1, Fields DEF Cleared
<1>3. Walks(n)
  BY WalksClear DEF Good, Cleared
<1>4. SameDirs(m, n)
  <2> SUFFICES ASSUME NEW b \in Envs PROVE n.word[DirLoc(b)] = m.word[DirLoc(b)]
    BY DEF SameDirs
  <2>1. DirLoc(b) \in Loc /\ DirLoc(b) /= l
    BY EntriesInLoc, DistinctEntries
  <2> QED BY <2>1, <1>2
<1>5. CASE PagesAboveRAM
  <2>1. Kept(m) /\ Sound(m)
    BY <1>5 DEF Good
  <2>2. Sound(n) /\ (~n.wrapped => Elements(n.free) \subseteq Elements(m.free) \union {f})
    BY <1>1, <1>5, <2>1, ClearSound
  <2>3. Elements(n.free) \subseteq Elements(m.free) \union {f}
    <3>1. CASE n.free = m.free
      BY <3>1
    <3>2. CASE n.free = <<f>> \o m.free
      <4>1. m.free \in Seq(Frame)
        BY <1>1, Fields
      <4> HIDE DEF f
      <4>2. \A i \in DOMAIN n.free : n.free[i] = f \/ \E j \in DOMAIN m.free : n.free[i] = m.free[j]
        BY <4>1, <3>2, <1>1
      <4> QED BY <4>2 DEF Elements
    <3> QED BY <3>1, <3>2 DEF Cleared
  <2>4. \A g \in Frame : g < FirstFree => g /= f
    BY <2>1, <1>1, <1>5, UserEntryCounted DEF Kept
  <2>5. \A g \in Frame : g /= f => n.ref[g] = m.ref[g]
    BY <1>1, Fields DEF Cleared
  <2>6. \A g \in Frame : IdLoc(g) \in Loc /\ IdLoc(g) /= l
    BY <1>5, IdEntries, UserEntryCounted
  <2>7. Kept(n)
    <3> SUFFICES ASSUME NEW g \in Frame, g < FirstFree
                 PROVE  /\ n.ref[g] = m.ref[g]
                        /\ g \in Elements(n.free) => g \in Elements(m.free)
                        /\ n.word[IdLoc(g)] = m.word[IdLoc(g)]
                        /\ \A k \in CountedLoc : n.word[k] = g => m.word[k] = g
      BY <1>1, <2>1, KeptStep
    <3>1. g /= f
      BY <2>4
    <3>2. n.ref[g] = m.ref[g] /\ (g \in Elements(n.free) => g \in Elements(m.free))
      BY <3>1, <2>3, <2>5
    <3>3. n.word[IdLoc(g)] = m.word[IdLoc(g)]
      BY <2>6, <1>2
    <3>4. \A k \in CountedLoc : n.word[k] = g => m.word[k] = g
      BY <1>2, EntriesInLoc, NilAssumption
    <3> QED BY <3>2, <3>3, <3>4
  <2>8. ASSUME NEW g, InUse(m, g), g /= f PROVE InUse(n, g)
    <3>1. g \in Frame /\ g >= FirstFree
      BY <2>8, <1>5 DEF InUse
    <3>2. ~n.wrapped => g \notin Elements(n.free)
      BY <2>3, <2>8, <1>5 DEF InUse, Cleared
    <3>3. ~n.wrapped => \A k \in TableLocs : n.word[k] /= g
      BY <2>8, <1>2, <1>5, <3>1, EntriesInLoc, NilAssumption DEF InUse, Cleared
    <3> QED BY <3>1, <3>2, <3>3 DEF InUse
  <2> QED BY <1>1, <1>3, <1>4, <2>2, <2>7, <2>8 DEF Good
<1>6. CASE ~PagesAboveRAM
  BY <1>1, <1>3, <1>4, <1>6 DEF Good, InUse
<1> QED BY <1>5, <1>6

\* The last step of page_insert.
LEMMA GoodLinked ==
    ASSUME NEW m, Good(m), NEW n, NEW a \in Envs, NEW v \in UserVPN, NEW f, InUse(m, f),
           Linked(m, n, PteLoc(a, v), f), m.word[PmdLoc(a, v)] /= Nil
    PROVE  Good(n) /\ SameDirs(m, n) /\ StillInUse(m, n)
<1> DEFINE l == PteLoc(a, v)
<1>1. Typed(m) /\ Typed(n) /\ l \in Loc /\ f \in Frame /\ f /= Nil
  BY EntriesInLoc, NilAssumption DEF Good, Linked, InUse
<1>2. \A k \in Loc : n.word[k] = IF k = l THEN f ELSE m.word[k]
  BY <1>1, Fields DEF Linked
<1>3. Walks(n)
  <2>1. Walks(m) /\ n.word = [m.word EXCEPT ![l] = f]
    BY DEF Good, Linked
  <2>2. PICK k \in Loc : k = l
    BY <1>1
  <2>3. n.word = [m.word EXCEPT ![k] = f] /\ k = PteLoc(a, v) /\ m.word[PmdLoc(a, v)] /= Nil
    BY <2>1, <2>2
  <2> QED BY ONLY <1>1, <2>1, <2>3, WalksSet, a \in Envs, v \in UserVPN
<1>4. SameDirs(m, n)
  <2> SUFFICES ASSUME NEW b \in Envs PROVE n.word[DirLoc(b)] = m.word[DirLoc(b)]
    BY DEF SameDirs
  <2>1. DirLoc(b) \in Loc /\ DirLoc(b) /= l
    BY EntriesInLoc, DistinctEntries
  <2> QED BY <2>1, <1>2
<1>5. \A k \in TableLocs : k \in Loc /\ k /= l
  BY EntriesInLoc
<1>6. CASE PagesAboveRAM
  <2>1. Kept(m) /\ Sound(m) /\ l \in CountedLoc /\ l \notin TableLocs
    BY <1>6, UserEntryCounted, EntriesInLoc DEF Good
  <2>2. Sound(n)
    <3>1. ~m.wrapped => f \notin Elements(m.free) /\ \A k \in TableLocs : m.word[k] /= f
      BY <1>6 DEF InUse
    <3>2. l \notin TableLocs \/ (Ptrs(m, f) = {} /\ m.ref[f] = 0)
      BY <2>1
    <3>3. Typed(m) /\ f \in Frame /\ Linked(m, n, l, f) /\ l \in CountedLoc /\ Sound(m)
      BY <1>1, <2>1
    <3> HIDE DEF l
    <3> QED BY <3>1, <3>2, <3>3, LinkSound
  <2>3. \A g \in Frame : g < FirstFree => g /= f
    BY <1>1, <1>6, Sizes DEF InUse
  <2>4. \A g \in Frame : g /= f => n.ref[g] = m.ref[g]
    BY <1>1, Fields DEF Linked
  <2>5. \A g \in Frame : IdLoc(g) \in Loc /\ IdLoc(g) /= l
    BY <2>1, IdEntries
  <2>6. n.free = m.free
    BY DEF Linked
  <2>7. Kept(n)
    BY <1>1, <1>2, <2>1, <2>3, <2>4, <2>5, <2>6, KeptStep, EntriesInLoc
  <2>8. StillInUse(m, n)
    BY <1>2, <1>5, <1>6, <2>6 DEF InUse, StillInUse, Linked
  <2> QED BY <1>1, <1>3, <1>4, <2>2, <2>7, <2>8 DEF Good
<1>7. CASE ~PagesAboveRAM
  BY <1>1, <1>3, <1>4, <1>7 DEF Good, InUse, StillInUse
<1> QED BY <1>6, <1>7

\* page_remove and page_insert.
LEMMA GoodRemove ==
    ASSUME NEW m, Good(m), NEW a \in Envs, NEW v \in UserVPN
    PROVE  Good(PageRemove(m, a, v)) /\ SameDirs(m, PageRemove(m, a, v))
<1>1. Typed(m)
  BY DEF Good
<1>2. CASE PageRemove(m, a, v) = m
  BY <1>2 DEF SameDirs
<1>3. CASE Cleared(m, PageRemove(m, a, v), a, v)
  BY <1>3, GoodCleared
<1> QED BY <1>1, <1>2, <1>3, RemoveSteps

\* page_insert of a frame in use, below a directory.
LEMMA GoodInsert ==
    ASSUME NEW m, Good(m), NEW a \in Envs, m.word[DirLoc(a)] /= Nil,
           NEW v \in UserVPN, NEW f, InUse(m, f)
    PROVE  Good(PageInsert(m, a, f, v).mem) /\ SameDirs(m, PageInsert(m, a, f, v).mem)
<1> DEFINE u == PudLoc(a, v)
           w == PmdLoc(a, v)
           t == PteLoc(a, v)
<1>1. Typed(m) /\ Walks(m) /\ f \in Frame /\ u \in TableLocs /\ w \in TableLocs
  BY EntriesInLoc DEF Good, InUse
<1>2. PICK r : r = PageInsert(m, a, f, v)
  OBVIOUS
<1>3. CASE PageLookup(m, a, v) = f /\ r = [mem |-> m, ok |-> TRUE]
  BY <1>2, <1>3 DEF SameDirs
<1>4. CASE r.mem = m
  BY <1>2, <1>4 DEF SameDirs
<1>5. CASE Grown(m, r.mem, u)
  <2>1. Walks(r.mem) /\ SameDirs(m, r.mem)
    BY <1>1, <1>5, WalksGrown DEF SameDirs
  <2> QED BY <1>1, <1>2, <1>5, <2>1, GoodGrown
<1>6. CASE \E c, d, e :
                /\ \/ c = m /\ PageLookup(m, a, v) = Nil
                   \/ Cleared(m, c, a, v) /\ PageLookup(m, a, v) /= f
                /\ d = c \/ Grown(c, d, u)
                /\ e = d \/ Grown(d, e, w)
                /\ d.word[u] /= Nil /\ e.word[w] /= Nil
                /\ Linked(e, r.mem, t, f) /\ r.ok = TRUE
  <2>1. PICK c, d, e :
                /\ \/ c = m /\ PageLookup(m, a, v) = Nil
                   \/ Cleared(m, c, a, v) /\ PageLookup(m, a, v) /= f
                /\ d = c \/ Grown(c, d, u)
                /\ e = d \/ Grown(d, e, w)
                /\ d.word[u] /= Nil /\ e.word[w] /= Nil
                /\ Linked(e, r.mem, t, f) /\ r.ok = TRUE
    BY <1>6
  <2>2. Good(c) /\ SameDirs(m, c) /\ InUse(c, f)
    <3>1. CASE c = m
      BY <3>1 DEF SameDirs
    <3>2. CASE Cleared(m, c, a, v) /\ PageLookup(m, a, v) /= f
      BY <3>2, GoodCleared
    <3> QED BY <2>1, <3>1, <3>2
  <2>3. Good(d) /\ SameDirs(c, d) /\ InUse(d, f)
    <3>1. CASE d = c
      BY <2>2, <3>1 DEF SameDirs
    <3>2. CASE Grown(c, d, u)
      <4>1. Typed(c) /\ Walks(c) /\ c.word[DirLoc(a)] /= Nil
        BY <2>2 DEF Good, SameDirs
      <4>2. Walks(d) /\ SameDirs(c, d)
        BY <3>2, <4>1, WalksGrown DEF SameDirs
      <4>3. Good(d) /\ StillInUse(c, d)
        BY <1>1, <2>2, <3>2, <4>2, GoodGrown
      <4> QED BY <2>2, <4>2, <4>3 DEF StillInUse
    <3> QED BY <2>1, <3>1, <3>2
  <2>4. Good(e) /\ SameDirs(d, e) /\ InUse(e, f)
    <3>1. CASE e = d
      BY <2>3, <3>1 DEF SameDirs
    <3>2. CASE Grown(d, e, w)
      <4>1. Typed(d) /\ Walks(d)
        BY <2>3 DEF Good
      <4>2. Walks(e) /\ SameDirs(d, e)
        BY <2>1, <3>2, <4>1, WalksGrown DEF SameDirs
      <4>3. Good(e) /\ StillInUse(d, e)
        BY <1>1, <2>3, <3>2, <4>2, GoodGrown
      <4> QED BY <2>3, <4>2, <4>3 DEF StillInUse
    <3> QED BY <2>1, <3>1, <3>2
  <2>5. Good(r.mem) /\ SameDirs(e, r.mem)
    BY <2>1, <2>4, GoodLinked
  <2> QED BY <1>2, <2>2, <2>3, <2>4, <2>5 DEF SameDirs
<1>7. Inserted(m, r, a, v, f)
  BY <1>1, <1>2, InsertSteps
<1>8. \/ PageLookup(m, a, v) = f /\ r = [mem |-> m, ok |-> TRUE]
      \/ r.mem = m
      \/ Grown(m, r.mem, u)
      \/ \E c, d, e :
            /\ \/ c = m /\ PageLookup(m, a, v) = Nil
               \/ Cleared(m, c, a, v) /\ PageLookup(m, a, v) /= f
            /\ d = c \/ Grown(c, d, u)
            /\ e = d \/ Grown(d, e, w)
            /\ d.word[u] /= Nil /\ e.word[w] /= Nil
            /\ Linked(e, r.mem, t, f) /\ r.ok = TRUE
  BY <1>7 DEF Inserted
<1> QED BY <1>3, <1>4, <1>5, <1>6, <1>8

-----------------------------------------------------------------------------
(* The calls.                                                              *)

\* env_setup_vm panics or makes a directory.
LEMMA SetupEffect ==
    ASSUME NEW m, Typed(m), NEW a \in Envs, m.word[DirLoc(a)] = Nil
    PROVE  /\ m.free = <<>> => EnvSetupVm(m, a) = [m EXCEPT !.panic = TRUE]
           /\ m.free /= <<>> => Grown(m, EnvSetupVm(m, a), DirLoc(a))
<1>1. CASE m.free = <<>>
  <2>1. PageAlloc(m).page = Nil
    BY <1>1, AllocEffect
  <2> QED BY <1>1, <2>1 DEF EnvSetupVm
<1>2. CASE m.free /= <<>>
  <2>1. PICK k, f : k = PageAlloc(m).mem /\ f = PageAlloc(m).page
    OBVIOUS
  <2>2. Typed(k) /\ k.free = Tail(m.free)
        /\ k.ref = m.ref /\ k.word = m.word /\ k.wrapped = m.wrapped
    BY <1>2, <2>1, AllocEffect
  <2>3. f = Head(m.free) /\ f \in Frame /\ f /= Nil
    BY <1>2, <2>1, AllocEffect, NilAssumption
  <2>4. EnvSetupVm(m, a) = Link(k, DirLoc(a), f)
    BY <2>1, <2>3 DEF EnvSetupVm
  <2>5. PICK n : n = Link(k, DirLoc(a), f)
    OBVIOUS
  <2>6. DirLoc(a) \in Loc /\ DirLoc(a) \notin BootTables
    BY EntriesInLoc
  <2>7. /\ Typed(n) /\ n.free = k.free
        /\ n.ref = [k.ref EXCEPT ![f] = IF @ = RefMod - 1 THEN 0 ELSE @ + 1]
        /\ n.word = [k.word EXCEPT ![DirLoc(a)] = f]
        /\ n.wrapped = (k.wrapped \/ k.ref[f] = RefMod - 1)
    <3>1. /\ Typed(Link(k, DirLoc(a), f)) /\ Link(k, DirLoc(a), f).free = k.free
          /\ Link(k, DirLoc(a), f).ref = [k.ref EXCEPT ![f] = IF @ = RefMod - 1 THEN 0 ELSE @ + 1]
          /\ Link(k, DirLoc(a), f).word = [k.word EXCEPT ![DirLoc(a)] = f]
          /\ Link(k, DirLoc(a), f).wrapped = (k.wrapped \/ k.ref[f] = RefMod - 1)
      BY ONLY <2>2, <2>3, <2>6, LinkEffect
    <3> QED BY ONLY <2>5, <3>1
  <2>8. Grown(m, n, DirLoc(a))
    BY <1>2, <2>2, <2>3, <2>7 DEF Grown
  <2> QED BY <1>2, <2>4, <2>5, <2>8
<1> QED BY <1>1, <1>2

\* env_setup_vm.
LEMMA GoodSetup ==
    ASSUME NEW m, Good(m), NEW a \in Envs, m.word[DirLoc(a)] = Nil
    PROVE  LET n == EnvSetupVm(m, a)
           IN  /\ Good(n)
               /\ m.free = <<>> => n.panic = TRUE
               /\ m.free /= <<>> => n.word[DirLoc(a)] /= Nil /\ n.free = Tail(m.free)
<1>1. Typed(m) /\ Walks(m) /\ DirLoc(a) \in TableLocs /\ DirLoc(a) \in Loc
  BY EntriesInLoc DEF Good
<1>2. PICK n : n = EnvSetupVm(m, a)
  OBVIOUS
<1>3. CASE m.free = <<>>
  <2>1. n = [m EXCEPT !.panic = TRUE]
    BY <1>1, <1>2, <1>3, SetupEffect
  <2>2. /\ n \in MemRec /\ n.panic = TRUE
        /\ n.free = m.free /\ n.ref = m.ref /\ n.word = m.word /\ n.wrapped = m.wrapped
    BY <1>1, <2>1 DEF Typed, MemRec
  <2>3. Typed(n) /\ Walks(n)
    BY <1>1, <2>2, WalksSame DEF Typed
  <2>4. Kept(m) => Kept(n)
    BY <2>2 DEF Kept
  <2>5. Sound(m) => Sound(n)
    BY <2>2 DEF Sound, FreeUncounted, Covers, Exclusive, Ptrs
  <2> QED BY <1>2, <1>3, <2>2, <2>3, <2>4, <2>5 DEF Good
<1>4. CASE m.free /= <<>>
  <2>1. Grown(m, n, DirLoc(a))
    BY <1>1, <1>2, <1>4, SetupEffect
  <2>2. Head(m.free) \in Frame /\ Head(m.free) /= Nil
        /\ n.word = [m.word EXCEPT ![DirLoc(a)] = Head(m.free)] /\ n.free = Tail(m.free)
    BY <1>1, <1>4, <2>1, Fields, NilAssumption DEF Grown
  <2>3. Walks(n)
    BY <1>1, <2>2, WalksSet, StackAssumption
  <2>4. Good(n)
    BY <1>1, <2>1, <2>3, GoodGrown
  <2>5. n.word[DirLoc(a)] /= Nil
    BY <1>1, <2>2, Fields
  <2> QED BY <1>2, <1>4, <2>2, <2>4, <2>5
<1> QED BY <1>3, <1>4

\* The second pp_ref++ of env_create_priority.
LEMMA GoodCountUp ==
    ASSUME NEW m, Good(m), NEW f, InUse(m, f)
    PROVE  Good(CountUp(m, f)) /\ SameDirs(m, CountUp(m, f)) /\ InUse(CountUp(m, f), f)
<1>1. Typed(m) /\ Walks(m) /\ f \in Frame
  BY DEF Good, InUse
<1>2. PICK n : n = CountUp(m, f)
  OBVIOUS
<1>3. /\ Typed(n) /\ n.free = m.free /\ n.word = m.word
      /\ n.ref = [m.ref EXCEPT ![f] = IF @ = RefMod - 1 THEN 0 ELSE @ + 1]
      /\ n.wrapped = (m.wrapped \/ m.ref[f] = RefMod - 1)
  BY <1>1, <1>2, CountUpEffect
<1>4. Walks(n) /\ SameDirs(m, n) /\ InUse(n, f)
  BY <1>1, <1>3, WalksSame DEF SameDirs, InUse
<1>5. CASE PagesAboveRAM
  <2>1. Kept(m) /\ Sound(m) /\ f >= FirstFree
    BY <1>5 DEF Good, InUse
  <2>2. Kept(n)
    <3>1. \A g \in Frame : g < FirstFree => n.ref[g] = m.ref[g]
      BY <1>1, <1>3, <2>1, Fields, Sizes
    <3>2. n.free = m.free /\ n.word = m.word
      BY <1>3
    <3> QED BY ONLY <1>1, <2>1, <3>1, <3>2, KeptStep
  <2>3. Sound(n)
    <3> SUFFICES ASSUME ~n.wrapped
                 PROVE  Once(n.free) /\ FreeUncounted(n) /\ Covers(n) /\ Exclusive(n)
      BY DEF Sound
    <3>1. ~m.wrapped /\ m.ref[f] /= RefMod - 1
      BY <1>3
    <3>2. Once(m.free) /\ FreeUncounted(m) /\ Covers(m) /\ Exclusive(m)
      BY <2>1, <3>1 DEF Sound
    <3>3. \A g \in Frame : n.ref[g] = IF g = f THEN m.ref[g] + 1 ELSE m.ref[g]
      BY <1>1, <1>3, <3>1, Fields
    <3>4. \A g : Ptrs(n, g) = Ptrs(m, g)
      BY <1>3 DEF Ptrs
    <3>5. f \notin Elements(m.free) /\ \A k \in TableLocs : m.word[k] /= f
      BY <1>5, <3>1 DEF InUse
    <3>6. FreeUncounted(n)
      <4> SUFFICES ASSUME NEW g \in Elements(m.free) PROVE n.ref[g] = 0
        BY <1>3 DEF FreeUncounted
      <4>1. g \in Frame /\ m.ref[g] = 0 /\ g /= f
        BY <1>1, <3>2, <3>5, FreeUnused
      <4> QED BY <4>1, <3>3
    <3>7. Covers(n)
      <4> SUFFICES ASSUME NEW g \in Frame PROVE Cardinality(Ptrs(m, g)) <= n.ref[g]
        BY <3>4 DEF Covers
      <4>1. Cardinality(Ptrs(m, g)) <= m.ref[g] /\ Cardinality(Ptrs(m, g)) \in Nat /\ m.ref[g] \in Nat
        BY <1>1, <3>2, PointersFinite, Fields DEF Covers
      <4> QED BY <4>1, <3>3
    <3>8. Exclusive(n)
      BY <1>3, <3>2, <3>3, <3>4, <3>5 DEF Exclusive
    <3> QED BY <1>3, <3>2, <3>6, <3>7, <3>8
  <2> QED BY <1>2, <1>3, <1>4, <2>2, <2>3 DEF Good
<1>6. CASE ~PagesAboveRAM
  BY <1>2, <1>3, <1>4, <1>6 DEF Good
<1> QED BY <1>5, <1>6

\* page_alloc with a page to give.
LEMMA GoodPageAlloc ==
    ASSUME NEW m, Good(m), PageAlloc(m).page /= Nil
    PROVE  LET r == PageAlloc(m)
           IN  Good(r.mem) /\ SameDirs(m, r.mem) /\ InUse(r.mem, r.page)
<1>1. Typed(m)
  BY DEF Good
<1>2. PICK k, f : k = PageAlloc(m).mem /\ f = PageAlloc(m).page
  OBVIOUS
<1>3. /\ m.free /= <<>> /\ f = Head(m.free) /\ Typed(k) /\ k.free = Tail(m.free)
      /\ k.ref = m.ref /\ k.word = m.word /\ k.wrapped = m.wrapped
  BY <1>1, <1>2, AllocEffect
<1>4. Good(k) /\ SameDirs(m, k) /\ InUse(k, f)
  BY <1>3, GoodAlloc
<1> QED BY <1>2, <1>4

\* Memory is plentiful at boot.
LEMMA TwoLeft ==
    ASSUME NEW m, Typed(m), Len(m.free) >= 4
    PROVE  m.free /= <<>> /\ Tail(m.free) /= <<>>
<1>1. PICK q \in Seq(Frame) : q = m.free
  BY Fields
<1>2. Len(q) >= 4 /\ q /= <<>>
  BY <1>1
<1>3. Len(Tail(q)) = Len(q) - 1
  BY <1>2
<1>4. Tail(q) /= <<>>
  <2>1. Len(q) \in Nat
    OBVIOUS
  <2>2. Len(Tail(q)) /= 0
    BY <1>2, <1>3, <2>1
  <2>3. Len(<<>>) = 0
    OBVIOUS
  <2> QED BY <2>2, <2>3, Zenon
<1> QED BY <1>1, <1>2, <1>4

\* env_create_priority.
LEMMA GoodCreate ==
    ASSUME NEW m, Good(m), NEW a \in Envs, m.word[DirLoc(a)] = Nil, Len(m.free) >= 4
    PROVE  Good(CreateEnv(m, a))
<1>1. Typed(m)
  BY DEF Good
<1>2. PICK e : e = EnvSetupVm(m, a)
  OBVIOUS
<1>3. m.free /= <<>> /\ Tail(m.free) /= <<>>
  BY <1>1, TwoLeft
<1>4. Good(e) /\ e.word[DirLoc(a)] /= Nil /\ e.free /= <<>>
  BY <1>2, <1>3, GoodSetup
<1>5. PICK k, f : k = PageAlloc(e).mem /\ f = PageAlloc(e).page
  OBVIOUS
<1>6. f /= Nil
  BY <1>4, <1>5, AllocEffect DEF Good
<1>7. Good(k) /\ SameDirs(e, k) /\ InUse(k, f)
  BY <1>4, <1>5, <1>6, GoodPageAlloc
<1>8. PICK c : c = CountUp(k, f)
  OBVIOUS
<1>9. Good(c) /\ SameDirs(k, c) /\ InUse(c, f)
  BY <1>7, <1>8, GoodCountUp
<1>10. c.word[DirLoc(a)] /= Nil
  BY <1>4, <1>7, <1>9 DEF SameDirs
<1>11. Good(PageInsert(c, a, f, STACK).mem)
  BY <1>9, <1>10, GoodInsert, StackAssumption
<1> QED BY <1>2, <1>5, <1>8, <1>11 DEF CreateEnv

\* The results of the loop of sys_env_alloc.
Copy == [mem : MemRec, ret : {"ok", "no_mem"}]

\* c holds the first k results of the loop from e, first first.
Copying(c, e, a, n, k) ==
    c = [j \in 0..k |-> IF j = 0 THEN [mem |-> e, ret |-> "ok"]
                        ELSE CopyPage(c[j - 1], a, STACK - n + j)]

\* The loop can be run k rounds.
LEMMA CopyingRuns ==
    ASSUME NEW e, NEW a, NEW n
    PROVE  \A k \in Nat : \E c : Copying(c, e, a, n, k)
<1> DEFINE S == {k \in Nat : \E c : Copying(c, e, a, n, k)}
<1>1. 0 \in S
  <2> DEFINE c == [j \in 0..0 |-> [mem |-> e, ret |-> "ok"]]
  <2>1. c = [j \in 0..0 |-> IF j = 0 THEN [mem |-> e, ret |-> "ok"]
                            ELSE CopyPage(c[j - 1], a, STACK - n + j)]
    OBVIOUS
  <2>2. Copying(c, e, a, n, 0)
    BY <2>1 DEF Copying
  <2> QED BY <2>2
<1>2. ASSUME NEW k \in Nat, k \in S PROVE k + 1 \in S
  <2>1. PICK c : Copying(c, e, a, n, k)
    BY <1>2
  <2> DEFINE d == [j \in 0..(k + 1) |-> IF j <= k THEN c[j]
                                        ELSE CopyPage(c[k], a, STACK - n + (k + 1))]
             next(j) == IF j = 0 THEN [mem |-> e, ret |-> "ok"]
                        ELSE CopyPage(d[j - 1], a, STACK - n + j)
  <2>2. ASSUME NEW j \in 0..(k + 1) PROVE d[j] = next(j)
    <3>1. CASE j = k + 1
      <4>1. j /= 0 /\ j - 1 = k /\ k \in 0..(k + 1) /\ ~(j <= k)
        BY <1>2, <3>1
      <4>2. d[j - 1] = c[k]
        BY <4>1, <1>2
      <4> QED BY <3>1, <4>1, <4>2
    <3>2. CASE j /= k + 1
      <4>1. j \in 0..k /\ d[j] = c[j]
        BY <1>2, <3>2
      <4>2. c[j] = IF j = 0 THEN [mem |-> e, ret |-> "ok"] ELSE CopyPage(c[j - 1], a, STACK - n + j)
        BY <2>1, <4>1 DEF Copying
      <4>3. j /= 0 => j - 1 \in 0..(k + 1) /\ j - 1 <= k
        BY <4>1, <1>2
      <4>4. j /= 0 => d[j - 1] = c[j - 1]
        BY <4>3
      <4> QED BY <4>1, <4>2, <4>4
    <3> QED BY <3>1, <3>2
  <2>3. d = [j \in 0..(k + 1) |-> next(j)]
    BY <2>2
  <2>4. Copying(d, e, a, n, k + 1)
    BY <2>3 DEF Copying
  <2> QED BY <2>4, <1>2
<1>3. Nat \subseteq S
  <2> HIDE DEF S
  <2> QED BY <1>1, <1>2, Induct
<1> QED BY <1>3

\* What one round keeps, the loop keeps: S is a set of results.
LEMMA CopiesStay ==
    ASSUME NEW e, NEW a, NEW n \in Nat, NEW c, Copying(c, e, a, n, n), STACK \in Nat,
           NEW S, [mem |-> e, ret |-> "ok"] \in S,
           \A r \in S : \A v \in StackPages(n) : CopyPage(r, a, v) \in S
    PROVE  c[n] \in S
<1> DEFINE K == {k \in Nat : k <= n => c[k] \in S}
<1>1. /\ 0 \in 0..n => c[0] = [mem |-> e, ret |-> "ok"]
      /\ \A k \in 0..n : k /= 0 => c[k] = CopyPage(c[k - 1], a, STACK - n + k)
  BY DEF Copying
<1>2. 0 \in K
  BY <1>1
<1>3. ASSUME NEW k \in Nat, k \in K PROVE k + 1 \in K
  <2> SUFFICES ASSUME k + 1 <= n PROVE c[k + 1] \in S
    OBVIOUS
  <2>1. c[k] \in S /\ k + 1 \in 0..n /\ k + 1 /= 0 /\ (k + 1) - 1 = k
    BY <1>3
  <2>2. STACK - n + (k + 1) \in StackPages(n)
    BY <1>3 DEF StackPages
  <2>3. c[k + 1] = CopyPage(c[k], a, STACK - n + (k + 1))
    BY <1>1, <2>1
  <2> QED BY <2>1, <2>2, <2>3
<1>4. Nat \subseteq K
  <2> HIDE DEF K
  <2> QED BY <1>2, <1>3, Induct
<1>5. n \in K /\ n <= n
  BY <1>4
<1> QED BY <1>5

\* sys_env_alloc ends with a panic in env_setup_vm or with a result of its loop.
LEMMA ForkRuns ==
    ASSUME NEW m, NEW a, NEW n \in Nat, NEW e, e = EnvSetupVm(m, a)
    PROVE  /\ e.panic => ForkEnv(m, a, n) = [mem |-> e, ret |-> "panic"]
           /\ ~e.panic => \E c : Copying(c, e, a, n, n) /\ ForkEnv(m, a, n) = c[n]
<1> DEFINE c == CHOOSE c : c = [j \in 0..n |-> IF j = 0 THEN [mem |-> e, ret |-> "ok"]
                                             ELSE CopyPage(c[j - 1], a, STACK - n + j)]
<1>1. ForkEnv(m, a, n) = IF e.panic THEN [mem |-> e, ret |-> "panic"] ELSE c[n]
  BY DEF ForkEnv
<1>2. \E d : Copying(d, e, a, n, n)
  BY CopyingRuns
<1>3. Copying(c, e, a, n, n)
  BY <1>2 DEF Copying
<1> HIDE DEF c
<1> QED BY <1>1, <1>3

\* Induction over the pages sys_env_alloc copies.
LEMMA ForkKeeps ==
    ASSUME NEW m, NEW a, NEW n \in Nat, NEW e, e = EnvSetupVm(m, a), ~e.panic, STACK \in Nat,
           NEW S, [mem |-> e, ret |-> "ok"] \in S,
           \A r \in S : \A v \in StackPages(n) : CopyPage(r, a, v) \in S
    PROVE  ForkEnv(m, a, n) \in S
<1>1. PICK c : Copying(c, e, a, n, n) /\ ForkEnv(m, a, n) = c[n]
  BY ForkRuns
<1> QED BY <1>1, CopiesStay

\* One round does nothing, or runs out of frames, or copies a page.
LEMMA CopySteps ==
    ASSUME NEW r \in Copy, Typed(r.mem), NEW a, NEW v, NEW q, q = CopyPage(r, a, v)
    PROVE  \/ q \in Copy /\ q.mem = r.mem
           \/ \E k, f : /\ r.mem.free /= <<>>
                        /\ k = PageAlloc(r.mem).mem /\ f = PageAlloc(r.mem).page /\ f /= Nil
                        /\ q = [mem |-> PageInsert(k, a, f, v).mem, ret |-> "ok"]
<1>1. PICK k, f : k = PageAlloc(r.mem).mem /\ f = PageAlloc(r.mem).page
  OBVIOUS
<1>2. PICK x, y : x = r.mem /\ y = r.ret
  OBVIOUS
<1>3. r = [mem |-> x, ret |-> y] /\ x \in MemRec /\ y \in {"ok", "no_mem"}
  BY <1>2 DEF Copy
<1>4. CASE y /= "ok" \/ x.panic
  BY <1>2, <1>3, <1>4 DEF CopyPage
<1>5. CASE ~(y /= "ok" \/ x.panic) /\ f = Nil
  <2>1. q = [r EXCEPT !.ret = "no_mem"]
    BY <1>1, <1>2, <1>5 DEF CopyPage
  <2>2. q = [mem |-> x, ret |-> "no_mem"]
    BY <1>3, <2>1
  <2> QED BY <1>2, <1>3, <2>2 DEF Copy
<1>6. CASE ~(y /= "ok" \/ x.panic) /\ f /= Nil
  <2>1. q = [r EXCEPT !.mem = PageInsert(k, a, f, v).mem]
    BY <1>1, <1>2, <1>6 DEF CopyPage
  <2>2. q = [mem |-> PageInsert(k, a, f, v).mem, ret |-> "ok"]
    BY <1>3, <1>6, <2>1
  <2>3. r.mem.free /= <<>>
    BY <1>1, <1>6, AllocEffect
  <2> QED BY <1>1, <1>6, <2>2, <2>3
<1> QED BY <1>4, <1>5, <1>6

\* The pages a fork copies are private, as the caller's stack is.
PrivatePages(P) == \A v \in P : v \in UserVPN /\ PudOf(v) \notin SharedPuds

\* The results of sys_env_alloc after env_setup_vm has left e.
GoodCopies(e) == {r \in Copy : Good(r.mem) /\ SameDirs(e, r.mem)}

\* The copy of one page.
LEMMA GoodCopy ==
    ASSUME NEW e, NEW a \in Envs, e.word[DirLoc(a)] /= Nil, NEW r \in GoodCopies(e),
           NEW v \in UserVPN
    PROVE  CopyPage(r, a, v) \in GoodCopies(e)
<1>1. r \in Copy /\ Good(r.mem) /\ SameDirs(e, r.mem) /\ Typed(r.mem)
  BY DEF GoodCopies, Good
<1>2. PICK q : q = CopyPage(r, a, v)
  OBVIOUS
<1>3. CASE q \in Copy /\ q.mem = r.mem
  BY <1>1, <1>2, <1>3 DEF GoodCopies
<1>4. ASSUME NEW k, NEW f, r.mem.free /= <<>>,
             k = PageAlloc(r.mem).mem, f = PageAlloc(r.mem).page, f /= Nil,
             q = [mem |-> PageInsert(k, a, f, v).mem, ret |-> "ok"]
      PROVE  q \in GoodCopies(e)
  <2>1. Good(k) /\ SameDirs(r.mem, k) /\ InUse(k, f)
    BY <1>1, <1>4, GoodPageAlloc
  <2>2. k.word[DirLoc(a)] /= Nil
    BY <1>1, <2>1 DEF SameDirs
  <2>3. PICK n : n = PageInsert(k, a, f, v).mem
    OBVIOUS
  <2>4. Good(n) /\ SameDirs(k, n)
    BY <2>1, <2>2, <2>3, GoodInsert
  <2>5. n \in MemRec
    BY <2>4 DEF Good, Typed
  <2>6. q \in Copy /\ q.mem = n
    BY <1>4, <2>3, <2>5 DEF Copy
  <2> QED BY <1>1, <2>1, <2>4, <2>6 DEF GoodCopies, SameDirs
<1>5. (q \in Copy /\ q.mem = r.mem) \/
      \E k, f : /\ r.mem.free /= <<>>
                /\ k = PageAlloc(r.mem).mem /\ f = PageAlloc(r.mem).page /\ f /= Nil
                /\ q = [mem |-> PageInsert(k, a, f, v).mem, ret |-> "ok"]
  BY <1>1, <1>2, CopySteps
<1> QED BY <1>2, <1>3, <1>4, <1>5

\* env_setup_vm as the loop of sys_env_alloc finds it.
LEMMA ForkStarts ==
    ASSUME NEW m, Good(m), NEW a \in Envs, m.word[DirLoc(a)] = Nil,
           NEW e, e = EnvSetupVm(m, a), ~e.panic
    PROVE  /\ Good(e) /\ m.free /= <<>> /\ e.word[DirLoc(a)] /= Nil
           /\ [mem |-> e, ret |-> "ok"] \in GoodCopies(e)
<1>1. Good(e) /\ (m.free = <<>> => e.panic = TRUE)
      /\ (m.free /= <<>> => e.word[DirLoc(a)] /= Nil)
  BY GoodSetup
<1>2. PICK r : r = [mem |-> e, ret |-> "ok"]
  OBVIOUS
<1>3. r \in Copy /\ r.mem = e
  BY <1>1, <1>2 DEF Copy, Good, Typed
<1> QED BY <1>1, <1>2, <1>3 DEF GoodCopies, SameDirs

\* sys_env_alloc.
LEMMA GoodFork ==
    ASSUME NEW m, Good(m), NEW a \in Envs, m.word[DirLoc(a)] = Nil,
           NEW n \in Nat, StackPages(n) \subseteq UserVPN
    PROVE  Good(ForkEnv(m, a, n).mem)
<1>1. PICK e : e = EnvSetupVm(m, a)
  OBVIOUS
<1>2. Good(e)
  BY <1>1, GoodSetup
<1>3. CASE e.panic
  BY <1>1, <1>2, <1>3, ForkRuns
<1>4. CASE ~e.panic
  <2>1. ForkEnv(m, a, n) \in GoodCopies(e)
    <3>1. e.word[DirLoc(a)] /= Nil /\ [mem |-> e, ret |-> "ok"] \in GoodCopies(e)
      BY <1>1, <1>4, ForkStarts
    <3>2. \A r \in GoodCopies(e) : \A v \in StackPages(n) : CopyPage(r, a, v) \in GoodCopies(e)
      BY <3>1, GoodCopy
    <3>3. STACK \in Nat
      BY StackAssumption, Sizes
    <3> QED BY <1>1, <1>4, <3>1, <3>2, <3>3, ForkKeeps
  <2> QED BY <2>1 DEF GoodCopies
<1> QED BY <1>3, <1>4

\* A round that copies a page: the frame f is taken, which leaves k.
Copies(r, q, a, v, k, f) ==
    /\ Good(r.mem) /\ r.mem.free /= <<>> /\ f = Head(r.mem.free) /\ f \in Frame
    /\ Good(k) /\ SameDirs(r.mem, k) /\ InUse(k, f) /\ k.word[DirLoc(a)] /= Nil
    /\ k.free = Tail(r.mem.free) /\ k.word = r.mem.word /\ k.ref = r.mem.ref
    /\ k.wrapped = r.mem.wrapped
    /\ q.mem = PageInsert(k, a, f, v).mem

\* A round changes nothing in memory or copies a page.
LEMMA CopyCases ==
    ASSUME NEW e, NEW a \in Envs, e.word[DirLoc(a)] /= Nil, NEW r \in GoodCopies(e),
           NEW v \in UserVPN, NEW q, q = CopyPage(r, a, v)
    PROVE  /\ q \in GoodCopies(e)
           /\ q.mem = r.mem \/ \E k, f : Copies(r, q, a, v, k, f)
<1>1. r \in Copy /\ Good(r.mem) /\ SameDirs(e, r.mem) /\ Typed(r.mem)
  BY DEF GoodCopies, Good
<1>2. q \in GoodCopies(e)
  BY GoodCopy
<1>3. ASSUME NEW k, NEW f, r.mem.free /= <<>>,
             k = PageAlloc(r.mem).mem, f = PageAlloc(r.mem).page, f /= Nil,
             q = [mem |-> PageInsert(k, a, f, v).mem, ret |-> "ok"]
      PROVE  Copies(r, q, a, v, k, f)
  <2>1. Good(k) /\ SameDirs(r.mem, k) /\ InUse(k, f)
    BY <1>1, <1>3, GoodPageAlloc
  <2>2. /\ f = Head(r.mem.free) /\ k.free = Tail(r.mem.free) /\ k.word = r.mem.word
        /\ k.ref = r.mem.ref /\ k.wrapped = r.mem.wrapped
    BY <1>1, <1>3, AllocEffect
  <2>3. f \in Frame
    BY <2>1 DEF InUse
  <2>4. k.word[DirLoc(a)] /= Nil
    BY <1>1, <2>1 DEF SameDirs
  <2>5. q.mem = PageInsert(k, a, f, v).mem
    BY <1>3
  <2> QED BY <1>1, <1>3, <2>1, <2>2, <2>3, <2>4, <2>5 DEF Copies
<1>4. (q \in Copy /\ q.mem = r.mem) \/
      \E k, f : /\ r.mem.free /= <<>>
                /\ k = PageAlloc(r.mem).mem /\ f = PageAlloc(r.mem).page /\ f /= Nil
                /\ q = [mem |-> PageInsert(k, a, f, v).mem, ret |-> "ok"]
  BY <1>1, CopySteps
<1> QED BY <1>2, <1>3, <1>4

\* What sys_env_alloc ends with, when a round keeps S.
LEMMA ForkIn ==
    ASSUME NEW m, Good(m), NEW a \in Envs, m.word[DirLoc(a)] = Nil,
           NEW n \in Nat, StackPages(n) \subseteq UserVPN,
           NEW e, e = EnvSetupVm(m, a), ~e.panic,
           NEW S, [mem |-> e, ret |-> "ok"] \in S,
           \A r \in S \intersect GoodCopies(e) : \A v \in StackPages(n) : CopyPage(r, a, v) \in S
    PROVE  ForkEnv(m, a, n) \in S /\ ForkEnv(m, a, n) \in GoodCopies(e)
<1>1. e.word[DirLoc(a)] /= Nil /\ [mem |-> e, ret |-> "ok"] \in GoodCopies(e)
  BY ForkStarts
<1>2. PICK T : T = S \intersect GoodCopies(e)
  OBVIOUS
<1>3. [mem |-> e, ret |-> "ok"] \in T
  BY <1>1, <1>2
<1>4. \A r \in T : \A v \in StackPages(n) : CopyPage(r, a, v) \in T
  BY <1>1, <1>2, GoodCopy
<1>5. STACK \in Nat
  BY StackAssumption, Sizes
<1>6. ForkEnv(m, a, n) \in T
  BY <1>3, <1>4, <1>5, ForkKeeps
<1> QED BY <1>2, <1>6

\* sys_mem_alloc.
LEMMA GoodMemAlloc ==
    ASSUME NEW m, Good(m), NEW t, t = BadEnv \/ (t \in Envs /\ m.word[DirLoc(t)] /= Nil),
           NEW v \in UserVPN, NEW perm \in BOOLEAN
    PROVE  Good(MemAlloc(m, t, v, perm).mem)
<1>1. PICK k, f : k = PageAlloc(m).mem /\ f = PageAlloc(m).page
  OBVIOUS
<1>2. CASE ~perm \/ f = Nil
  BY <1>1, <1>2 DEF MemAlloc
<1>3. CASE perm /\ f /= Nil /\ t = BadEnv
  BY <1>1, <1>3, GoodPageAlloc DEF MemAlloc
<1>4. CASE perm /\ f /= Nil /\ t /= BadEnv
  <2>1. Good(k) /\ SameDirs(m, k) /\ InUse(k, f)
    BY <1>1, <1>4, GoodPageAlloc
  <2>2. Good(PageInsert(k, t, f, v).mem)
    BY <1>4, <2>1, GoodInsert DEF SameDirs
  <2> QED BY <1>1, <1>4, <2>2 DEF MemAlloc
<1> QED BY <1>2, <1>3, <1>4

\* A page some environment has mapped is no table, and not free.
LEMMA MappedInUse ==
    ASSUME NEW m, Good(m), NEW a \in Envs, NEW v \in UserVPN, PageLookup(m, a, v) /= Nil
    PROVE  InUse(m, PageLookup(m, a, v))
<1>1. PICK f, l : f = PageLookup(m, a, v) /\ l = PteLoc(a, v)
  OBVIOUS
<1>2. Typed(m) /\ f \in Frame /\ f = m.word[l] /\ l \notin TableLocs
  BY <1>1, LookupEntry, EntriesInLoc DEF Good
<1>3. CASE PagesAboveRAM
  <2>1. l \in CountedLoc /\ Kept(m) /\ Sound(m)
    BY <1>1, <1>3, UserEntryCounted DEF Good
  <2>2. f >= FirstFree
    BY <1>2, <2>1, Sizes DEF Kept
  <2>3. l \in Ptrs(m, f)
    BY <1>2, <2>1 DEF Ptrs
  <2>4. ASSUME ~m.wrapped PROVE f \notin Elements(m.free) /\ \A k \in TableLocs : m.word[k] /= f
    <3>1. FreeUncounted(m) /\ Covers(m) /\ Exclusive(m)
      BY <2>1, <2>4 DEF Sound
    <3>2. f \notin Elements(m.free)
      BY <1>2, <2>3, <3>1, FreeUnused
    <3>3. \A k \in TableLocs : m.word[k] /= f
      BY <1>2, <2>3, <3>1 DEF Exclusive
    <3> QED BY <3>2, <3>3
  <2> QED BY <1>1, <1>2, <2>2, <2>4 DEF InUse
<1>4. CASE ~PagesAboveRAM
  BY <1>1, <1>2, <1>4 DEF InUse
<1> QED BY <1>3, <1>4

\* sys_mem_map.
LEMMA GoodMemMap ==
    ASSUME NEW m, Good(m), NEW s \in Envs \union {BadEnv},
           NEW d, d = BadEnv \/ (d \in Envs /\ m.word[DirLoc(d)] /= Nil),
           NEW sv \in UserVPN, NEW dv \in UserVPN, NEW perm \in BOOLEAN
    PROVE  Good(MemMap(m, s, sv, d, dv, perm).mem)
<1>1. PICK f : f = PageLookup(m, s, sv)
  OBVIOUS
<1>2. CASE BadEnv \in {s, d} \/ ~perm \/ f = Nil
  BY <1>1, <1>2 DEF MemMap
<1>3. CASE ~(BadEnv \in {s, d} \/ ~perm \/ f = Nil)
  <2>1. InUse(m, f)
    BY <1>1, <1>3, MappedInUse
  <2>2. Good(PageInsert(m, d, f, dv).mem)
    BY <1>3, <2>1, GoodInsert
  <2> QED BY <1>1, <1>3, <2>2 DEF MemMap
<1> QED BY <1>2, <1>3

\* sys_mem_unmap.
LEMMA GoodMemUnmap ==
    ASSUME NEW m, Good(m), NEW t \in Envs \union {BadEnv}, NEW v \in UserVPN
    PROVE  Good(MemUnmap(m, t, v).mem)
BY GoodRemove DEF MemUnmap

-----------------------------------------------------------------------------
(* env_free.                                                               *)

\* The tables env_free visits belong to the environment alone: it starts above the
\* directory entries all environments share.
LEMMA VisitedAreOwn ==
    ASSUME NEW m, NEW a \in Envs, NEW l \in FreedTables(m, a)
    PROVE  /\ l \in TableLocs /\ l[2] = a /\ m.word[l] \in Frame
           /\ l \in PudLocs \union PmdLocs
<1>1. /\ l \in PudLocs \union PmdLocs /\ l[2] \in {a, Kernel} /\ m.word[l] \in Frame
      /\ FreePud <= IF l[1] = "pud" THEN l[3] ELSE l[3] \div PMDS
  BY DEF FreedTables, VisitedTables
<1>2. ASSUME NEW b \in Envs, NEW v \in VPN, PudOf(v) >= FreePud PROVE Space(b, v) = b
  BY <1>2, PudOfPmd, Sizes DEF Space, SharedPuds, FreePud
<1>3. CASE l \in PudLocs
  <2>1. PICK b \in Envs, v \in VPN : l = PudLoc(b, v)
    BY <1>3 DEF PudLocs
  <2>2. l[1] = "pud" /\ l[2] = Space(b, v) /\ l[3] = PudOf(v)
    BY <2>1 DEF PudLoc
  <2>3. l[2] = b
    BY <1>1, <1>2, <2>2, PudOfPmd, Sizes DEF FreePud
  <2> QED BY <1>1, <1>3, <2>3, EnvsAssumption DEF TableLocs
<1>4. CASE l \in PmdLocs
  <2>1. PICK b \in Envs, v \in VPN : l = PmdLoc(b, v)
    BY <1>4 DEF PmdLocs
  <2>2. l[1] = "pmd" /\ l[2] = Space(b, v) /\ l[3] = PmdOf(v)
    BY <2>1 DEF PmdLoc
  <2>3. PudOf(v) = l[3] \div PMDS
    BY <2>2, PudOfPmd, Sizes
  <2>4. PudOf(v) >= FreePud
    BY <1>1, <2>2, <2>3, PudOfPmd, Sizes DEF FreePud
  <2>5. l[2] = b
    BY <1>2, <2>2, <2>4
  <2> QED BY <1>1, <1>4, <2>5, EnvsAssumption DEF TableLocs
<1> QED BY <1>1, <1>3, <1>4

\* A release order names frames that page_remove frees, none of them twice.
LEMMA ReleaseOnce ==
    ASSUME NEW m, NEW a \in Envs, NEW T, T = FreedTables(m, a), NEW s \in ReleaseOrders(m, T)
    PROVE  /\ s \in Seq(Frame) /\ Once(s) /\ Elements(s) \subseteq Released(m, T)
           /\ Removed(m, T) \subseteq Frame
<1> DEFINE R == Released(m, T)
           n == Cardinality(R)
<1>1. Removed(m, T) \subseteq Frame /\ R \subseteq Frame
  BY VisitedAreOwn DEF Removed, Released
<1>2. IsFiniteSet(R) /\ n \in Nat
  <2>1. IsFiniteSet(Frame)
    BY FS_Interval, Sizes DEF Frame
  <2> QED BY <1>1, <2>1, FS_Subset, FS_CardinalityType
<1>3. /\ s \in [1..n -> R]
      /\ \A i, j \in 1..n : i < j => VisitedBefore(m, T, s[j], s[i])
  BY DEF ReleaseOrders
<1> HIDE DEF n, R
<1>4. s \in Seq(Frame) /\ DOMAIN s = 1..n
  BY <1>1, <1>2, <1>3
<1>5. Elements(s) \subseteq R
  BY <1>3 DEF Elements
<1>6. \A l \in T : Visit(l) \in Int
  <2> SUFFICES ASSUME NEW l \in T PROVE Visit(l) \in Int
    OBVIOUS
  <2>1. l[3] \in Nat
    <3>1. CASE l \in PudLocs
      BY <3>1, PudOfPmd, Sizes DEF PudLocs, PudLoc
    <3>2. CASE l \in PmdLocs
      BY <3>2, PudOfPmd, Sizes DEF PmdLocs, PmdLoc
    <3> QED BY <3>1, <3>2, VisitedAreOwn
  <2>2. PICK i \in Nat : i = l[3]
    BY <2>1
  <2>3. i \div PMDS \in Nat /\ i % PMDS \in Nat
    BY Division, Sizes
  <2>4. i * (PMDS + 1) + PMDS \in Int
    BY Sizes
  <2>5. (i \div PMDS) * (PMDS + 1) + (i % PMDS) \in Int
    BY <2>3, Sizes
  <2> QED BY <2>2, <2>4, <2>5 DEF Visit
<1>7. ASSUME NEW f \in R PROVE ~VisitedBefore(m, T, f, f)
  <2> SUFFICES ASSUME VisitedBefore(m, T, f, f) PROVE FALSE
    OBVIOUS
  <2>1. PICK l \in T : Visit(l) < Visit(l)
    BY DEF VisitedBefore
  <2> QED BY <2>1, <1>6
<1>8. Once(s)
  <2> SUFFICES ASSUME NEW i \in 1..n, NEW j \in 1..n, s[i] = s[j], i /= j PROVE FALSE
    BY <1>4 DEF Once
  <2>1. CASE i < j
    BY <2>1, <1>3, <1>7
  <2>2. CASE j < i
    BY <2>2, <1>3, <1>7
  <2> QED BY <2>1, <2>2, <1>2
<1> QED BY <1>1, <1>4, <1>5, <1>8 DEF R

\* The fields env_free writes.
LEMMA FreeEffect ==
    ASSUME NEW m, Typed(m), NEW a \in Envs, NEW T, T = FreedTables(m, a),
           NEW s \in ReleaseOrders(m, T), NEW n, n = EnvFree(m, a, T, s)
    PROVE  /\ Typed(n) /\ n.free = s \o m.free /\ n.wrapped = m.wrapped /\ n.panic = m.panic
           /\ \A f \in Frame : n.ref[f] = IF f \in Removed(m, T) THEN Less(m, f) ELSE m.ref[f]
           /\ \A l \in Loc : n.word[l] = IF l[2] = a \/ (\E f \in Removed(m, T) : l = IdLoc(f))
                                       THEN Nil ELSE m.word[l]
<1> DEFINE ref == [f \in Frame |-> IF f \in Removed(m, T) THEN Less(m, f) ELSE m.ref[f]]
           word == [l \in Loc |-> IF l[2] = a \/ l \in {IdLoc(f) : f \in Removed(m, T)}
                                  THEN Nil ELSE m.word[l]]
<1>1. n = [m EXCEPT !.free = s \o m.free, !.ref = ref, !.word = word]
  BY DEF EnvFree
<1>2. s \o m.free \in Seq(Frame)
  <2>1. s \in Seq(Frame) /\ m.free \in Seq(Frame)
    BY ReleaseOnce, Fields
  <2> QED BY <2>1
<1>3. ref \in [Frame -> 0..(RefMod - 1)]
  <2> SUFFICES ASSUME NEW f \in Frame
               PROVE  (IF f \in Removed(m, T) THEN Less(m, f) ELSE m.ref[f]) \in 0..(RefMod - 1)
    OBVIOUS
  <2>1. m.ref[f] \in Nat /\ m.ref[f] < RefMod /\ m.ref[f] \in 0..(RefMod - 1)
    BY Fields
  <2>2. Less(m, f) \in 0..(RefMod - 1)
    BY <2>1, Counting DEF Less
  <2> QED BY <2>1, <2>2
<1>4. word \in [Loc -> Frame \union {Nil, Boot}]
  BY Fields
<1> HIDE DEF ref, word
<1>5. n.free = s \o m.free /\ n.ref = ref /\ n.word = word
      /\ n.wrapped = m.wrapped /\ n.panic = m.panic
  BY <1>1 DEF Typed, MemRec
<1>6. n \in MemRec
  BY <1>1, <1>2, <1>3, <1>4 DEF Typed, MemRec
<1>7. \A l \in Loc : n.word[l] = IF l[2] = a \/ (\E f \in Removed(m, T) : l = IdLoc(f))
                                 THEN Nil ELSE m.word[l]
  BY <1>5 DEF word
<1>8. \A f \in Frame : n.ref[f] = IF f \in Removed(m, T) THEN Less(m, f) ELSE m.ref[f]
  BY <1>5 DEF ref
<1>9. \A l \in Loc : n.word[l] = Boot <=> l \in BootTables
  <2> SUFFICES ASSUME NEW l \in Loc PROVE n.word[l] = Boot <=> l \in BootTables
    OBVIOUS
  <2>1. m.word[l] = Boot <=> l \in BootTables
    BY Fields
  <2>2. l \in BootTables => l[2] /= a /\ ~ \E f \in Removed(m, T) : l = IdLoc(f)
    BY Levels, EnvsAssumption, ReleaseOnce, IdEntries
  <2> QED BY <2>1, <2>2, <1>7, NilAssumption
<1> QED BY <1>5, <1>6, <1>7, <1>8, <1>9 DEF Typed

\* env_free: the tables it gives back were pointed to by its own entries only.
LEMMA GoodFree ==
    ASSUME NEW m, Good(m), NEW a \in Envs, NEW T, T = FreedTables(m, a),
           NEW s \in ReleaseOrders(m, T)
    PROVE  Good(EnvFree(m, a, T, s))
<1> DEFINE D == Removed(m, T)
<1>1. PICK n : n = EnvFree(m, a, T, s)
  OBVIOUS
<1>2. Typed(m) /\ Walks(m)
  BY DEF Good
<1>3. /\ Typed(n) /\ n.free = s \o m.free /\ n.wrapped = m.wrapped
      /\ \A f \in Frame : n.ref[f] = IF f \in D THEN Less(m, f) ELSE m.ref[f]
      /\ \A l \in Loc : n.word[l] = IF l[2] = a \/ (\E f \in D : l = IdLoc(f))
                                  THEN Nil ELSE m.word[l]
  BY <1>1, <1>2, FreeEffect
<1>4. /\ s \in Seq(Frame) /\ Once(s) /\ Elements(s) \subseteq Released(m, T) /\ D \subseteq Frame
  BY ReleaseOnce
<1>5. \A l \in Loc : n.word[l] = m.word[l] \/ n.word[l] = Nil
  BY <1>3
<1>6. \A l \in TableLocs : l \in Loc /\ ~ \E f \in D : l = IdLoc(f)
  BY <1>4, EntriesInLoc, IdEntries
<1>7. Walks(n)
  <2> SUFFICES ASSUME NEW b \in Envs, NEW w \in UserVPN
               PROVE  /\ n.word[PteLoc(b, w)] /= Nil => n.word[PmdLoc(b, w)] /= Nil
                      /\ n.word[PmdLoc(b, w)] /= Nil => n.word[PudLoc(b, w)] /= Nil
                      /\ Space(b, w) = b /\ n.word[PudLoc(b, w)] /= Nil =>
                           n.word[DirLoc(b)] /= Nil
    BY DEF Walks
  <2>1. /\ m.word[PteLoc(b, w)] /= Nil => m.word[PmdLoc(b, w)] /= Nil
        /\ m.word[PmdLoc(b, w)] /= Nil => m.word[PudLoc(b, w)] /= Nil
        /\ Space(b, w) = b /\ m.word[PudLoc(b, w)] /= Nil => m.word[DirLoc(b)] /= Nil
    BY <1>2 DEF Walks
  <2>2. /\ PteLoc(b, w) \in Loc /\ PmdLoc(b, w) \in TableLocs /\ PudLoc(b, w) \in TableLocs
        /\ DirLoc(b) \in TableLocs
    BY EntriesInLoc
  <2>3. /\ PteLoc(b, w)[2] = Space(b, w) /\ PmdLoc(b, w)[2] = Space(b, w)
        /\ PudLoc(b, w)[2] = Space(b, w) /\ DirLoc(b)[2] = b
    BY DEF PteLoc, PmdLoc, PudLoc, DirLoc
  <2>4. CASE Space(b, w) = a
    <3>1. n.word[PteLoc(b, w)] = Nil /\ n.word[PmdLoc(b, w)] = Nil /\ n.word[PudLoc(b, w)] = Nil
      BY <2>2, <2>3, <2>4, <1>3, <1>6
    <3> QED BY <3>1
  <2>5. CASE Space(b, w) /= a
    <3>1. n.word[PmdLoc(b, w)] = m.word[PmdLoc(b, w)] /\ n.word[PudLoc(b, w)] = m.word[PudLoc(b, w)]
      BY <2>2, <2>3, <2>5, <1>3, <1>6
    <3>2. Space(b, w) = b => n.word[DirLoc(b)] = m.word[DirLoc(b)]
      BY <2>2, <2>3, <2>5, <1>3, <1>6
    <3>3. n.word[PteLoc(b, w)] /= Nil => m.word[PteLoc(b, w)] /= Nil
      BY <2>2, <1>5
    <3> QED BY <2>1, <3>1, <3>2, <3>3
  <2> QED BY <2>4, <2>5
<1>8. CASE PagesAboveRAM
  <2>1. Kept(m) /\ Sound(m)
    BY <1>8 DEF Good
  <2>2. \A f \in D : \E l \in T : l \in TableLocs /\ l[2] = a /\ m.word[l] = f
    BY VisitedAreOwn DEF Removed
  <2>3. Elements(s \o m.free) \subseteq Elements(s) \union Elements(m.free)
    <3>1. m.free \in Seq(Frame)
      BY <1>2, Fields
    <3>2. PICK q \in Seq(Frame) : q = m.free
      BY <3>1
    <3>3. ASSUME NEW i \in DOMAIN (s \o q)
          PROVE  (s \o q)[i] \in Elements(s) \union Elements(q)
      <4>1. CASE i <= Len(s)
        <5>1. i \in DOMAIN s /\ (s \o q)[i] = s[i]
          BY <1>4, <4>1
        <5> QED BY <5>1 DEF Elements
      <4>2. CASE i > Len(s)
        <5>1. i - Len(s) \in DOMAIN q /\ (s \o q)[i] = q[i - Len(s)]
          BY <1>4, <4>2
        <5> QED BY <5>1 DEF Elements
      <4>3. i \in Int /\ Len(s) \in Int
        BY <1>4
      <4> QED BY <4>1, <4>2, <4>3
    <3> QED BY <3>2, <3>3 DEF Elements
  <2>4. Kept(n)
    <3> SUFFICES ASSUME NEW g \in Frame, g < FirstFree
                 PROVE  /\ n.ref[g] = m.ref[g]
                        /\ g \in Elements(n.free) => g \in Elements(m.free)
                        /\ n.word[IdLoc(g)] = m.word[IdLoc(g)]
                        /\ \A k \in CountedLoc : n.word[k] = g => m.word[k] = g
      BY <1>2, <2>1, KeptStep
    <3>1. g \notin D
      BY <2>1, <2>2, EntriesInLoc DEF Kept
    <3>2. n.ref[g] = m.ref[g]
      BY <3>1, <1>3
    <3>3. g \in Elements(n.free) => g \in Elements(m.free)
      BY <3>1, <2>3, <1>3, <1>4 DEF Released
    <3>4. IdLoc(g) \in Loc /\ IdLoc(g)[2] = Kernel /\ Kernel /= a
          /\ ~ \E f \in D : IdLoc(g) = IdLoc(f)
      BY <3>1, <1>4, IdEntries, EnvsAssumption DEF IdLoc
    <3>5. n.word[IdLoc(g)] = m.word[IdLoc(g)]
      BY <3>4, <1>3
    <3>6. \A k \in CountedLoc : n.word[k] = g => m.word[k] = g
      BY <1>5, EntriesInLoc, NilAssumption
    <3> QED BY <3>2, <3>3, <3>5, <3>6
  <2>5. Sound(n)
    <3> SUFFICES ASSUME ~n.wrapped
                 PROVE  Once(n.free) /\ FreeUncounted(n) /\ Covers(n) /\ Exclusive(n)
      BY DEF Sound
    <3>1. Once(m.free) /\ FreeUncounted(m) /\ Covers(m) /\ Exclusive(m)
      BY <1>3, <2>1 DEF Sound
    <3>2. ASSUME NEW f \in D
          PROVE  /\ m.ref[f] = 1 /\ n.ref[f] = 0 /\ Ptrs(n, f) = {}
                 /\ \E l \in TableLocs : l[2] = a /\ Ptrs(m, f) = {l}
      <4>1. PICK l \in TableLocs : l[2] = a /\ m.word[l] = f
        BY <2>2
      <4>2. f \in Frame /\ Ptrs(m, f) = {l} /\ m.ref[f] = 1
        BY <4>1, <3>1, <1>4 DEF Exclusive
      <4>3. Less(m, f) = 0
        <5>1. (1 + RefMod - 1) % RefMod = 0
          BY Counting, Sizes
        <5> QED BY <5>1, <4>2 DEF Less
      <4>4. n.ref[f] = 0
        BY <4>2, <4>3, <1>3
      <4>5. n.word[l] = Nil
        BY <4>1, <1>3, EntriesInLoc
      <4>6. Ptrs(n, f) = {}
        BY <4>2, <4>5, <1>5, EntriesInLoc, NilAssumption DEF Ptrs
      <4> QED BY <4>1, <4>2, <4>4, <4>6
    <3>3. \A f \in Frame : Ptrs(n, f) \subseteq Ptrs(m, f)
      BY <1>5, EntriesInLoc, NilAssumption DEF Ptrs
    <3>4. Once(n.free) /\ Elements(n.free) = Elements(s) \union Elements(m.free)
      <4>1. m.free \in Seq(Frame)
        BY <1>2, Fields
      <4>2. Elements(s) \cap Elements(m.free) = {}
        BY <3>1, <1>4 DEF FreeUncounted, Released
      <4> QED BY <4>1, <4>2, <3>1, <1>3, <1>4, PushAll
    <3>5. FreeUncounted(n)
      <4> SUFFICES ASSUME NEW f \in Elements(n.free) PROVE n.ref[f] = 0
        BY DEF FreeUncounted
      <4>1. CASE f \in D
        BY <4>1, <3>2
      <4>2. CASE f \notin D
        <5>1. f \in Elements(m.free)
          BY <4>2, <3>4, <1>4 DEF Released
        <5>2. f \in Frame /\ m.ref[f] = 0
          BY <5>1, <3>1, <1>2, FreeUnused
        <5> QED BY <5>2, <4>2, <1>3
      <4> QED BY <4>1, <4>2
    <3>6. Covers(n)
      <4> SUFFICES ASSUME NEW f \in Frame PROVE Cardinality(Ptrs(n, f)) <= n.ref[f]
        BY DEF Covers
      <4>1. CASE f \in D
        BY <4>1, <3>2, FS_EmptySet
      <4>2. CASE f \notin D
        <5>1. Cardinality(Ptrs(n, f)) <= Cardinality(Ptrs(m, f))
          BY <3>3, PointersFinite, FS_Subset
        <5>2. Cardinality(Ptrs(m, f)) <= m.ref[f] /\ n.ref[f] = m.ref[f]
          BY <4>2, <3>1, <1>3 DEF Covers
        <5>3. Cardinality(Ptrs(m, f)) \in Nat /\ Cardinality(Ptrs(n, f)) \in Nat /\ m.ref[f] \in Nat
          BY PointersFinite, <1>2, Fields
        <5> QED BY <5>1, <5>2, <5>3
      <4> QED BY <4>1, <4>2
    <3>7. Exclusive(n)
      <4> SUFFICES ASSUME NEW k \in TableLocs, n.word[k] \in Frame
                   PROVE  Ptrs(n, n.word[k]) = {k} /\ n.ref[n.word[k]] = 1
        BY DEF Exclusive
      <4>1. k \in Loc /\ k \in CountedLoc /\ n.word[k] = m.word[k] /\ k[2] /= a
        BY <1>3, <1>5, EntriesInLoc, NilAssumption
      <4>2. PICK f \in Frame : f = n.word[k] /\ f = m.word[k]
        BY <4>1
      <4>3. Ptrs(m, f) = {k} /\ m.ref[f] = 1
        BY <4>2, <3>1 DEF Exclusive
      <4>4. f \notin D
        BY <4>1, <4>3, <3>2
      <4>5. k \in Ptrs(n, f)
        BY <4>1, <4>2 DEF Ptrs
      <4>6. Ptrs(n, f) = {k}
        BY <4>3, <4>5, <3>3
      <4>7. n.ref[f] = 1
        BY <4>3, <4>4, <1>3
      <4> QED BY <4>2, <4>6, <4>7
    <3> QED BY <3>4, <3>5, <3>6, <3>7
  <2> QED BY <1>1, <1>3, <1>7, <2>4, <2>5 DEF Good
<1>9. CASE ~PagesAboveRAM
  BY <1>1, <1>3, <1>7, <1>9 DEF Good
<1> QED BY <1>8, <1>9

-----------------------------------------------------------------------------
(* What page_init leaves.                                                  *)

\* boot_mmu_setup writes the identity map and nothing a program could own.
LEMMA BootEntries ==
    ASSUME NEW l \in Loc
    PROVE  /\ BootWord[l] = Boot <=> l \in BootTables
           /\ BootWord[l] \in Frame \union {Nil, Boot}
           /\ BootWord[l] \in Frame => l \in IdLocs /\ l = IdLoc(BootWord[l])
<1>1. BootWord[l] = IF l \in IdLocs /\ l[3] < FirstDevice THEN l[3]
                    ELSE IF l \in BootTables THEN Boot ELSE Nil
  BY DEF BootWord
<1>2. l \in IdLocs => l[3] \in Frame /\ l = IdLoc(l[3]) /\ l \notin BootTables
  BY IdEntries DEF IdLocs, IdLoc
<1> QED BY <1>1, <1>2, NilAssumption

\* page_init establishes the invariant.
LEMMA GoodInit == Good(PageInit)
<1> DEFINE m == PageInit
           q == [i \in 1..(NPAGE - FirstFree) |-> NPAGE - i]
<1>1. /\ m.free = q /\ m.word = BootWord /\ m.panic = FALSE /\ m.wrapped = FALSE
      /\ m.ref = [f \in Frame |-> IF f < FirstFree THEN 1 ELSE 0]
  BY DEF PageInit
<1>2. NPAGE - FirstFree \in Nat
  BY Sizes
<1>3. q \in Seq(Frame) /\ DOMAIN q = 1..(NPAGE - FirstFree)
  <2>1. \A i \in 1..(NPAGE - FirstFree) : NPAGE - i \in Frame
    BY Sizes DEF Frame
  <2> QED BY <2>1, <1>2
<1>4. Typed(m)
  <2>1. m.ref \in [Frame -> 0..(RefMod - 1)]
    BY <1>1, Sizes
  <2>2. m.word \in [Loc -> Frame \union {Nil, Boot}]
    BY <1>1, BootEntries DEF BootWord
  <2>3. m \in MemRec
    BY <1>1, <1>3, <2>1, <2>2 DEF PageInit, MemRec
  <2> QED BY <2>3, <1>1, BootEntries DEF Typed
<1>5. Walks(m)
  <2> SUFFICES ASSUME NEW a \in Envs, NEW v \in UserVPN
               PROVE  /\ BootWord[PteLoc(a, v)] /= Nil => BootWord[PmdLoc(a, v)] /= Nil
                      /\ BootWord[PmdLoc(a, v)] /= Nil => BootWord[PudLoc(a, v)] /= Nil
                      /\ Space(a, v) = a /\ BootWord[PudLoc(a, v)] /= Nil =>
                           BootWord[DirLoc(a)] /= Nil
    BY <1>1 DEF Walks
  <2>1. /\ PteLoc(a, v) \in Loc /\ PteLoc(a, v) \notin BootTables
        /\ PmdLoc(a, v) \in Loc /\ PmdLoc(a, v) \in TableLocs
        /\ PudLoc(a, v) \in Loc /\ PudLoc(a, v) \in TableLocs
    BY EntriesInLoc
  <2>2. \A l \in TableLocs : l \notin IdLocs
    BY Levels DEF TableLocs
  <2>3. \A l \in TableLocs : BootWord[l] /= Nil <=> l \in BootTables
    BY <2>2, EntriesInLoc, BootEntries, NilAssumption
  <2>4. BootWord[PteLoc(a, v)] /= Nil => BootWord[PmdLoc(a, v)] /= Nil
    <3> SUFFICES ASSUME BootWord[PteLoc(a, v)] /= Nil PROVE PmdLoc(a, v) \in BootTables
      BY <2>1, <2>3
    <3>1. PteLoc(a, v) \in IdLocs
      BY <2>1, BootEntries
    <3>2. v \in Frame /\ Space(a, v) = Kernel
      BY <3>1 DEF IdLocs, IdLoc, PteLoc
    <3> QED BY <3>2 DEF BootTables, PmdLoc
  <2>5. PmdLoc(a, v) \in BootTables => PudLoc(a, v) \in BootTables
    <3> SUFFICES ASSUME PmdLoc(a, v) \in BootTables PROVE PudLoc(a, v) \in BootTables
      OBVIOUS
    <3>1. Space(a, v) = Kernel
      BY Levels DEF PmdLoc
    <3>2. PudOf(v) \in SharedPuds
      BY <3>1, SpaceIsShared
    <3> QED BY <3>1, <3>2 DEF BootTables, PudLoc
  <2>6. PudLoc(a, v) \in BootTables => Space(a, v) /= a
    BY Levels, EnvsAssumption DEF PudLoc
  <2> QED BY <2>1, <2>3, <2>4, <2>5, <2>6
<1>6. \A f : f \in Frame => Ptrs(m, f) = {}
  <2> SUFFICES ASSUME NEW f \in Frame, NEW l \in CountedLoc, BootWord[l] = f PROVE FALSE
    BY <1>1 DEF Ptrs
  <2>1. l \in Loc /\ l \notin IdLocs
    BY DEF CountedLoc
  <2> QED BY <2>1, BootEntries
<1>7. Elements(m.free) \subseteq Frame /\ \A f \in Elements(m.free) : f >= FirstFree
  <2>1. \A i \in 1..(NPAGE - FirstFree) : q[i] \in Frame /\ q[i] >= FirstFree
    BY Sizes DEF Frame
  <2> HIDE DEF q
  <2> QED BY <2>1, <1>1, <1>3 DEF Elements
<1>8. Kept(m)
  <2> SUFFICES ASSUME NEW f \in Frame, f < FirstFree
               PROVE  /\ f \notin Elements(m.free) /\ m.ref[f] = 1 /\ m.word[IdLoc(f)] = f
                      /\ \A l \in CountedLoc : m.word[l] /= f
    BY DEF Kept
  <2>1. f \notin Elements(m.free) /\ m.ref[f] = 1
    BY <1>1, <1>7, Sizes
  <2>2. m.word[IdLoc(f)] = f
    <3>1. IdLoc(f) \in Loc /\ IdLoc(f) \in IdLocs /\ IdLoc(f)[3] = f /\ f < FirstDevice
      BY IdEntries, Sizes DEF IdLocs, IdLoc
    <3> QED BY <3>1, <1>1 DEF BootWord
  <2> QED BY <2>1, <2>2, <1>6 DEF Ptrs
<1>9. Sound(m)
  <2>1. Once(q)
    BY Sizes DEF Once
  <2>2. FreeUncounted(m)
    <3> SUFFICES ASSUME NEW f \in Elements(m.free) PROVE m.ref[f] = 0
      BY DEF FreeUncounted
    <3> QED BY <1>1, <1>7, Sizes
  <2>3. Covers(m)
    <3> SUFFICES ASSUME NEW f \in Frame PROVE Cardinality(Ptrs(m, f)) <= m.ref[f]
      BY DEF Covers
    <3>1. Cardinality(Ptrs(m, f)) = 0
      BY <1>6, FS_EmptySet
    <3>2. m.ref[f] \in Nat
      BY <1>4, Fields
    <3> QED BY <3>1, <3>2
  <2>4. Exclusive(m)
    <3> SUFFICES ASSUME NEW l \in TableLocs, m.word[l] \in Frame PROVE FALSE
      BY DEF Exclusive
    <3>1. l \in CountedLoc
      BY EntriesInLoc
    <3> QED BY <3>1, <1>6 DEF Ptrs
  <2> QED BY <1>1, <2>1, <2>2, <2>3, <2>4 DEF Sound
<1> QED BY <1>4, <1>5, <1>8, <1>9 DEF Good

-----------------------------------------------------------------------------
(* Every call, in any order.                                               *)

\* What a fork has done to memory.
LEMMA ForkStep ==
    ASSUME NEW c \in Envs, NEW a \in Envs, Fork(c, a)
    PROVE  \E n \in Nat :
                /\ StackPages(n) \subseteq UserVPN /\ PrivatePages(StackPages(n))
                /\ \A v \in StackPages(n) : PageLookup(mem, c, v) /= Nil
                /\ c \in Live /\ a \notin Live /\ mem.word[DirLoc(a)] = Nil
                /\ mem' = ForkEnv(mem, a, n).mem
                /\ last' = [op |-> "fork", ret |-> ForkEnv(mem, a, n).ret]
<1>1. PICK n \in 0..STACK : Forkable(mem, c, n) /\ Finish("fork", ForkEnv(mem, a, n))
  BY DEF Fork
<1>2. n \in Nat /\ c \in Live /\ a \notin Live
  BY DEF Fork
<1>3. /\ StackPages(n) \subseteq UserVPN /\ PrivatePages(StackPages(n))
      /\ \A v \in StackPages(n) : PageLookup(mem, c, v) /= Nil
  BY <1>1 DEF Forkable, PrivatePages
<1>4. mem.word[DirLoc(a)] = Nil
  BY <1>2 DEF Live
<1>5. mem' = ForkEnv(mem, a, n).mem /\ last' = [op |-> "fork", ret |-> ForkEnv(mem, a, n).ret]
  BY <1>1 DEF Finish
<1> QED BY <1>2, <1>3, <1>4, <1>5

\* Every call keeps it, as long as env_free does not go astray.
LEMMA GoodNext ==
    ASSUME Good(mem), Next, ~Astray'
    PROVE  Good(mem')
<1>1. \A a \in Envs : a \in Live <=> mem.word[DirLoc(a)] /= Nil
  BY DEF Live
<1>2. \A t \in Target : t = BadEnv \/ (t \in Envs /\ mem.word[DirLoc(t)] /= Nil)
  BY DEF Target, Live
<1>3. \A t \in Target : t \in Envs \union {BadEnv}
  BY <1>2
<1>4. ASSUME NEW a \in Envs, Create(a) PROVE Good(mem')
  BY <1>1, <1>4, GoodCreate DEF Create
<1>5. ASSUME NEW c \in Envs, NEW a \in Envs, Fork(c, a) PROVE Good(mem')
  <2>1. PICK n \in Nat : /\ StackPages(n) \subseteq UserVPN /\ mem.word[DirLoc(a)] = Nil
                         /\ mem' = ForkEnv(mem, a, n).mem
    BY <1>5, ForkStep
  <2> QED BY <2>1, GoodFork
<1>6. ASSUME NEW t \in Target, NEW v \in UserVPN, NEW perm \in BOOLEAN, Alloc(t, v, perm)
      PROVE  Good(mem')
  BY <1>2, <1>6, GoodMemAlloc DEF Alloc, Finish
<1>7. ASSUME NEW s \in Target, NEW d \in Target, NEW sv \in UserVPN, NEW dv \in UserVPN,
             NEW perm \in BOOLEAN, Map(s, sv, d, dv, perm)
      PROVE  Good(mem')
  BY <1>2, <1>3, <1>7, GoodMemMap DEF Map, Finish
<1>8. ASSUME NEW t \in Target, NEW v \in UserVPN, Unmap(t, v) PROVE Good(mem')
  BY <1>3, <1>8, GoodMemUnmap DEF Unmap, Finish
<1>9. ASSUME NEW a \in Envs, Destroy(a) PROVE Good(mem')
  <2>1. PICK T : T = FreedTables(mem, a)
    OBVIOUS
  <2>2. PICK s \in ReleaseOrders(mem, T) : mem' = EnvFree(mem, a, T, s)
    BY <1>9, <2>1 DEF Destroy, Finish
  <2> QED BY <2>1, <2>2, GoodFree
<1>10. ASSUME NEW a \in Envs, DestroyAstray(a) PROVE FALSE
  BY <1>10 DEF DestroyAstray, Finish, Astray
<1> QED BY <1>4, <1>5, <1>6, <1>7, <1>8, <1>9, <1>10 DEF Next

\* The invariant, until an env_free goes astray.
GoodMem == ~Astray => Good(mem)

\* Before the first call nothing has failed.
History == phase \in {"boot", "user"} /\ (phase = "boot" => last = [op |-> "boot", ret |-> "ok"])

\* The phases and results Memory records.
LEMMA HistoryInvariant == Spec => []History
<1>1. Init => History
  BY DEF Init, History
<1>2. History /\ [Next]_vars => History'
  BY DEF History, Next, vars, Create, Fork, Alloc, Map, Unmap, Destroy, DestroyAstray, Finish
<1> QED BY <1>1, <1>2, PTL DEF Spec

\* Nothing happens after an env_free that went astray.
LEMMA StrayIsLast ==
    ASSUME GoodMem, History, [Next]_vars
    PROVE  (~Astray /\ Good(mem) /\ Next) \/ UNCHANGED vars
<1>1. ASSUME Next, Astray PROVE FALSE
  <2>1. ASSUME NEW a \in Envs, Create(a) PROVE FALSE
    BY <1>1, <2>1 DEF Create, History, Astray
  <2>2. ~ \E op, r : Finish(op, r)
    BY <1>1 DEF Finish
  <2> QED BY <1>1, <2>1, <2>2 DEF Next, Fork, Alloc, Map, Unmap, Destroy, DestroyAstray
<1> QED BY <1>1 DEF GoodMem

\* The invariant holds whatever the programs call.
THEOREM MemInvariant == Spec => []GoodMem
<1>1. Init => GoodMem
  BY GoodInit DEF Init, GoodMem
<1>2. GoodMem /\ History /\ [Next]_vars => GoodMem'
  <2> SUFFICES ASSUME GoodMem, History, [Next]_vars PROVE GoodMem'
    OBVIOUS
  <2>1. CASE Good(mem) /\ Next
    BY <2>1, GoodNext DEF GoodMem
  <2>2. CASE UNCHANGED vars
    BY <2>2 DEF vars, GoodMem, Astray
  <2> QED BY <2>1, <2>2, StrayIsLast
<1> QED BY <1>1, <1>2, HistoryInvariant, PTL DEF Spec

\* The free list holds frames, every count fits an unsigned short, every entry holds a frame
\* or nothing, and no call writes an entry of the boot tables, until env_free goes astray.
THEOREM TypeCorrect == Spec => [](~Astray => MemTypeOK)
<1>1. Good(mem) => MemTypeOK
  BY DEF Good, Typed, MemRec, MemTypeOK
<1>2. GoodMem => (~Astray => MemTypeOK)
  BY <1>1 DEF GoodMem
<1> QED BY <1>2, MemInvariant, PTL

\* pgdir_walk reaches every mapping that was made, after any sequence of calls and failures: an
\* entry is valid only below valid entries, and below a directory that exists.  Only an env_free
\* that goes astray can break this.
THEOREM WalkFindsTables == Spec => []WalkReaches
<1>1. GoodMem => WalkReaches
  BY DEF GoodMem, Good, Walks, WalkReaches, Live
<1> QED BY <1>1, MemInvariant, PTL

\* The invariant says of the free list what FreeListSound does.
LEMMA GoodFrees == PagesAboveRAM /\ GoodMem => FreeListSound
<1> SUFFICES ASSUME PagesAboveRAM, Good(mem), ~mem.wrapped
             PROVE  /\ \A i, j \in DOMAIN mem.free : mem.free[i] = mem.free[j] => i = j
                    /\ \A f \in FreeSet : mem.ref[f] = 0 /\ Ptrs(mem, f) = {}
  BY DEF FreeListSound, GoodMem, Orderly
<1>1. Typed(mem) /\ Once(mem.free) /\ FreeUncounted(mem) /\ Covers(mem)
  BY DEF Good, Sound
<1>2. FreeSet = Elements(mem.free)
  BY DEF FreeSet, Elements
<1> QED BY <1>1, <1>2, FreeUnused DEF Once

\* page_alloc never hands out a frame that is in use: page_free_list holds a frame once, and
\* only frames with count zero to which no entry points, until a count has wrapped or an
\* env_free has gone astray.
THEOREM NoFrameTwice ==
    ASSUME PagesAboveRAM
    PROVE  Spec => []FreeListSound
<1>1. GoodMem => FreeListSound
  BY GoodFrees
<1> QED BY <1>1, MemInvariant, PTL

\* page_decref never frees a frame that is still mapped: pp_ref is at least the number of
\* entries that point to the frame, until a count has wrapped or an env_free has gone astray.
THEOREM CountsCoverPointers ==
    ASSUME PagesAboveRAM
    PROVE  Spec => []RefCovers
<1>1. GoodMem => RefCovers
  BY DEF GoodMem, Orderly, Good, Sound, Covers, RefCovers
<1> QED BY <1>1, MemInvariant, PTL

\* No environment can write a page table through a mapping: a directory or table is pointed to
\* by the one entry above it, until a count has wrapped or an env_free has gone astray.
THEOREM TablesPointedToOnce ==
    ASSUME PagesAboveRAM
    PROVE  Spec => []TablesExclusive
<1>1. GoodMem => TablesExclusive
  BY DEF GoodMem, Orderly, Good, Sound, Exclusive, TablesExclusive
<1> QED BY <1>1, MemInvariant, PTL

\* page_alloc never hands out a frame below freemem, and env_free, which removes entries of the
\* identity map, leaves those of these frames, unless it goes astray.
THEOREM KernelFramesStay ==
    ASSUME PagesAboveRAM
    PROVE  Spec => []KernelFramesKept
<1>1. GoodMem => KernelFramesKept
  <2> SUFFICES ASSUME Good(mem), NEW f \in 0..(FirstFree - 1)
               PROVE  f \notin FreeSet /\ mem.ref[f] = 1 /\ mem.word[IdLoc(f)] = f
    BY DEF KernelFramesKept, GoodMem
  <2>1. f \in Frame /\ f < FirstFree
    BY Sizes
  <2>2. FreeSet = Elements(mem.free)
    BY DEF FreeSet, Elements
  <2> QED BY <2>1, <2>2 DEF Good, Kept
<1> QED BY <1>1, MemInvariant, PTL

-----------------------------------------------------------------------------
(* FailureKeepsMappings: what a failed call has written is not reached by  *)
(* any walk that ends in a page.                                           *)

SameView(m, n) ==
    \A a \in Envs, v \in UserVPN : PageLookup(n, a, v) = PageLookup(m, a, v)

\* Only entries matter to page_lookup.
LEMMA WordsView ==
    ASSUME NEW m, NEW n, n.word = m.word
    PROVE  SameView(m, n)
BY DEF SameView, PageLookup

\* A new directory, or a new page table directory below which nothing was.
LEMMA GrownView ==
    ASSUME NEW m, Typed(m), Walks(m), NEW n, NEW a \in Envs, NEW v \in UserVPN,
           Grown(m, n, DirLoc(a)) \/ Grown(m, n, PudLoc(a, v))
    PROVE  SameView(m, n)
<1> SUFFICES ASSUME NEW b \in Envs, NEW w \in UserVPN
             PROVE  PageLookup(n, b, w) = PageLookup(m, b, w)
  BY DEF SameView
<1>1. PICK l \in {DirLoc(a), PudLoc(a, v)} : Grown(m, n, l)
  OBVIOUS
<1>2. \A k \in Loc : n.word[k] = IF k = l THEN Head(m.free) ELSE m.word[k]
  BY <1>1, Fields DEF Grown
<1>3. m.word[l] = Nil
  BY <1>1 DEF Grown
<1>4. PudLoc(b, w) \in Loc /\ PmdLoc(b, w) \in Loc /\ PteLoc(b, w) \in Loc
  BY EntriesInLoc
<1>5. PmdLoc(b, w) /= l /\ PteLoc(b, w) /= l
  BY DistinctEntries
<1>6. n.word[PmdLoc(b, w)] = m.word[PmdLoc(b, w)] /\ n.word[PteLoc(b, w)] = m.word[PteLoc(b, w)]
  BY <1>2, <1>4, <1>5
<1>7. CASE PudLoc(b, w) = l
  <2>1. m.word[PudLoc(b, w)] = Nil
    BY <1>3, <1>7
  <2>2. m.word[PmdLoc(b, w)] = Nil
    BY <2>1 DEF Walks
  <2> QED BY <1>6, <2>1, <2>2 DEF PageLookup
<1>8. CASE PudLoc(b, w) /= l
  <2>1. n.word[PudLoc(b, w)] = m.word[PudLoc(b, w)]
    BY <1>2, <1>4, <1>8
  <2> QED BY <1>6, <2>1 DEF PageLookup
<1> QED BY <1>7, <1>8

\* A page_insert that fails has removed nothing: if the page was mapped, the tables exist.
LEMMA InsertFails ==
    ASSUME NEW m, Typed(m), Walks(m), NEW a \in Envs, NEW v \in UserVPN, NEW f \in Frame,
           ~PageInsert(m, a, f, v).ok
    PROVE  SameView(m, PageInsert(m, a, f, v).mem)
<1>1. PICK r : r = PageInsert(m, a, f, v)
  OBVIOUS
<1>2. Inserted(m, r, a, v, f)
  BY <1>1, InsertSteps
<1>3. r.mem = m \/ Grown(m, r.mem, PudLoc(a, v))
  BY <1>1, <1>2 DEF Inserted
<1> QED BY <1>1, <1>3, WordsView, GrownView

\* Only page v of a, in every environment that shares the table, may look different.
ViewBut(m, n, a, v) ==
    \A b \in Envs, w \in UserVPN :
        PteLoc(b, w) /= PteLoc(a, v) => PageLookup(n, b, w) = PageLookup(m, b, w)

\* A page table below which nothing was.
LEMMA GrownTableView ==
    ASSUME NEW m, Typed(m), Walks(m), NEW n, NEW a \in Envs, NEW v \in UserVPN,
           Grown(m, n, PmdLoc(a, v))
    PROVE  SameView(m, n)
<1> SUFFICES ASSUME NEW b \in Envs, NEW w \in UserVPN
             PROVE  PageLookup(n, b, w) = PageLookup(m, b, w)
  BY DEF SameView
<1>1. PICK l : l = PmdLoc(a, v)
  OBVIOUS
<1>2. m.word[l] = Nil /\ \A k \in Loc : k /= l => n.word[k] = m.word[k]
  BY <1>1, Fields DEF Grown
<1>3. PudLoc(b, w) \in Loc /\ PmdLoc(b, w) \in Loc /\ PteLoc(b, w) \in Loc
  BY EntriesInLoc
<1>4. PudLoc(b, w) /= l /\ PteLoc(b, w) /= l
  BY <1>1, DistinctEntries
<1>5. n.word[PudLoc(b, w)] = m.word[PudLoc(b, w)] /\ n.word[PteLoc(b, w)] = m.word[PteLoc(b, w)]
  BY <1>2, <1>3, <1>4
<1>6. CASE PmdLoc(b, w) = l
  <2>1. m.word[PmdLoc(b, w)] = Nil
    BY <1>2, <1>6
  <2>2. m.word[PteLoc(b, w)] = Nil
    BY <2>1 DEF Walks
  <2> QED BY <1>5, <2>1, <2>2 DEF PageLookup
<1>7. CASE PmdLoc(b, w) /= l
  <2>1. n.word[PmdLoc(b, w)] = m.word[PmdLoc(b, w)]
    BY <1>2, <1>3, <1>7
  <2> QED BY <1>5, <2>1 DEF PageLookup
<1> QED BY <1>6, <1>7

\* One entry of a page table is written.
LEMMA EntryView ==
    ASSUME NEW m, Typed(m), NEW n, NEW a \in Envs, NEW v \in UserVPN, NEW x,
           n.word = [m.word EXCEPT ![PteLoc(a, v)] = x]
    PROVE  /\ ViewBut(m, n, a, v)
           /\ m.word[PudLoc(a, v)] /= Nil /\ m.word[PmdLoc(a, v)] /= Nil =>
                PageLookup(n, a, v) = x
<1>1. PICK l : l = PteLoc(a, v)
  OBVIOUS
<1>2. l \in Loc /\ \A k \in Loc : n.word[k] = IF k = l THEN x ELSE m.word[k]
  BY <1>1, EntriesInLoc, Fields
<1>3. \A b \in Envs, w \in UserVPN :
        /\ n.word[PudLoc(b, w)] = m.word[PudLoc(b, w)]
        /\ n.word[PmdLoc(b, w)] = m.word[PmdLoc(b, w)]
        /\ PteLoc(b, w) /= l => n.word[PteLoc(b, w)] = m.word[PteLoc(b, w)]
  BY <1>1, <1>2, EntriesInLoc, DistinctEntries
<1>4. ViewBut(m, n, a, v)
  BY <1>1, <1>3 DEF ViewBut, PageLookup
<1>5. n.word[l] = x
  BY <1>2
<1> QED BY <1>1, <1>3, <1>4, <1>5 DEF PageLookup

\* page_insert changes no other page, and maps the frame when it succeeds.
LEMMA InsertView ==
    ASSUME NEW m, Typed(m), Walks(m), NEW a \in Envs, m.word[DirLoc(a)] /= Nil,
           NEW v \in UserVPN, NEW f \in Frame
    PROVE  LET r == PageInsert(m, a, f, v)
           IN  ViewBut(m, r.mem, a, v) /\ (r.ok => PageLookup(r.mem, a, v) = f)
<1> DEFINE u == PudLoc(a, v)
           w == PmdLoc(a, v)
           t == PteLoc(a, v)
<1>1. u \in Loc /\ w \in Loc /\ t \in Loc /\ u /= w /\ u /= t /\ w /= t /\ DirLoc(a) \in Loc
      /\ DirLoc(a) /= u /\ DirLoc(a) /= w /\ DirLoc(a) /= t
  BY EntriesInLoc, DistinctEntries
<1>2. PICK r : r = PageInsert(m, a, f, v)
  OBVIOUS
<1>3. Inserted(m, r, a, v, f)
  BY <1>2, InsertSteps
<1>4. CASE PageLookup(m, a, v) = f /\ r = [mem |-> m, ok |-> TRUE]
  BY <1>2, <1>4 DEF ViewBut
<1>5. CASE r.ok = FALSE /\ (r.mem = m \/ Grown(m, r.mem, u))
  <2>1. SameView(m, r.mem)
    BY <1>5, WordsView, GrownView
  <2> QED BY <1>2, <1>5, <2>1 DEF SameView, ViewBut
<1>6. CASE \E c, d, e :
                /\ \/ c = m /\ PageLookup(m, a, v) = Nil
                   \/ Cleared(m, c, a, v) /\ PageLookup(m, a, v) /= f
                /\ d = c \/ Grown(c, d, u)
                /\ e = d \/ Grown(d, e, w)
                /\ d.word[u] /= Nil /\ e.word[w] /= Nil
                /\ Linked(e, r.mem, t, f) /\ r.ok = TRUE
  <2>1. PICK c, d, e :
                /\ \/ c = m /\ PageLookup(m, a, v) = Nil
                   \/ Cleared(m, c, a, v) /\ PageLookup(m, a, v) /= f
                /\ d = c \/ Grown(c, d, u)
                /\ e = d \/ Grown(d, e, w)
                /\ d.word[u] /= Nil /\ e.word[w] /= Nil
                /\ Linked(e, r.mem, t, f) /\ r.ok = TRUE
    BY <1>6
  <2>2. Typed(c) /\ Walks(c) /\ ViewBut(m, c, a, v) /\ c.word[DirLoc(a)] /= Nil
    <3>1. CASE c = m
      BY <3>1 DEF ViewBut
    <3>2. CASE Cleared(m, c, a, v)
      <4>1. Typed(c) /\ c.word = [m.word EXCEPT ![t] = Nil]
        BY <3>2 DEF Cleared
      <4>2. Walks(c)
        BY <4>1, WalksClear
      <4>3. c.word[DirLoc(a)] = m.word[DirLoc(a)]
        BY <1>1, <4>1, Fields
      <4> QED BY <4>1, <4>2, <4>3, EntryView
    <3> QED BY <2>1, <3>1, <3>2
  <2>3. Typed(d) /\ Walks(d) /\ SameView(c, d)
    <3>1. CASE d = c
      BY <2>2, <3>1 DEF SameView
    <3>2. CASE Grown(c, d, u)
      <4>1. Typed(d)
        BY <3>2 DEF Grown
      <4>2. Walks(d)
        BY <2>2, <3>2, WalksGrown
      <4> QED BY <2>2, <3>2, <4>1, <4>2, GrownView
    <3> QED BY <2>1, <3>1, <3>2
  <2>4. Typed(e) /\ SameView(d, e) /\ e.word[u] = d.word[u]
    <3>1. CASE e = d
      BY <2>3, <3>1 DEF SameView
    <3>2. CASE Grown(d, e, w)
      <4>1. Typed(e)
        BY <3>2 DEF Grown
      <4>2. e.word[u] = d.word[u]
        BY <1>1, <2>3, <3>2, Fields DEF Grown
      <4> QED BY <2>3, <3>2, <4>1, <4>2, GrownTableView
    <3> QED BY <2>1, <3>1, <3>2
  <2>5. r.mem.word = [e.word EXCEPT ![t] = f]
    BY <2>1 DEF Linked
  <2>6. ViewBut(e, r.mem, a, v) /\ PageLookup(r.mem, a, v) = f
    BY <2>1, <2>4, <2>5, EntryView
  <2>7. ViewBut(m, r.mem, a, v)
    BY <2>2, <2>3, <2>4, <2>6 DEF SameView, ViewBut
  <2> QED BY <1>2, <2>6, <2>7
<1> QED BY <1>3, <1>4, <1>5, <1>6 DEF Inserted

\* Walks that end in one entry agree.
LEMMA SameWalk ==
    ASSUME NEW a \in Envs, NEW b \in Envs, NEW v \in UserVPN, NEW w \in UserVPN
    PROVE  /\ PteLoc(b, w) = PteLoc(a, v) <=> w = v /\ (b = a \/ PudOf(v) \in SharedPuds)
           /\ PteLoc(b, w) = PteLoc(a, v) => \A n : PageLookup(n, b, w) = PageLookup(n, a, v)
<1>1. PteLoc(b, w) = PteLoc(a, v) <=> Space(b, w) = Space(a, v) /\ w = v
  BY SameEntry
<1>2. Space(b, v) = Space(a, v) <=> b = a \/ PudOf(v) \in SharedPuds
  BY EnvsAssumption DEF Space
<1>3. PteLoc(b, w) = PteLoc(a, v) => PmdLoc(b, w) = PmdLoc(a, v) /\ PudLoc(b, w) = PudLoc(a, v)
  BY SameEntry
<1>4. PteLoc(b, w) = PteLoc(a, v) => \A n : PageLookup(n, b, w) = PageLookup(n, a, v)
  BY <1>3 DEF PageLookup
<1> QED BY <1>1, <1>2, <1>4

\* Pages of the others, and those that everybody shares, look the same.
OthersSee(m, n, a) ==
    \A b \in Envs, w \in UserVPN :
        b /= a \/ PudOf(w) \in SharedPuds => PageLookup(n, b, w) = PageLookup(m, b, w)

\* A private page is mapped, or not.
LEMMA PrivateUnseen ==
    ASSUME NEW m, NEW n, NEW a \in Envs, NEW v \in UserVPN, PudOf(v) \notin SharedPuds,
           ViewBut(m, n, a, v)
    PROVE  OthersSee(m, n, a)
<1> SUFFICES ASSUME NEW b \in Envs, NEW w \in UserVPN, b /= a \/ PudOf(w) \in SharedPuds
             PROVE  PageLookup(n, b, w) = PageLookup(m, b, w)
  BY DEF OthersSee
<1>1. PteLoc(b, w) /= PteLoc(a, v)
  BY SameWalk
<1> QED BY <1>1 DEF ViewBut

\* A round of sys_env_alloc changes pages of the child only.
LEMMA CopyOthers ==
    ASSUME NEW r, NEW q, NEW a \in Envs, NEW v \in UserVPN, PudOf(v) \notin SharedPuds,
           NEW k, NEW f, Copies(r, q, a, v, k, f)
    PROVE  ViewBut(r.mem, q.mem, a, v) /\ OthersSee(r.mem, q.mem, a)
<1>1. Typed(k) /\ Walks(k) /\ k.word[DirLoc(a)] /= Nil /\ f \in Frame /\ k.word = r.mem.word
  BY DEF Copies, Good
<1>2. ViewBut(k, q.mem, a, v)
  BY <1>1, InsertView DEF Copies
<1>3. SameView(r.mem, k)
  BY <1>1, WordsView
<1>4. ViewBut(r.mem, q.mem, a, v)
  BY <1>2, <1>3 DEF SameView, ViewBut
<1> QED BY <1>4, PrivateUnseen

\* sys_env_alloc changes what the child sees, and nothing else.
LEMMA ForkOthers ==
    ASSUME NEW m, Good(m), NEW a \in Envs, m.word[DirLoc(a)] = Nil,
           NEW n \in Nat, StackPages(n) \subseteq UserVPN, PrivatePages(StackPages(n))
    PROVE  OthersSee(m, ForkEnv(m, a, n).mem, a)
<1>1. PICK e : e = EnvSetupVm(m, a)
  OBVIOUS
<1>2. Typed(m) /\ Walks(m)
  BY DEF Good
<1>3. SameView(m, e)
  <2>1. CASE m.free = <<>>
    <3>1. e = [m EXCEPT !.panic = TRUE]
      BY <1>1, <1>2, <2>1, SetupEffect
    <3>2. e.word = m.word
      BY <3>1, <1>2 DEF Typed, MemRec
    <3> QED BY <3>2, WordsView
  <2>2. CASE m.free /= <<>>
    <3>1. Grown(m, e, DirLoc(a)) /\ STACK \in UserVPN
      BY <1>1, <1>2, <2>2, SetupEffect, StackAssumption
    <3> QED BY <3>1, <1>2, GrownView
  <2> QED BY <2>1, <2>2
<1>4. OthersSee(m, e, a)
  BY <1>3 DEF SameView, OthersSee
<1>5. CASE e.panic
  <2>1. ForkEnv(m, a, n).mem = e
    BY <1>1, <1>5, ForkRuns
  <2> QED BY <1>4, <2>1
<1>6. CASE ~e.panic
  <2>1. PICK S : S = {r \in GoodCopies(e) : OthersSee(m, r.mem, a)}
    OBVIOUS
  <2>2. e.word[DirLoc(a)] /= Nil /\ [mem |-> e, ret |-> "ok"] \in GoodCopies(e)
    BY <1>1, <1>6, ForkStarts
  <2>3. [mem |-> e, ret |-> "ok"] \in S
    BY <1>4, <2>1, <2>2
  <2>4. ASSUME NEW r \in S \intersect GoodCopies(e), NEW v \in StackPages(n)
        PROVE  CopyPage(r, a, v) \in S
    <3>1. PICK q : q = CopyPage(r, a, v)
      OBVIOUS
    <3>2. v \in UserVPN /\ PudOf(v) \notin SharedPuds
      BY DEF PrivatePages
    <3>3. q \in GoodCopies(e) /\ (q.mem = r.mem \/ \E k, f : Copies(r, q, a, v, k, f))
      BY <2>2, <3>1, <3>2, CopyCases
    <3>4. OthersSee(r.mem, q.mem, a)
      <4>1. CASE q.mem = r.mem
        BY <4>1 DEF OthersSee
      <4>2. CASE \E k, f : Copies(r, q, a, v, k, f)
        BY <4>2, <3>2, CopyOthers
      <4> QED BY <3>3, <4>1, <4>2
    <3>5. OthersSee(m, r.mem, a)
      BY <2>1
    <3>6. OthersSee(m, q.mem, a)
      BY <3>4, <3>5 DEF OthersSee
    <3> QED BY <2>1, <3>1, <3>3, <3>6
  <2>5. ForkEnv(m, a, n) \in S
    BY <1>1, <1>6, <2>3, <2>4, ForkIn
  <2> QED BY <2>1, <2>5
<1> QED BY <1>5, <1>6

\* sys_mem_alloc that fails has at most taken a frame and made a table.
LEMMA MemAllocFails ==
    ASSUME NEW m, Good(m), NEW t \in Envs \union {BadEnv}, NEW v \in UserVPN,
           NEW perm \in BOOLEAN, MemAlloc(m, t, v, perm).ret /= "ok"
    PROVE  SameView(m, MemAlloc(m, t, v, perm).mem)
<1>1. PICK k, f : k = PageAlloc(m).mem /\ f = PageAlloc(m).page
  OBVIOUS
<1>2. k.word = m.word
  BY <1>1, AllocEffect DEF Good
<1>3. CASE ~perm \/ f = Nil
  <2>1. MemAlloc(m, t, v, perm).mem = m
    BY <1>1, <1>3 DEF MemAlloc
  <2> QED BY <2>1, WordsView
<1>4. CASE perm /\ f /= Nil /\ t = BadEnv
  <2>1. MemAlloc(m, t, v, perm).mem = k
    BY <1>1, <1>4 DEF MemAlloc
  <2> QED BY <2>1, <1>2, WordsView
<1>5. CASE perm /\ f /= Nil /\ t /= BadEnv
  <2>1. PICK i : i = PageInsert(k, t, f, v)
    OBVIOUS
  <2>2. MemAlloc(m, t, v, perm) = [mem |-> i.mem, ret |-> IF i.ok THEN "ok" ELSE "no_mem"]
    BY <1>1, <1>5, <2>1 DEF MemAlloc
  <2>3. ~i.ok /\ MemAlloc(m, t, v, perm).mem = i.mem
    BY <2>2
  <2>4. Good(k) /\ f \in Frame
    BY <1>1, <1>5, GoodPageAlloc DEF InUse
  <2>5. SameView(k, i.mem)
    BY <1>5, <2>1, <2>3, <2>4, InsertFails DEF Good
  <2>6. SameView(m, k)
    BY <1>2, WordsView
  <2> QED BY <2>3, <2>5, <2>6 DEF SameView
<1> QED BY <1>3, <1>4, <1>5

\* sys_mem_map that fails has at most made a table.
LEMMA MemMapFails ==
    ASSUME NEW m, Good(m), NEW s \in Envs \union {BadEnv}, NEW d \in Envs \union {BadEnv},
           NEW sv \in UserVPN, NEW dv \in UserVPN, NEW perm \in BOOLEAN,
           MemMap(m, s, sv, d, dv, perm).ret /= "ok"
    PROVE  SameView(m, MemMap(m, s, sv, d, dv, perm).mem)
<1>1. PICK f : f = PageLookup(m, s, sv)
  OBVIOUS
<1>2. CASE BadEnv \in {s, d} \/ ~perm \/ f = Nil
  <2>1. MemMap(m, s, sv, d, dv, perm).mem = m
    BY <1>1, <1>2 DEF MemMap
  <2> QED BY <2>1, WordsView
<1>3. CASE ~(BadEnv \in {s, d} \/ ~perm \/ f = Nil)
  <2>1. PICK i : i = PageInsert(m, d, f, dv)
    OBVIOUS
  <2>2. MemMap(m, s, sv, d, dv, perm) = [mem |-> i.mem, ret |-> IF i.ok THEN "ok" ELSE "no_mem"]
    BY <1>1, <1>3, <2>1 DEF MemMap
  <2>3. ~i.ok /\ MemMap(m, s, sv, d, dv, perm).mem = i.mem
    BY <2>2
  <2>4. f \in Frame
    BY <1>1, <1>3, LookupEntry DEF Good
  <2> QED BY <1>3, <2>1, <2>3, <2>4, InsertFails DEF Good
<1> QED BY <1>2, <1>3

\* What is seen by everybody but the child of a fork.
SeenAlike == \A b \in Live, v \in UserVPN : PageLookup(mem', b, v) = PageLookup(mem, b, v)

\* The same for a step of the system.
LEMMA FailureStep ==
    ASSUME Good(mem), History, Next, last'.ret /= "ok"
    PROVE  SeenAlike
<1>0. /\ \A a \in Envs : a \in Live <=> mem.word[DirLoc(a)] /= Nil
      /\ Target \subseteq Envs \union {BadEnv} /\ Live \subseteq Envs
  BY DEF Live, Target
<1>1. SameView(mem, mem') => SeenAlike
  BY <1>0 DEF SameView, SeenAlike
<1>2. ASSUME NEW a \in Envs, Create(a) PROVE FALSE
  BY <1>2 DEF Create, History
<1>3. ASSUME NEW c \in Envs, NEW a \in Envs, Fork(c, a) PROVE SeenAlike
  <2>1. PICK n \in Nat : /\ StackPages(n) \subseteq UserVPN /\ PrivatePages(StackPages(n))
                         /\ a \notin Live /\ mem.word[DirLoc(a)] = Nil
                         /\ mem' = ForkEnv(mem, a, n).mem
    BY <1>3, ForkStep
  <2>2. OthersSee(mem, mem', a)
    BY <2>1, ForkOthers
  <2> QED BY <1>0, <2>1, <2>2 DEF OthersSee, SeenAlike
<1>4. ASSUME NEW t \in Target, NEW v \in UserVPN, NEW perm \in BOOLEAN, Alloc(t, v, perm)
      PROVE  SameView(mem, mem')
  BY <1>0, <1>4, MemAllocFails DEF Alloc, Finish
<1>5. ASSUME NEW s \in Target, NEW d \in Target, NEW sv \in UserVPN, NEW dv \in UserVPN,
             NEW perm \in BOOLEAN, Map(s, sv, d, dv, perm)
      PROVE  SameView(mem, mem')
  BY <1>0, <1>5, MemMapFails DEF Map, Finish
<1>6. ASSUME NEW t \in Target, NEW v \in UserVPN, Unmap(t, v) PROVE SameView(mem, mem')
  <2>1. mem' = mem
    BY <1>6 DEF Unmap, Finish, MemUnmap
  <2> QED BY <2>1, WordsView
<1>7. ASSUME NEW a \in Envs, Destroy(a) \/ DestroyAstray(a) PROVE FALSE
  BY <1>7 DEF Destroy, DestroyAstray, Finish
<1> QED BY <1>1, <1>2, <1>3, <1>4, <1>5, <1>6, <1>7 DEF Next

\* A system call that returns an error leaves all mappings of all environments as they were,
\* although pgdir_walk may have made a table and page_insert removes before it inserts.  Only
\* the child of a failed fork may have got some pages of its stack.
THEOREM FailuresChangeNothing == Spec => FailureKeepsMappings
<1>1. GoodMem /\ History /\ [Next]_vars => [last'.ret \notin {"ok"} => SeenAlike]_vars
  BY StrayIsLast, FailureStep
<1>2. [last'.ret \notin {"ok"} => SeenAlike]_vars =>
      [last'.ret /= "ok" =>
        \A b \in Live, v \in UserVPN : PageLookup(mem', b, v) = PageLookup(mem, b, v)]_vars
  BY DEF SeenAlike
<1> QED BY <1>1, <1>2, MemInvariant, HistoryInvariant, PTL DEF Spec, FailureKeepsMappings

-----------------------------------------------------------------------------
(* CallsKeepCounts: a reference and an entry come and go together.         *)

SameSurplus(m, n) == \A f \in Frame : Surplus(n, f) = Surplus(m, f)

\* A short goes up with the number of pointers, also past its maximum.
LEMMA StepTogether ==
    ASSUME NEW r \in Nat, r < RefMod, NEW c \in Nat
    PROVE  LET up == IF r = RefMod - 1 THEN 0 ELSE r + 1
           IN  (up + RefMod - ((c + 1) % RefMod)) % RefMod = (r + RefMod - (c % RefMod)) % RefMod
<1> DEFINE M == RefMod
           up == IF r = M - 1 THEN 0 ELSE r + 1
           q == c \div M
           k == c % M
           next == IF k = M - 1 THEN 0 ELSE k + 1
<1>1. M \in Nat /\ M > 3
  BY Sizes
<1> HIDE DEF M
<1>2. q \in Nat /\ k \in Nat /\ c = M * q + k /\ k < M
  BY <1>1, Division
<1>3. (c + 1) \div M \in Nat /\ (c + 1) % M \in Nat
      /\ c + 1 = M * ((c + 1) \div M) + ((c + 1) % M) /\ (c + 1) % M < M
  BY <1>1, Division
<1>4. (c + 1) % M = next
  <2>1. PICK p \in Nat, s \in Nat : p = (c + 1) \div M /\ s = (c + 1) % M
    BY <1>3
  <2>2. c + 1 = M * p + s /\ s < M
    BY <1>3, <2>1
  <2> HIDE DEF q, k
  <2>3. CASE k = M - 1
    <3>1. c + 1 = M * (q + 1) + 0
      BY <1>1, <1>2, <2>3
    <3>2. p = q + 1
      <4>1. q + 1 \in Nat /\ 0 \in Nat /\ 0 < M /\ M > 0 /\ M * p + s = M * (q + 1) + 0
        BY <1>1, <1>2, <2>2, <3>1
      <4> QED BY <4>1, <2>2, <1>1, Quotient
    <3>3. s = 0
      BY <1>1, <1>2, <2>2, <3>1, <3>2
    <3> QED BY <2>1, <2>3, <3>3
  <2>4. CASE k /= M - 1
    <3>1. c + 1 = M * q + (k + 1) /\ k + 1 < M /\ k + 1 \in Nat
      BY <1>1, <1>2, <2>4
    <3>2. p = q
      BY <1>1, <1>2, <2>2, <3>1, Quotient
    <3>3. s = k + 1
      BY <1>1, <1>2, <2>2, <3>1, <3>2
    <3> QED BY <2>1, <2>4, <3>3
  <2> QED BY <2>3, <2>4
<1> HIDE DEF q, k
<1>5. r < M
  BY DEF M
<1>6. (up + M - next) % M = (r + M - k) % M
  <2>1. ASSUME NEW x \in Nat, x < M + M PROVE x % M = IF x < M THEN x ELSE x - M
    BY <1>1, <2>1
  <2>2. r + M - k \in Nat /\ r + M - k < M + M
    BY <1>1, <1>2, <1>5
  <2>3. up + M - next \in Nat
    BY <1>1, <1>2, <1>5
  <2>4. CASE r = M - 1 /\ k = M - 1
    BY <2>4, <1>1, <1>2
  <2>5. CASE r = M - 1 /\ k /= M - 1
    <3>1. up + M - next = M - k - 1 /\ M - k - 1 \in Nat /\ M - k - 1 < M
      BY <2>5, <1>1, <1>2
    <3>2. (up + M - next) % M = M - k - 1
      BY <3>1, <2>1, <1>1
    <3>3. (r + M - k) % M = r + M - k - M
      BY <2>1, <2>2, <2>5, <1>1, <1>2
    <3> QED BY <3>2, <3>3, <2>5, <1>1, <1>2
  <2>6. CASE r /= M - 1 /\ k = M - 1
    <3>1. up + M - next = r + 1 + M /\ r + 1 + M < M + M
      BY <2>6, <1>1, <1>2, <1>5
    <3>2. (up + M - next) % M = r + 1
      <4>1. (r + 1 + M) % M = r + 1 + M - M
        BY <3>1, <2>1, <1>1
      <4> QED BY <3>1, <4>1, <1>1
    <3>3. (r + M - k) % M = r + 1
      BY <2>1, <2>2, <2>6, <1>1, <1>2, <1>5
    <3> QED BY <3>2, <3>3
  <2>7. CASE r /= M - 1 /\ k /= M - 1
    BY <2>7, <1>1, <1>2
  <2> QED BY <2>4, <2>5, <2>6, <2>7
<1> QED BY <1>4, <1>6 DEF M, k

\* An entry that pointed to nothing is made to point to f, which is counted once more.
LEMMA LinkSurplus ==
    ASSUME NEW m, Typed(m), NEW n, NEW l \in CountedLoc, m.word[l] = Nil, NEW f \in Frame,
           n.ref = [m.ref EXCEPT ![f] = IF @ = RefMod - 1 THEN 0 ELSE @ + 1],
           n.word = [m.word EXCEPT ![l] = f]
    PROVE  SameSurplus(m, n)
<1> SUFFICES ASSUME NEW g \in Frame PROVE Surplus(n, g) = Surplus(m, g)
  BY DEF SameSurplus
<1>1. l \notin Ptrs(m, g)
  BY NilAssumption DEF Ptrs
<1>2. m.ref[g] \in Nat /\ m.ref[g] < RefMod /\ Cardinality(Ptrs(m, g)) \in Nat
      /\ IsFiniteSet(Ptrs(m, g))
  BY Fields, PointersFinite
<1>3. Ptrs(n, g) = IF g = f THEN Ptrs(m, g) \union {l} ELSE Ptrs(m, g) \ {l}
  BY PointersMove
<1>4. CASE g = f
  <2>1. Cardinality(Ptrs(m, g) \union {l}) = Cardinality(Ptrs(m, g)) + 1
    BY <1>1, <1>2, FS_AddElement
  <2>2. Cardinality(Ptrs(n, g)) = Cardinality(Ptrs(m, g)) + 1
    BY <1>3, <1>4, <2>1
  <2>3. n.ref[g] = IF m.ref[g] = RefMod - 1 THEN 0 ELSE m.ref[g] + 1
    BY <1>4, Fields
  <2> QED BY <1>2, <2>2, <2>3, StepTogether DEF Surplus
<1>5. CASE g /= f
  <2>1. Ptrs(n, g) = Ptrs(m, g)
    BY <1>1, <1>3, <1>5
  <2>2. n.ref[g] = m.ref[g]
    BY <1>5, Fields
  <2> QED BY <2>1, <2>2 DEF Surplus
<1> QED BY <1>4, <1>5

\* An entry is cleared and its frame counted once less: the last lemma backwards.
LEMMA ClearSurplus ==
    ASSUME PagesAboveRAM, NEW m, Typed(m), NEW n, NEW a \in Envs, NEW v \in UserVPN,
           Cleared(m, n, a, v)
    PROVE  SameSurplus(m, n)
<1>1. PICK l, f : l = PteLoc(a, v) /\ f = m.word[l]
  OBVIOUS
<1>2. f \in Frame /\ l \in CountedLoc /\ l \in Loc /\ f /= Nil /\ Typed(n)
  BY <1>1, UserEntryCounted, EntriesInLoc, NilAssumption DEF Cleared
<1>3. /\ n.ref = [m.ref EXCEPT ![f] = IF @ = 0 THEN RefMod - 1 ELSE @ - 1]
      /\ n.word = [m.word EXCEPT ![l] = Nil]
  BY <1>1 DEF Cleared
<1>4. n.word[l] = Nil
  BY <1>2, <1>3, Fields
<1>5. m.word = [n.word EXCEPT ![l] = f]
  BY <1>1, <1>2, <1>3, Fields
<1>6. \A g \in Frame : m.ref[g] = IF g = f THEN (IF n.ref[g] = RefMod - 1 THEN 0 ELSE n.ref[g] + 1)
                                 ELSE n.ref[g]
  <2> SUFFICES ASSUME NEW g \in Frame
               PROVE  m.ref[g] = IF g = f THEN (IF n.ref[g] = RefMod - 1 THEN 0 ELSE n.ref[g] + 1)
                                 ELSE n.ref[g]
    OBVIOUS
  <2>1. m.ref[g] \in Nat /\ m.ref[g] < RefMod
    BY Fields
  <2>2. n.ref[g] = IF g = f THEN (IF m.ref[g] = 0 THEN RefMod - 1 ELSE m.ref[g] - 1) ELSE m.ref[g]
    BY <1>2, <1>3, Fields
  <2> QED BY <2>1, <2>2, Sizes
<1>7. m.ref = [n.ref EXCEPT ![f] = IF @ = RefMod - 1 THEN 0 ELSE @ + 1]
  <2>1. m.ref \in [Frame -> 0..(RefMod - 1)] /\ n.ref \in [Frame -> 0..(RefMod - 1)]
    BY <1>2, Fields
  <2> QED BY <2>1, <1>6
<1>8. SameSurplus(n, m)
  BY <1>2, <1>4, <1>5, <1>7, LinkSurplus
<1> QED BY <1>8 DEF SameSurplus

\* A new table comes with its reference.
LEMMA GrownSurplus ==
    ASSUME NEW m, Typed(m), NEW n, NEW l \in TableLocs, Grown(m, n, l)
    PROVE  /\ SameSurplus(m, n) /\ Typed(n)
           /\ \A k \in Loc : k /= l => n.word[k] = m.word[k]
<1>1. l \in CountedLoc /\ l \in Loc /\ Head(m.free) \in Frame
  BY EntriesInLoc, Fields DEF Grown
<1>2. \A k \in Loc : k /= l => n.word[k] = m.word[k]
  BY <1>1, Fields DEF Grown
<1>3. SameSurplus(m, n)
  BY <1>1, LinkSurplus DEF Grown
<1> QED BY <1>2, <1>3 DEF Grown

\* Only entries and counts matter.
LEMMA SurplusSame ==
    ASSUME NEW m, NEW n, n.word = m.word, n.ref = m.ref
    PROVE  SameSurplus(m, n)
BY DEF SameSurplus, Surplus, Ptrs

\* page_insert, on each of its paths.
LEMMA InsertSurplus ==
    ASSUME PagesAboveRAM, NEW m, Typed(m), Walks(m), NEW a \in Envs, NEW v \in UserVPN,
           NEW f \in Frame
    PROVE  SameSurplus(m, PageInsert(m, a, f, v).mem)
<1> DEFINE u == PudLoc(a, v)
           w == PmdLoc(a, v)
           t == PteLoc(a, v)
<1>1. u \in TableLocs /\ w \in TableLocs /\ t \in Loc /\ t \in CountedLoc /\ t /= u /\ t /= w
  BY EntriesInLoc, UserEntryCounted, DistinctEntries
<1>2. PICK r : r = PageInsert(m, a, f, v)
  OBVIOUS
<1>3. Inserted(m, r, a, v, f)
  BY <1>2, InsertSteps
<1>4. CASE r.mem = m
  BY <1>2, <1>4 DEF SameSurplus
<1>5. CASE Grown(m, r.mem, u)
  BY <1>1, <1>2, <1>5, GrownSurplus
<1>6. ASSUME NEW c, NEW d, NEW e,
             \/ c = m /\ PageLookup(m, a, v) = Nil
             \/ Cleared(m, c, a, v),
             d = c \/ Grown(c, d, u), e = d \/ Grown(d, e, w), Linked(e, r.mem, t, f)
      PROVE  SameSurplus(m, r.mem)
  <2>1. SameSurplus(m, c) /\ Typed(c) /\ c.word[t] = Nil
    <3>1. CASE c = m /\ PageLookup(m, a, v) = Nil
      <4>1. m.word[t] = Nil
        BY <3>1 DEF PageLookup, Walks
      <4> QED BY <3>1, <4>1 DEF SameSurplus
    <3>2. CASE Cleared(m, c, a, v)
      <4>1. c.word[t] = Nil
        BY <3>2, <1>1, Fields DEF Cleared
      <4> QED BY <3>2, <4>1, ClearSurplus DEF Cleared
    <3> QED BY <1>6, <3>1, <3>2
  <2>2. SameSurplus(c, d) /\ Typed(d) /\ d.word[t] = Nil
    <3>1. CASE d = c
      BY <2>1, <3>1 DEF SameSurplus
    <3>2. CASE Grown(c, d, u)
      BY <1>1, <2>1, <3>2, GrownSurplus
    <3> QED BY <1>6, <3>1, <3>2
  <2>3. SameSurplus(d, e) /\ Typed(e) /\ e.word[t] = Nil
    <3>1. CASE e = d
      BY <2>2, <3>1 DEF SameSurplus
    <3>2. CASE Grown(d, e, w)
      BY <1>1, <2>2, <3>2, GrownSurplus
    <3> QED BY <1>6, <3>1, <3>2
  <2>4. SameSurplus(e, r.mem)
    BY <1>1, <1>6, <2>3, LinkSurplus DEF Linked
  <2> QED BY <2>1, <2>2, <2>3, <2>4 DEF SameSurplus
<1>7. \/ r.mem = m
      \/ Grown(m, r.mem, u)
      \/ \E c, d, e :
            /\ \/ c = m /\ PageLookup(m, a, v) = Nil
               \/ Cleared(m, c, a, v)
            /\ d = c \/ Grown(c, d, u)
            /\ e = d \/ Grown(d, e, w)
            /\ Linked(e, r.mem, t, f)
  <2>1. CASE PageLookup(m, a, v) = f /\ r = [mem |-> m, ok |-> TRUE]
    BY <2>1
  <2>2. CASE ~(PageLookup(m, a, v) = f /\ r = [mem |-> m, ok |-> TRUE])
    BY <2>2, <1>3 DEF Inserted
  <2> QED BY <2>1, <2>2
<1> QED BY <1>2, <1>4, <1>5, <1>6, <1>7

\* A round of sys_env_alloc.
LEMMA CopySurplus ==
    ASSUME PagesAboveRAM, NEW r, NEW q, NEW a \in Envs, NEW v \in UserVPN,
           NEW k, NEW f, Copies(r, q, a, v, k, f)
    PROVE  SameSurplus(r.mem, q.mem)
<1>1. Typed(k) /\ Walks(k) /\ f \in Frame /\ k.word = r.mem.word /\ k.ref = r.mem.ref
  BY DEF Copies, Good
<1>2. SameSurplus(k, q.mem)
  BY <1>1, InsertSurplus DEF Copies
<1>3. SameSurplus(r.mem, k)
  BY <1>1, SurplusSame
<1> QED BY <1>2, <1>3 DEF SameSurplus

\* sys_env_alloc.
LEMMA ForkSurplus ==
    ASSUME PagesAboveRAM, NEW m, Good(m), NEW a \in Envs, m.word[DirLoc(a)] = Nil,
           NEW n \in Nat, StackPages(n) \subseteq UserVPN
    PROVE  SameSurplus(m, ForkEnv(m, a, n).mem)
<1>1. PICK e : e = EnvSetupVm(m, a)
  OBVIOUS
<1>2. Typed(m) /\ DirLoc(a) \in TableLocs
  BY EntriesInLoc DEF Good
<1>3. SameSurplus(m, e)
  <2>1. CASE m.free = <<>>
    <3>1. e = [m EXCEPT !.panic = TRUE]
      BY <1>1, <1>2, <2>1, SetupEffect
    <3>2. e.word = m.word /\ e.ref = m.ref
      BY <3>1, <1>2 DEF Typed, MemRec
    <3> QED BY <3>2, SurplusSame
  <2>2. CASE m.free /= <<>>
    <3>1. Grown(m, e, DirLoc(a))
      BY <1>1, <1>2, <2>2, SetupEffect
    <3> QED BY <3>1, <1>2, GrownSurplus
  <2> QED BY <2>1, <2>2
<1>4. CASE e.panic
  <2>1. ForkEnv(m, a, n).mem = e
    BY <1>1, <1>4, ForkRuns
  <2> QED BY <2>1, <1>3
<1>5. CASE ~e.panic
  <2>1. PICK S : S = {r \in GoodCopies(e) : SameSurplus(m, r.mem)}
    OBVIOUS
  <2>2. e.word[DirLoc(a)] /= Nil /\ [mem |-> e, ret |-> "ok"] \in S
    BY <1>1, <1>3, <1>5, <2>1, ForkStarts
  <2>3. ASSUME NEW r \in S \intersect GoodCopies(e), NEW v \in StackPages(n)
        PROVE  CopyPage(r, a, v) \in S
    <3>1. PICK q : q = CopyPage(r, a, v)
      OBVIOUS
    <3>2. v \in UserVPN
      OBVIOUS
    <3>3. q \in GoodCopies(e) /\ (q.mem = r.mem \/ \E k, f : Copies(r, q, a, v, k, f))
      BY <2>2, <3>1, <3>2, CopyCases
    <3>4. SameSurplus(r.mem, q.mem)
      <4>1. CASE q.mem = r.mem
        BY <4>1 DEF SameSurplus
      <4>2. CASE \E k, f : Copies(r, q, a, v, k, f)
        BY <4>2, <3>2, CopySurplus
      <4> QED BY <3>3, <4>1, <4>2
    <3>5. SameSurplus(m, q.mem)
      BY <2>1, <3>4 DEF SameSurplus
    <3> QED BY <2>1, <3>1, <3>3, <3>5
  <2>4. ForkEnv(m, a, n) \in S
    BY <1>1, <1>5, <2>2, <2>3, ForkIn
  <2> QED BY <2>1, <2>4
<1> QED BY <1>4, <1>5

\* sys_mem_alloc.
LEMMA MemAllocSurplus ==
    ASSUME PagesAboveRAM, NEW m, Good(m), NEW t \in Envs \union {BadEnv}, NEW v \in UserVPN,
           NEW perm \in BOOLEAN
    PROVE  SameSurplus(m, MemAlloc(m, t, v, perm).mem)
<1>1. PICK k, f : k = PageAlloc(m).mem /\ f = PageAlloc(m).page
  OBVIOUS
<1>2. SameSurplus(m, k)
  <2>1. k.word = m.word /\ k.ref = m.ref
    BY <1>1, AllocEffect DEF Good
  <2> QED BY <2>1, SurplusSame
<1>3. CASE ~perm \/ f = Nil
  <2>1. MemAlloc(m, t, v, perm).mem = m
    BY <1>1, <1>3 DEF MemAlloc
  <2> QED BY <2>1 DEF SameSurplus
<1>4. CASE perm /\ f /= Nil /\ t = BadEnv
  <2>1. MemAlloc(m, t, v, perm).mem = k
    BY <1>1, <1>4 DEF MemAlloc
  <2> QED BY <2>1, <1>2
<1>5. CASE perm /\ f /= Nil /\ t /= BadEnv
  <2>1. MemAlloc(m, t, v, perm).mem = PageInsert(k, t, f, v).mem
    BY <1>1, <1>5 DEF MemAlloc
  <2>2. Good(k) /\ f \in Frame
    BY <1>1, <1>5, GoodPageAlloc DEF InUse
  <2>3. SameSurplus(k, PageInsert(k, t, f, v).mem)
    BY <1>5, <2>2, InsertSurplus DEF Good
  <2> QED BY <1>2, <2>1, <2>3 DEF SameSurplus
<1> QED BY <1>3, <1>4, <1>5

\* sys_mem_map.
LEMMA MemMapSurplus ==
    ASSUME PagesAboveRAM, NEW m, Good(m), NEW s \in Envs \union {BadEnv},
           NEW d \in Envs \union {BadEnv},
           NEW sv \in UserVPN, NEW dv \in UserVPN, NEW perm \in BOOLEAN
    PROVE  SameSurplus(m, MemMap(m, s, sv, d, dv, perm).mem)
<1>1. PICK f : f = PageLookup(m, s, sv)
  OBVIOUS
<1>2. CASE BadEnv \in {s, d} \/ ~perm \/ f = Nil
  <2>1. MemMap(m, s, sv, d, dv, perm).mem = m
    BY <1>1, <1>2 DEF MemMap
  <2> QED BY <2>1 DEF SameSurplus
<1>3. CASE ~(BadEnv \in {s, d} \/ ~perm \/ f = Nil)
  <2>1. MemMap(m, s, sv, d, dv, perm).mem = PageInsert(m, d, f, dv).mem
    BY <1>1, <1>3 DEF MemMap
  <2>2. f \in Frame
    BY <1>1, <1>3, LookupEntry DEF Good
  <2>3. SameSurplus(m, PageInsert(m, d, f, dv).mem)
    BY <1>3, <2>2, InsertSurplus DEF Good
  <2> QED BY <2>1, <2>3
<1> QED BY <1>2, <1>3

\* sys_mem_unmap.
LEMMA MemUnmapSurplus ==
    ASSUME PagesAboveRAM, NEW m, Good(m), NEW t \in Envs \union {BadEnv}, NEW v \in UserVPN
    PROVE  SameSurplus(m, MemUnmap(m, t, v).mem)
<1>1. CASE t = BadEnv
  BY <1>1 DEF MemUnmap, SameSurplus
<1>2. CASE t /= BadEnv
  <2>1. PICK n : n = PageRemove(m, t, v)
    OBVIOUS
  <2>2. MemUnmap(m, t, v).mem = n
    BY <1>2, <2>1 DEF MemUnmap
  <2>3. n = m \/ Cleared(m, n, t, v)
    BY <1>2, <2>1, RemoveSteps DEF Good
  <2>4. SameSurplus(m, n)
    BY <1>2, <2>3, ClearSurplus DEF SameSurplus, Good
  <2> QED BY <2>2, <2>4
<1> QED BY <1>1, <1>2

\* The same for a step of the system.
LEMMA SurplusStep ==
    ASSUME PagesAboveRAM, Good(mem), Next, last'.op \notin {"destroy", "stray"}, phase' = "user"
    PROVE  \A f \in Frame : Surplus(mem', f) = Surplus(mem, f)
<1> SUFFICES SameSurplus(mem, mem')
  BY DEF SameSurplus
<1>0. /\ \A a \in Envs : a \in Live <=> mem.word[DirLoc(a)] /= Nil
      /\ Target \subseteq Envs \union {BadEnv}
  BY DEF Live, Target
<1>2. ASSUME NEW a \in Envs, Create(a) PROVE FALSE
  BY <1>2 DEF Create
<1>3. ASSUME NEW c \in Envs, NEW a \in Envs, Fork(c, a) PROVE SameSurplus(mem, mem')
  <2>1. PICK n \in Nat : /\ StackPages(n) \subseteq UserVPN /\ mem.word[DirLoc(a)] = Nil
                         /\ mem' = ForkEnv(mem, a, n).mem
    BY <1>3, ForkStep
  <2> QED BY <2>1, ForkSurplus
<1>4. ASSUME NEW t \in Target, NEW v \in UserVPN, NEW perm \in BOOLEAN, Alloc(t, v, perm)
      PROVE  SameSurplus(mem, mem')
  BY <1>0, <1>4, MemAllocSurplus DEF Alloc, Finish
<1>5. ASSUME NEW s \in Target, NEW d \in Target, NEW sv \in UserVPN, NEW dv \in UserVPN,
             NEW perm \in BOOLEAN, Map(s, sv, d, dv, perm)
      PROVE  SameSurplus(mem, mem')
  BY <1>0, <1>5, MemMapSurplus DEF Map, Finish
<1>6. ASSUME NEW t \in Target, NEW v \in UserVPN, Unmap(t, v) PROVE SameSurplus(mem, mem')
  BY <1>0, <1>6, MemUnmapSurplus DEF Unmap, Finish
<1>7. ASSUME NEW a \in Envs, Destroy(a) \/ DestroyAstray(a) PROVE FALSE
  BY <1>7 DEF Destroy, DestroyAstray, Finish
<1> QED BY <1>2, <1>3, <1>4, <1>5, <1>6, <1>7 DEF Next

\* page_insert, page_remove and the calls built on them count every entry they write and
\* uncount every entry they clear: only env_create_priority and env_free leave pp_ref out of
\* step with the tables.  This holds past the wrap of a count too.
THEOREM CallsKeepSurplus ==
    ASSUME PagesAboveRAM
    PROVE  Spec => CallsKeepCounts
<1>1. GoodMem /\ History /\ [Next]_vars =>
        [last'.op \notin {"destroy", "stray"} /\ phase' = "user" =>
            \A f \in Frame : Surplus(mem', f) = Surplus(mem, f)]_vars
  BY StrayIsLast, SurplusStep
<1> QED BY <1>1, MemInvariant, HistoryInvariant, PTL DEF Spec, CallsKeepCounts

-----------------------------------------------------------------------------
(* LossIsReported: a frame taken from the free list is counted before the  *)
(* call ends, unless the call fails.                                       *)

\* n has come from m without losing a frame.
NoLoss(m, n) == ~n.wrapped => ~m.wrapped /\ Lost(n) \subseteq Lost(m)

\* A lost frame is counted nowhere and not queued.
LEMMA LostIs ==
    ASSUME NEW m
    PROVE  Lost(m) = {f \in Frame : m.ref[f] = 0 /\ f \notin Elements(m.free)}
BY DEF Lost, Elements

\* Taking the head of a list leaves its other elements.
LEMMA HeadOrTail ==
    ASSUME NEW S, NEW q \in Seq(S), q /= <<>>, NEW x \in Elements(q), x /= Head(q)
    PROVE  x \in Elements(Tail(q))
<1>1. /\ Len(q) \in Nat /\ Len(q) >= 1 /\ DOMAIN q = 1..Len(q)
      /\ Head(q) = q[1] /\ DOMAIN Tail(q) = 1..(Len(q) - 1)
      /\ \A i \in 1..(Len(q) - 1) : Tail(q)[i] = q[i + 1]
  OBVIOUS
<1>2. PICK i \in 1..Len(q) : x = q[i]
  BY <1>1 DEF Elements
<1>3. i - 1 \in 1..(Len(q) - 1) /\ Tail(q)[i - 1] = x
  BY <1>1, <1>2
<1> QED BY <1>1, <1>3 DEF Elements

\* Losses are counted from step to step.
LEMMA NoLossTransitive ==
    ASSUME NEW m, NEW k, NEW n, NoLoss(m, k), NoLoss(k, n)
    PROVE  NoLoss(m, n)
BY DEF NoLoss

\* A frame that is linked is counted.
LEMMA LinkedLost ==
    ASSUME NEW m, Typed(m), NEW n, NEW l, NEW f \in Frame, Linked(m, n, l, f)
    PROVE  NoLoss(m, n) /\ (~n.wrapped => f \notin Lost(n))
<1> SUFFICES ASSUME ~n.wrapped
             PROVE  ~m.wrapped /\ Lost(n) \subseteq Lost(m) /\ f \notin Lost(n)
  BY DEF NoLoss
<1>1. ~m.wrapped /\ m.ref[f] /= RefMod - 1 /\ n.free = m.free
  BY DEF Linked
<1>2. \A g \in Frame : n.ref[g] = IF g = f THEN m.ref[g] + 1 ELSE m.ref[g]
  BY <1>1, Fields DEF Linked
<1>3. n.ref[f] /= 0
  BY <1>2, Fields
<1> QED BY <1>1, <1>2, <1>3, LostIs

\* A frame made a table leaves the free list and is counted.
LEMMA GrownLost ==
    ASSUME NEW m, Typed(m), NEW n, NEW l, Grown(m, n, l)
    PROVE  NoLoss(m, n)
<1> SUFFICES ASSUME ~n.wrapped PROVE ~m.wrapped /\ Lost(n) \subseteq Lost(m)
  BY DEF NoLoss
<1>1. PICK h : h = Head(m.free)
  OBVIOUS
<1>2. h \in Frame /\ m.free /= <<>> /\ m.free \in Seq(Frame)
  BY <1>1, Fields DEF Grown
<1>3. ~m.wrapped /\ m.ref[h] /= RefMod - 1 /\ n.free = Tail(m.free)
  BY <1>1 DEF Grown
<1>4. \A g \in Frame : n.ref[g] = IF g = h THEN m.ref[g] + 1 ELSE m.ref[g]
  BY <1>1, <1>2, <1>3, Fields DEF Grown
<1>5. n.ref[h] /= 0
  BY <1>2, <1>4, Fields
<1>6. \A g \in Elements(m.free) : g /= h => g \in Elements(n.free)
  BY <1>1, <1>2, <1>3, HeadOrTail
<1> QED BY <1>3, <1>4, <1>5, <1>6, LostIs

\* page_remove queues the frame when its count becomes zero; the count was not zero before.
LEMMA ClearedLost ==
    ASSUME PagesAboveRAM, NEW m, Good(m), NEW n, NEW a \in Envs, NEW v \in UserVPN,
           Cleared(m, n, a, v)
    PROVE  NoLoss(m, n)
<1> SUFFICES ASSUME ~n.wrapped PROVE ~m.wrapped /\ Lost(n) \subseteq Lost(m)
  BY DEF NoLoss
<1>1. PICK l, f : l = PteLoc(a, v) /\ f = m.word[l]
  OBVIOUS
<1>2. f \in Frame /\ l \in CountedLoc /\ ~m.wrapped
  BY <1>1, UserEntryCounted DEF Cleared
<1>3. Typed(m) /\ Covers(m) /\ m.free \in Seq(Frame)
  BY <1>2, Fields DEF Good, Sound
<1>4. m.ref[f] \in Nat /\ m.ref[f] >= 1
  <2>1. l \in Ptrs(m, f)
    BY <1>1, <1>2 DEF Ptrs
  <2>2. Cardinality(Ptrs(m, f)) \in Nat /\ Cardinality(Ptrs(m, f)) /= 0
    BY <2>1, PointersFinite
  <2>3. Cardinality(Ptrs(m, f)) <= m.ref[f] /\ m.ref[f] \in Nat
    BY <1>2, <1>3, Fields DEF Covers
  <2> QED BY <2>2, <2>3
<1>5. /\ n.free = IF m.ref[f] = 1 THEN <<f>> \o m.free ELSE m.free
      /\ n.ref = [m.ref EXCEPT ![f] = IF @ = 0 THEN RefMod - 1 ELSE @ - 1]
  BY <1>1 DEF Cleared
<1>6. \A g \in Frame : n.ref[g] = IF g = f THEN m.ref[g] - 1 ELSE m.ref[g]
  BY <1>3, <1>4, <1>5, Fields
<1>7. Elements(m.free) \subseteq Elements(n.free) /\ (m.ref[f] = 1 => f \in Elements(n.free))
  <2>1. CASE m.ref[f] = 1
    <3>1. n.free = <<f>> \o m.free
      BY <2>1, <1>5
    <3>2. PICK q \in Seq(Frame) : q = m.free
      BY <1>3
    <3>3. 1 \in DOMAIN (<<f>> \o q) /\ (<<f>> \o q)[1] = f
      BY <1>2, <3>2
    <3>4. \A i \in DOMAIN q : i + 1 \in DOMAIN (<<f>> \o q) /\ (<<f>> \o q)[i + 1] = q[i]
      BY <1>2, <3>2
    <3> QED BY <3>1, <3>2, <3>3, <3>4 DEF Elements
  <2>2. CASE m.ref[f] /= 1
    BY <2>2, <1>5
  <2> QED BY <2>1, <2>2
<1>8. f \notin Lost(n)
  BY <1>2, <1>4, <1>6, <1>7, LostIs
<1> QED BY <1>2, <1>6, <1>7, <1>8, LostIs

\* The frame a page_insert has put in the table is not lost.
LEMMA InsertLost ==
    ASSUME PagesAboveRAM, NEW m, Good(m), NEW a \in Envs, m.word[DirLoc(a)] /= Nil,
           NEW v \in UserVPN, NEW f, InUse(m, f)
    PROVE  LET r == PageInsert(m, a, f, v)
           IN  /\ NoLoss(m, r.mem)
               /\ ~r.mem.wrapped /\ r.ok /\ PageLookup(m, a, v) /= f => f \notin Lost(r.mem)
<1> DEFINE u == PudLoc(a, v)
           w == PmdLoc(a, v)
           t == PteLoc(a, v)
<1>1. Typed(m) /\ f \in Frame
  BY DEF Good, InUse
<1>2. PICK r : r = PageInsert(m, a, f, v)
  OBVIOUS
<1>3. Inserted(m, r, a, v, f)
  BY <1>1, <1>2, InsertSteps
<1> SUFFICES /\ NoLoss(m, r.mem)
             /\ ~r.mem.wrapped /\ r.ok /\ PageLookup(m, a, v) /= f => f \notin Lost(r.mem)
  BY <1>2
<1>4. CASE PageLookup(m, a, v) = f /\ r = [mem |-> m, ok |-> TRUE]
  BY <1>4 DEF NoLoss
<1>5. CASE r.ok = FALSE /\ (r.mem = m \/ Grown(m, r.mem, u))
  <2>1. NoLoss(m, r.mem)
    BY <1>1, <1>5, GrownLost DEF NoLoss
  <2> QED BY <2>1, <1>5
<1>6. ASSUME NEW c, NEW d, NEW e,
             c = m \/ Cleared(m, c, a, v),
             d = c \/ Grown(c, d, u), e = d \/ Grown(d, e, w), Linked(e, r.mem, t, f)
      PROVE  NoLoss(m, r.mem) /\ (~r.mem.wrapped => f \notin Lost(r.mem))
  <2>1. NoLoss(m, c) /\ Typed(c)
    BY <1>1, <1>6, ClearedLost DEF NoLoss, Cleared
  <2>2. NoLoss(c, d) /\ Typed(d)
    BY <1>6, <2>1, GrownLost DEF NoLoss, Grown
  <2>3. NoLoss(d, e) /\ Typed(e)
    BY <1>6, <2>2, GrownLost DEF NoLoss, Grown
  <2>4. NoLoss(e, r.mem) /\ (~r.mem.wrapped => f \notin Lost(r.mem))
    BY <1>1, <1>6, <2>3, LinkedLost
  <2> QED BY <2>1, <2>2, <2>3, <2>4, NoLossTransitive
<1>7. \/ PageLookup(m, a, v) = f /\ r = [mem |-> m, ok |-> TRUE]
      \/ r.ok = FALSE /\ (r.mem = m \/ Grown(m, r.mem, u))
      \/ \E c, d, e :
            /\ c = m \/ Cleared(m, c, a, v)
            /\ d = c \/ Grown(c, d, u)
            /\ e = d \/ Grown(d, e, w)
            /\ Linked(e, r.mem, t, f)
  BY <1>3 DEF Inserted
<1> QED BY <1>4, <1>5, <1>6, <1>7

\* page_alloc loses the frame it returns until somebody counts it.
LEMMA AllocLost ==
    ASSUME NEW m, Typed(m), PageAlloc(m).page /= Nil
    PROVE  LET r == PageAlloc(m)
           IN  r.mem.wrapped = m.wrapped /\ Lost(r.mem) \subseteq Lost(m) \union {r.page}
<1>1. PICK k, f : k = PageAlloc(m).mem /\ f = PageAlloc(m).page
  OBVIOUS
<1>2. m.free /= <<>> /\ m.free \in Seq(Frame) /\ f = Head(m.free) /\ k.free = Tail(m.free)
      /\ k.ref = m.ref /\ k.wrapped = m.wrapped
  BY <1>1, AllocEffect, Fields
<1>3. \A g \in Elements(m.free) : g /= f => g \in Elements(k.free)
  BY <1>2, HeadOrTail
<1>4. Lost(k) \subseteq Lost(m) \union {f}
  BY <1>2, <1>3, LostIs
<1> QED BY <1>1, <1>2, <1>4

\* n has come from m with one frame lost at most.
OneLoss(m, n) == ~n.wrapped => ~m.wrapped /\ \E x : Lost(n) \subseteq Lost(m) \union {x}

\* No loss is at most one.
LEMMA NoLossIsOne ==
    ASSUME NEW m, NEW n, NoLoss(m, n)
    PROVE  OneLoss(m, n)
BY DEF NoLoss, OneLoss

\* env_setup_vm.
LEMMA SetupLost ==
    ASSUME NEW m, Typed(m), NEW a \in Envs, m.word[DirLoc(a)] = Nil
    PROVE  NoLoss(m, EnvSetupVm(m, a))
<1>1. CASE m.free = <<>>
  <2>1. PICK e : e = EnvSetupVm(m, a)
    OBVIOUS
  <2>2. e = [m EXCEPT !.panic = TRUE]
    BY <1>1, <2>1, SetupEffect
  <2>3. e.free = m.free /\ e.ref = m.ref /\ e.wrapped = m.wrapped
    BY <2>2 DEF Typed, MemRec
  <2> QED BY <2>1, <2>3 DEF NoLoss, Lost
<1>2. CASE m.free /= <<>>
  BY <1>2, SetupEffect, GrownLost
<1> QED BY <1>1, <1>2

\* env_create_priority counts the stack page before it is mapped.
LEMMA CreateLost ==
    ASSUME PagesAboveRAM, NEW m, Good(m), NEW a \in Envs, m.word[DirLoc(a)] = Nil,
           Len(m.free) >= 4
    PROVE  NoLoss(m, CreateEnv(m, a))
<1>1. Typed(m)
  BY DEF Good
<1>2. PICK e : e = EnvSetupVm(m, a)
  OBVIOUS
<1>3. m.free /= <<>> /\ Tail(m.free) /= <<>>
  BY <1>1, TwoLeft
<1>4. Good(e) /\ e.word[DirLoc(a)] /= Nil /\ e.free /= <<>> /\ NoLoss(m, e)
  BY <1>1, <1>2, <1>3, GoodSetup, SetupLost
<1>5. PICK k, f : k = PageAlloc(e).mem /\ f = PageAlloc(e).page
  OBVIOUS
<1>6. f /= Nil
  BY <1>4, <1>5, AllocEffect DEF Good
<1>7. Good(k) /\ SameDirs(e, k) /\ InUse(k, f)
  BY <1>4, <1>5, <1>6, GoodPageAlloc
<1>8. k.wrapped = e.wrapped /\ Lost(k) \subseteq Lost(e) \union {f}
  BY <1>4, <1>5, <1>6, AllocLost DEF Good
<1>9. PICK c : c = CountUp(k, f)
  OBVIOUS
<1>10. Good(c) /\ SameDirs(k, c) /\ InUse(c, f)
  BY <1>7, <1>9, GoodCountUp
<1>11. NoLoss(k, c) /\ (~c.wrapped => f \notin Lost(c))
  <2>1. f \in Frame /\ Typed(k)
    BY <1>7 DEF InUse, Good
  <2>2. /\ c.free = k.free
        /\ c.ref = [k.ref EXCEPT ![f] = IF @ = RefMod - 1 THEN 0 ELSE @ + 1]
        /\ c.wrapped = (k.wrapped \/ k.ref[f] = RefMod - 1)
    BY <2>1, <1>9, CountUpEffect
  <2> SUFFICES ASSUME ~c.wrapped
               PROVE  ~k.wrapped /\ Lost(c) \subseteq Lost(k) /\ f \notin Lost(c)
    BY DEF NoLoss
  <2>3. ~k.wrapped /\ k.ref[f] /= RefMod - 1
    BY <2>2
  <2>4. \A g \in Frame : c.ref[g] = IF g = f THEN k.ref[g] + 1 ELSE k.ref[g]
    BY <2>1, <2>2, <2>3, Fields
  <2>5. c.ref[f] /= 0
    BY <2>1, <2>4, Fields
  <2> QED BY <2>2, <2>3, <2>4, <2>5, LostIs
<1>12. PICK n : n = PageInsert(c, a, f, STACK).mem
  OBVIOUS
<1>13. NoLoss(c, n)
  <2>1. c.word[DirLoc(a)] /= Nil
    BY <1>4, <1>7, <1>10 DEF SameDirs
  <2> QED BY <2>1, <1>10, <1>12, InsertLost, StackAssumption
<1>14. CreateEnv(m, a) = n
  BY <1>2, <1>5, <1>9, <1>12 DEF CreateEnv
<1>15. NoLoss(m, n)
  <2> SUFFICES ASSUME ~n.wrapped PROVE ~m.wrapped /\ Lost(n) \subseteq Lost(m)
    BY DEF NoLoss
  <2>1. ~c.wrapped /\ Lost(n) \subseteq Lost(c)
    BY <1>13 DEF NoLoss
  <2>2. ~k.wrapped /\ Lost(c) \subseteq Lost(k) /\ f \notin Lost(c)
    BY <2>1, <1>11 DEF NoLoss
  <2>3. ~m.wrapped /\ Lost(e) \subseteq Lost(m)
    BY <2>2, <1>4, <1>8 DEF NoLoss
  <2> QED BY <2>1, <2>2, <2>3, <1>8
<1> QED BY <1>14, <1>15

\* page_insert fails only when no frame is left.
LEMMA InsertEmpties ==
    ASSUME NEW m, Typed(m), Walks(m), NEW a \in Envs, NEW v \in UserVPN, NEW f \in Frame,
           NEW r, r = PageInsert(m, a, f, v), ~r.ok
    PROVE  r.mem.free = <<>>
<1>1. Typed(r.mem)
  <2>1. Inserted(m, r, a, v, f)
    BY InsertSteps
  <2>2. r.mem = m \/ Grown(m, r.mem, PudLoc(a, v))
    BY <2>1 DEF Inserted
  <2> QED BY <2>2 DEF Grown
<1>2. \A x, l : ~GrowTable(x, l).ok => GrowTable(x, l).mem = x /\ PageAlloc(x).page = Nil
  <2> SUFFICES ASSUME NEW x, NEW l, ~GrowTable(x, l).ok
               PROVE  GrowTable(x, l).mem = x /\ PageAlloc(x).page = Nil
    OBVIOUS
  <2>1. x.word[l] = Nil /\ PageAlloc(x).page = Nil
    BY DEF GrowTable
  <2> QED BY <2>1 DEF GrowTable
<1>3. PICK c : c = PageRemove(m, a, v)
  OBVIOUS
<1>4. PICK w : w = PgdirWalkCreate(c, a, v)
  OBVIOUS
<1>5. r = w /\ ~w.ok
  BY <1>3, <1>4 DEF PageInsert
<1>6. PageAlloc(w.mem).page = Nil
  <2>1. PICK p : p = GrowTable(c, PudLoc(a, v))
    OBVIOUS
  <2>2. w = IF p.ok THEN GrowTable(p.mem, PmdLoc(a, v)) ELSE p
    BY <1>4, <2>1 DEF PgdirWalkCreate
  <2>3. CASE ~p.ok
    BY <1>2, <2>1, <2>2, <2>3
  <2>4. CASE p.ok
    BY <1>2, <1>5, <2>2, <2>4
  <2> QED BY <2>3, <2>4
<1> QED BY <1>1, <1>5, <1>6, AllocEffect

\* One round of sys_env_alloc ignores a failure of page_insert: the new page is lost then, and
\* no frame is left.  The new page is mapped nowhere yet, so that page_insert does not take it
\* for the present mapping.
LEMMA CopyLost ==
    ASSUME PagesAboveRAM, NEW r, NEW q, NEW a \in Envs, NEW v \in UserVPN,
           NEW k, NEW f, Copies(r, q, a, v, k, f)
    PROVE  NoLoss(r.mem, q.mem) \/ (OneLoss(r.mem, q.mem) /\ q.mem.free = <<>>)
<1>1. PICK x : x = r.mem
  OBVIOUS
<1>2. /\ Typed(x) /\ Sound(x) /\ x.free /= <<>> /\ f = Head(x.free) /\ f \in Frame
      /\ Good(k) /\ Typed(k) /\ Walks(k) /\ InUse(k, f) /\ k.word[DirLoc(a)] /= Nil
      /\ k.free = Tail(x.free) /\ k.word = x.word /\ k.ref = x.ref /\ k.wrapped = x.wrapped
  BY <1>1 DEF Copies, Good
<1>3. Lost(k) \subseteq Lost(x) \union {f}
  <2>1. x.free \in Seq(Frame)
    BY <1>2, Fields
  <2>2. \A g \in Elements(x.free) : g /= f => g \in Elements(k.free)
    BY <1>2, <2>1, HeadOrTail
  <2> QED BY <1>2, <2>2, LostIs
<1>4. PICK i : i = PageInsert(k, a, f, v)
  OBVIOUS
<1>5. q.mem = i.mem
  BY <1>4 DEF Copies
<1>6. /\ NoLoss(k, i.mem)
      /\ ~i.mem.wrapped /\ i.ok /\ PageLookup(k, a, v) /= f => f \notin Lost(i.mem)
  BY <1>2, <1>4, InsertLost
<1>7. ~i.mem.wrapped => ~x.wrapped /\ Lost(i.mem) \subseteq Lost(x) \union {f}
  BY <1>2, <1>3, <1>6 DEF NoLoss
<1>8. CASE ~i.ok
  <2>1. i.mem.free = <<>>
    BY <1>2, <1>4, <1>8, InsertEmpties
  <2> QED BY <1>1, <1>5, <1>7, <2>1 DEF OneLoss
<1>9. CASE i.ok
  <2>1. ~x.wrapped => PageLookup(k, a, v) /= f
    <3> SUFFICES ASSUME ~x.wrapped, PageLookup(k, a, v) = f PROVE FALSE
      OBVIOUS
    <3>1. \A l \in CountedLoc : k.word[l] /= f
      BY <1>2, AllocSound
    <3>2. f = k.word[PteLoc(a, v)]
      BY <1>2, LookupEntry, NilAssumption
    <3> QED BY <3>1, <3>2, UserEntryCounted
  <2>2. NoLoss(x, i.mem)
    BY <1>6, <1>7, <1>9, <2>1 DEF NoLoss
  <2> QED BY <1>1, <1>5, <2>2
<1> QED BY <1>8, <1>9

\* sys_env_alloc loses one page at most: no round finds a frame after the loss.
LEMMA ForkLost ==
    ASSUME PagesAboveRAM, NEW m, Good(m), NEW a \in Envs, m.word[DirLoc(a)] = Nil,
           NEW n \in Nat, StackPages(n) \subseteq UserVPN
    PROVE  OneLoss(m, ForkEnv(m, a, n).mem)
<1>1. PICK e : e = EnvSetupVm(m, a)
  OBVIOUS
<1>2. NoLoss(m, e)
  BY <1>1, SetupLost DEF Good
<1>3. CASE e.panic
  <2>1. ForkEnv(m, a, n).mem = e
    BY <1>1, <1>3, ForkRuns
  <2> QED BY <1>2, <2>1, NoLossIsOne
<1>4. CASE ~e.panic
  <2> DEFINE Lossless(x) == NoLoss(m, x) \/ (OneLoss(m, x) /\ x.free = <<>>)
  <2>1. PICK S : S = {r \in GoodCopies(e) : Lossless(r.mem)}
    OBVIOUS
  <2>2. e.word[DirLoc(a)] /= Nil /\ [mem |-> e, ret |-> "ok"] \in S
    BY <1>1, <1>2, <1>4, <2>1, ForkStarts
  <2>3. ASSUME NEW r \in S \intersect GoodCopies(e), NEW v \in StackPages(n)
        PROVE  CopyPage(r, a, v) \in S
    <3>1. PICK q : q = CopyPage(r, a, v)
      OBVIOUS
    <3>2. v \in UserVPN /\ Lossless(r.mem)
      BY <2>1
    <3>3. q \in GoodCopies(e) /\ (q.mem = r.mem \/ \E k, f : Copies(r, q, a, v, k, f))
      BY <2>2, <3>1, <3>2, CopyCases
    <3>4. Lossless(q.mem)
      <4>1. CASE q.mem = r.mem
        BY <3>2, <4>1
      <4>2. CASE \E k, f : Copies(r, q, a, v, k, f)
        <5>1. r.mem.free /= <<>>
          BY <4>2 DEF Copies
        <5>2. NoLoss(m, r.mem)
          BY <3>2, <5>1
        <5>3. NoLoss(r.mem, q.mem) \/ (OneLoss(r.mem, q.mem) /\ q.mem.free = <<>>)
          BY <4>2, <3>2, CopyLost
        <5>4. ASSUME OneLoss(r.mem, q.mem) PROVE OneLoss(m, q.mem)
          BY <5>2, <5>4 DEF NoLoss, OneLoss
        <5> QED BY <5>2, <5>3, <5>4, NoLossTransitive
      <4> QED BY <3>3, <4>1, <4>2
    <3> QED BY <2>1, <3>1, <3>3, <3>4
  <2>4. ForkEnv(m, a, n) \in S
    BY <1>1, <1>4, <2>2, <2>3, ForkIn
  <2> QED BY <2>1, <2>4, NoLossIsOne
<1> QED BY <1>3, <1>4

\* sys_mem_alloc loses its frame only on an error: the new frame is mapped nowhere yet, so
\* that page_insert does not take it for the present mapping.
LEMMA MemAllocLost ==
    ASSUME PagesAboveRAM, NEW m, Good(m),
           NEW t, t = BadEnv \/ (t \in Envs /\ m.word[DirLoc(t)] /= Nil),
           NEW v \in UserVPN, NEW perm \in BOOLEAN
    PROVE  LET r == MemAlloc(m, t, v, perm)
           IN  OneLoss(m, r.mem) /\ (r.ret = "ok" => NoLoss(m, r.mem))
<1>1. PICK k, f : k = PageAlloc(m).mem /\ f = PageAlloc(m).page
  OBVIOUS
<1>2. PICK r : r = MemAlloc(m, t, v, perm)
  OBVIOUS
<1> SUFFICES OneLoss(m, r.mem) /\ (r.ret = "ok" => NoLoss(m, r.mem))
  BY <1>2
<1>3. CASE ~perm \/ f = Nil
  <2>1. r.mem = m
    BY <1>1, <1>2, <1>3 DEF MemAlloc
  <2> QED BY <2>1 DEF OneLoss, NoLoss
<1>4. CASE perm /\ f /= Nil
  <2>1. Typed(m) /\ Sound(m)
    BY DEF Good
  <2>2. Good(k) /\ SameDirs(m, k) /\ InUse(k, f)
    BY <1>1, <1>4, GoodPageAlloc
  <2>3. k.wrapped = m.wrapped /\ Lost(k) \subseteq Lost(m) \union {f}
    BY <1>1, <1>4, <2>1, AllocLost
  <2>4. CASE t = BadEnv
    <3>1. r.mem = k /\ r.ret = "bad_env"
      BY <1>1, <1>2, <1>4, <2>4 DEF MemAlloc
    <3> QED BY <3>1, <2>3 DEF OneLoss
  <2>5. CASE t /= BadEnv
    <3>1. PICK i : i = PageInsert(k, t, f, v)
      OBVIOUS
    <3>2. r = [mem |-> i.mem, ret |-> IF i.ok THEN "ok" ELSE "no_mem"]
      BY <1>1, <1>2, <1>4, <2>5, <3>1 DEF MemAlloc
    <3>3. r.mem = i.mem /\ (r.ret = "ok" => i.ok)
      BY <3>2
    <3>4. t \in Envs /\ k.word[DirLoc(t)] /= Nil
      BY <2>2, <2>5 DEF SameDirs
    <3>5. /\ NoLoss(k, i.mem)
          /\ ~i.mem.wrapped /\ i.ok /\ PageLookup(k, t, v) /= f => f \notin Lost(i.mem)
      BY <2>2, <3>1, <3>4, InsertLost
    <3>6. ~m.wrapped => PageLookup(k, t, v) /= f
      <4> SUFFICES ASSUME ~m.wrapped, PageLookup(k, t, v) = f PROVE FALSE
        OBVIOUS
      <4>1. /\ m.free /= <<>> /\ f = Head(m.free) /\ Typed(k) /\ k.free = Tail(m.free)
            /\ k.ref = m.ref /\ k.word = m.word
        BY <1>1, <1>4, <2>1, AllocEffect
      <4>2. \A l \in CountedLoc : k.word[l] /= f
        BY <2>1, <2>3, <4>1, AllocSound
      <4>3. f = k.word[PteLoc(t, v)]
        BY <1>4, <3>4, <4>1, LookupEntry
      <4> QED BY <3>4, <4>2, <4>3, UserEntryCounted
    <3>7. ~i.mem.wrapped => ~m.wrapped /\ Lost(i.mem) \subseteq Lost(m) \union {f}
      BY <2>3, <3>5 DEF NoLoss
    <3>8. r.ret = "ok" => NoLoss(m, r.mem)
      BY <3>3, <3>5, <3>6, <3>7 DEF NoLoss
    <3> QED BY <3>3, <3>7, <3>8 DEF OneLoss
  <2> QED BY <2>4, <2>5
<1> QED BY <1>3, <1>4

\* sys_mem_map takes a frame that is counted already.
LEMMA MemMapLost ==
    ASSUME PagesAboveRAM, NEW m, Good(m), NEW s \in Envs \union {BadEnv},
           NEW d, d = BadEnv \/ (d \in Envs /\ m.word[DirLoc(d)] /= Nil),
           NEW sv \in UserVPN, NEW dv \in UserVPN, NEW perm \in BOOLEAN
    PROVE  NoLoss(m, MemMap(m, s, sv, d, dv, perm).mem)
<1>1. PICK f : f = PageLookup(m, s, sv)
  OBVIOUS
<1>2. CASE BadEnv \in {s, d} \/ ~perm \/ f = Nil
  BY <1>1, <1>2 DEF MemMap, NoLoss
<1>3. CASE ~(BadEnv \in {s, d} \/ ~perm \/ f = Nil)
  <2>1. MemMap(m, s, sv, d, dv, perm).mem = PageInsert(m, d, f, dv).mem
    BY <1>1, <1>3 DEF MemMap
  <2>2. InUse(m, f)
    BY <1>1, <1>3, MappedInUse
  <2>3. NoLoss(m, PageInsert(m, d, f, dv).mem)
    BY <1>3, <2>2, InsertLost
  <2> QED BY <2>1, <2>3
<1> QED BY <1>2, <1>3

\* sys_mem_unmap.
LEMMA MemUnmapLost ==
    ASSUME PagesAboveRAM, NEW m, Good(m), NEW t \in Envs \union {BadEnv}, NEW v \in UserVPN
    PROVE  NoLoss(m, MemUnmap(m, t, v).mem)
<1>1. CASE t = BadEnv
  BY <1>1 DEF MemUnmap, NoLoss
<1>2. CASE t /= BadEnv
  <2>1. PICK n : n = PageRemove(m, t, v)
    OBVIOUS
  <2>2. MemUnmap(m, t, v).mem = n
    BY <1>2, <2>1 DEF MemUnmap
  <2>3. n = m \/ Cleared(m, n, t, v)
    BY <1>2, <2>1, RemoveSteps DEF Good
  <2>4. NoLoss(m, n)
    BY <1>2, <2>3, ClearedLost DEF NoLoss
  <2> QED BY <2>2, <2>4
<1> QED BY <1>1, <1>2

\* A release order is complete: every frame whose count drops to zero is queued.
LEMMA ReleaseAll ==
    ASSUME NEW m, NEW a \in Envs, NEW T, T = FreedTables(m, a), NEW s \in ReleaseOrders(m, T)
    PROVE  Elements(s) = Released(m, T)
<1> DEFINE R == Released(m, T)
           n == Cardinality(R)
<1>1. Once(s) /\ Elements(s) \subseteq R /\ R \subseteq Frame
  BY ReleaseOnce DEF Released
<1>2. IsFiniteSet(R) /\ n \in Nat
  <2>1. IsFiniteSet(Frame)
    BY FS_Interval, Sizes DEF Frame
  <2> QED BY <1>1, <2>1, FS_Subset, FS_CardinalityType
<1>3. s \in [1..n -> R]
  BY DEF ReleaseOrders
<1>4. IsFiniteSet(1..n) /\ Cardinality(1..n) = n
  <2> HIDE DEF n
  <2>1. IsFiniteSet(1..n) /\ Cardinality(1..n) = IF 1 > n THEN 0 ELSE n - 1 + 1
    BY <1>2, FS_Interval
  <2> QED BY <2>1, <1>2
<1> HIDE DEF R
<1>5. s \in Injection(1..n, R)
  BY <1>1, <1>3 DEF Injection, IsInjective, Once
<1>6. s \in Surjection(1..n, R)
  BY <1>2, <1>4, <1>5, FS_Injection
<1>7. R \subseteq Elements(s)
  BY <1>3, <1>6 DEF Surjection, Elements
<1> QED BY <1>1, <1>7 DEF R

\* env_free queues every table whose count it drops.
LEMMA FreeLost ==
    ASSUME PagesAboveRAM, NEW m, Good(m), NEW a \in Envs, NEW T, T = FreedTables(m, a),
           NEW s \in ReleaseOrders(m, T)
    PROVE  NoLoss(m, EnvFree(m, a, T, s))
<1>1. PICK n : n = EnvFree(m, a, T, s)
  OBVIOUS
<1>2. Typed(m) /\ Sound(m)
  BY DEF Good
<1>3. /\ n.free = s \o m.free /\ n.wrapped = m.wrapped
      /\ \A f \in Frame : n.ref[f] = IF f \in Removed(m, T) THEN Less(m, f) ELSE m.ref[f]
  BY <1>1, <1>2, FreeEffect
<1> SUFFICES ASSUME ~n.wrapped PROVE Lost(n) \subseteq Lost(m)
  BY <1>1, <1>3 DEF NoLoss
<1>4. \A f \in Removed(m, T) : f \in Released(m, T)
  <2> SUFFICES ASSUME NEW l \in T PROVE m.ref[m.word[l]] = 1
    BY DEF Removed, Released
  <2>1. l \in TableLocs /\ m.word[l] \in Frame
    BY VisitedAreOwn
  <2> QED BY <2>1, <1>2, <1>3 DEF Sound, Exclusive
<1>5. Elements(s) \subseteq Elements(n.free) /\ Elements(m.free) \subseteq Elements(n.free)
  <2>1. s \in Seq(Frame)
    BY ReleaseOnce
  <2>2. PICK q \in Seq(Frame) : q = m.free
    BY <1>2, Fields
  <2>3. \A i \in DOMAIN s : i \in DOMAIN (s \o q) /\ (s \o q)[i] = s[i]
    BY <2>1
  <2>4. \A i \in DOMAIN q : i + Len(s) \in DOMAIN (s \o q) /\ (s \o q)[i + Len(s)] = q[i]
    BY <2>1
  <2>5. PICK r : r = s \o q
    OBVIOUS
  <2>6. Elements(s) \subseteq Elements(r) /\ Elements(q) \subseteq Elements(r)
    BY ONLY <2>3, <2>4, <2>5 DEF Elements
  <2>7. n.free = r /\ m.free = q
    BY <1>3, <2>2, <2>5
  <2> QED BY ONLY <2>6, <2>7
<1>6. \A f \in Removed(m, T) : f \in Elements(n.free)
  BY <1>4, <1>5, ReleaseAll
<1> QED BY <1>3, <1>5, <1>6, LostIs

\* One frame, as the property counts it.
LEMMA OneAtMost ==
    ASSUME NEW m, NEW n, OneLoss(m, n), ~n.wrapped
    PROVE  Cardinality(Lost(n) \ Lost(m)) <= 1
<1>1. PICK x : Lost(n) \subseteq Lost(m) \union {x}
  BY DEF OneLoss
<1>2. IsFiniteSet({x}) /\ Cardinality({x}) = 1
  BY FS_Singleton
<1>3. Lost(n) \ Lost(m) \in SUBSET {x}
  BY <1>1
<1>4. Cardinality(Lost(n) \ Lost(m)) <= Cardinality({x})
  BY <1>2, <1>3, FS_Subset
<1> QED BY <1>2, <1>4

\* The same for a step of the system.
LEMMA LossStep ==
    ASSUME PagesAboveRAM, Good(mem), History, Next, ~Astray'
    PROVE  /\ OneLoss(mem, mem')
           /\ last'.ret = "ok" /\ last'.op \in {"alloc", "map", "unmap", "destroy"} =>
                NoLoss(mem, mem')
<1>0. /\ \A a \in Envs : a \in Live <=> mem.word[DirLoc(a)] /= Nil
      /\ Target \subseteq Envs \union {BadEnv}
      /\ \A t \in Target : t = BadEnv \/ (t \in Envs /\ mem.word[DirLoc(t)] /= Nil)
  BY DEF Live, Target
<1>2. ASSUME NEW a \in Envs, Create(a)
      PROVE  NoLoss(mem, mem')
  BY <1>0, <1>2, CreateLost DEF Create
<1>3. ASSUME NEW c \in Envs, NEW a \in Envs, Fork(c, a)
      PROVE  OneLoss(mem, mem') /\ last'.op = "fork"
  <2>1. PICK n \in Nat : /\ StackPages(n) \subseteq UserVPN /\ mem.word[DirLoc(a)] = Nil
                         /\ mem' = ForkEnv(mem, a, n).mem /\ last'.op = "fork"
    BY <1>3, ForkStep
  <2> QED BY <2>1, ForkLost
<1>4. ASSUME NEW t \in Target, NEW v \in UserVPN, NEW perm \in BOOLEAN, Alloc(t, v, perm)
      PROVE  OneLoss(mem, mem') /\ (last'.ret = "ok" => NoLoss(mem, mem'))
  BY <1>0, <1>4, MemAllocLost DEF Alloc, Finish
<1>5. ASSUME NEW s \in Target, NEW d \in Target, NEW sv \in UserVPN, NEW dv \in UserVPN,
             NEW perm \in BOOLEAN, Map(s, sv, d, dv, perm)
      PROVE  NoLoss(mem, mem')
  BY <1>0, <1>5, MemMapLost DEF Map, Finish
<1>6. ASSUME NEW t \in Target, NEW v \in UserVPN, Unmap(t, v) PROVE NoLoss(mem, mem')
  BY <1>0, <1>6, MemUnmapLost DEF Unmap, Finish
<1>7. ASSUME NEW a \in Envs, Destroy(a) PROVE NoLoss(mem, mem')
  <2>1. PICK T : T = FreedTables(mem, a)
    OBVIOUS
  <2>2. PICK s \in ReleaseOrders(mem, T) : mem' = EnvFree(mem, a, T, s)
    BY <1>7, <2>1 DEF Destroy, Finish
  <2> QED BY <2>1, <2>2, FreeLost
<1>8. ASSUME NEW a \in Envs, DestroyAstray(a) PROVE FALSE
  BY <1>8 DEF DestroyAstray, Finish, Astray
<1> QED BY <1>2, <1>3, <1>4, <1>5, <1>6, <1>7, <1>8, NoLossIsOne DEF Next

\* A frame that is taken from page_free_list by sys_mem_alloc, sys_mem_map or sys_mem_unmap is
\* mapped or is a table when the call returns 0, and env_free puts every table back.  A call
\* that fails loses one frame at most; so does sys_env_alloc, even when it succeeds.
THEOREM LossesAreReported ==
    ASSUME PagesAboveRAM
    PROVE  Spec => LossIsReported
<1>1. GoodMem /\ History /\ [Next]_vars =>
        [Orderly' =>
           /\ last'.ret = "ok" /\ last'.op \in {"alloc", "map", "unmap", "destroy"} =>
                Lost(mem') \subseteq Lost(mem)
           /\ Cardinality(Lost(mem') \ Lost(mem)) <= 1]_vars
  <2> SUFFICES ASSUME Good(mem), History, Next, ~Astray', ~mem'.wrapped
               PROVE  /\ last'.ret = "ok" /\ last'.op \in {"alloc", "map", "unmap", "destroy"} =>
                            Lost(mem') \subseteq Lost(mem)
                      /\ Cardinality(Lost(mem') \ Lost(mem)) <= 1
    BY StrayIsLast DEF Orderly
  <2>1. Cardinality(Lost(mem') \ Lost(mem)) <= 1
    BY LossStep, OneAtMost
  <2>2. last'.ret = "ok" /\ last'.op \in {"alloc", "map", "unmap", "destroy"} =>
            Lost(mem') \subseteq Lost(mem)
    BY LossStep DEF NoLoss
  <2> QED BY <2>1, <2>2
<1> QED BY <1>1, MemInvariant, HistoryInvariant, PTL DEF Spec, LossIsReported

-----------------------------------------------------------------------------
(* DestroyIsLocal: env_free touches its own entries and the identity map.  *)

\* What env_free clears is read by no walk of another environment.
LEMMA FreeView ==
    ASSUME PagesAboveRAM, NEW m, Good(m), NEW a \in Envs, NEW T, T = FreedTables(m, a),
           NEW s \in ReleaseOrders(m, T), NEW n, n = EnvFree(m, a, T, s),
           NEW b \in Envs, NEW v \in UserVPN, n.word[DirLoc(b)] /= Nil
    PROVE  PageLookup(n, b, v) = PageLookup(m, b, v)
<1>1. \A l \in Loc : n.word[l] = IF l[2] = a \/ (\E f \in Removed(m, T) : l = IdLoc(f))
                                 THEN Nil ELSE m.word[l]
  BY FreeEffect DEF Good
<1>2. Removed(m, T) \subseteq Frame
  BY ReleaseOnce
<1>3. \A l \in CountedLoc : l \in Loc /\ ~ \E f \in Removed(m, T) : l = IdLoc(f)
  BY <1>2, EntriesInLoc, IdEntries
<1>4. /\ DirLoc(b) \in CountedLoc /\ PudLoc(b, v) \in CountedLoc
      /\ PmdLoc(b, v) \in CountedLoc /\ PteLoc(b, v) \in CountedLoc
  BY EntriesInLoc, UserEntryCounted
<1>5. b /= a
  BY <1>1, <1>3, <1>4 DEF DirLoc
<1>6. Space(b, v) /= a
  BY <1>5, SpaceIsShared, EnvsAssumption
<1>7. PudLoc(b, v)[2] /= a /\ PmdLoc(b, v)[2] /= a /\ PteLoc(b, v)[2] /= a
  BY <1>6 DEF PudLoc, PmdLoc, PteLoc
<1>8. /\ n.word[PudLoc(b, v)] = m.word[PudLoc(b, v)]
      /\ n.word[PmdLoc(b, v)] = m.word[PmdLoc(b, v)]
      /\ n.word[PteLoc(b, v)] = m.word[PteLoc(b, v)]
  BY <1>1, <1>3, <1>4, <1>7
<1> QED BY <1>8 DEF PageLookup

\* The same for a step of the system.
LEMMA DestroyStep ==
    ASSUME PagesAboveRAM, Good(mem), History, Next, last'.op = "destroy",
           NEW b \in Envs, NEW v \in UserVPN, mem'.word[DirLoc(b)] /= Nil
    PROVE  PageLookup(mem', b, v) = PageLookup(mem, b, v)
<1>2. ASSUME NEW a \in Envs, Create(a) PROVE FALSE
  BY <1>2 DEF Create, History
<1>3. ASSUME NEW a \in Envs, Destroy(a)
      PROVE  PageLookup(mem', b, v) = PageLookup(mem, b, v)
  <2>1. PICK T : T = FreedTables(mem, a)
    OBVIOUS
  <2>2. PICK s \in ReleaseOrders(mem, T) : mem' = EnvFree(mem, a, T, s)
    BY <1>3, <2>1 DEF Destroy, Finish
  <2> QED BY <2>1, <2>2, FreeView
<1> QED BY <1>2, <1>3 DEF Next, Fork, Alloc, Map, Unmap, DestroyAstray, Finish

\* env_free changes no mapping of another environment when it finds nothing behind a block
\* entry: it starts above the directory entries that all environments share, and the tables it
\* gives back belong to the destroyed environment alone.
THEOREM DestructionIsLocal ==
    ASSUME PagesAboveRAM
    PROVE  Spec => DestroyIsLocal
<1>1. GoodMem /\ History /\ [Next]_vars =>
        [last'.op = "destroy" =>
            \A b \in Envs, v \in UserVPN :
                mem'.word[DirLoc(b)] /= Nil =>
                    PageLookup(mem', b, v) = PageLookup(mem, b, v)]_vars
  BY StrayIsLast, DestroyStep
<1> QED BY <1>1, MemInvariant, HistoryInvariant, PTL DEF Spec, DestroyIsLocal

-----------------------------------------------------------------------------
(* What a call changes and where, for the composition with Env: which      *)
(* directories exist after it, and the one page whose mapping it may alter. *)

\* a has got a directory, and nobody else has.
DirsPlus(m, n, a) ==
    \A b \in Envs : n.word[DirLoc(b)] = Nil <=> b /= a /\ m.word[DirLoc(b)] = Nil

\* Entries of directories that page_insert and page_remove leave alone stay as they are.
LEMMA DirsTransfer ==
    ASSUME NEW m, NEW e, NEW n, NEW a, DirsPlus(m, e, a), SameDirs(e, n)
    PROVE  DirsPlus(m, n, a)
BY DEF DirsPlus, SameDirs

\* env_setup_vm, when there is a page for the directory.
LEMMA SetupDirs ==
    ASSUME NEW m, Good(m), NEW a \in Envs, m.word[DirLoc(a)] = Nil, m.free /= <<>>
    PROVE  DirsPlus(m, EnvSetupVm(m, a), a) /\ SameView(m, EnvSetupVm(m, a))
<1>1. PICK n : n = EnvSetupVm(m, a)
  OBVIOUS
<1>2. Typed(m) /\ Walks(m) /\ Grown(m, n, DirLoc(a))
  BY <1>1, SetupEffect DEF Good
<1>3. SameView(m, n)
  BY <1>2, GrownView, StackAssumption
<1>4. Head(m.free) \in Frame /\ Head(m.free) /= Nil
  BY <1>2, Fields, NilAssumption
<1>5. \A b \in Envs : n.word[DirLoc(b)] = IF b = a THEN Head(m.free) ELSE m.word[DirLoc(b)]
  <2>1. \A b \in Envs : DirLoc(b) \in Loc
    BY EntriesInLoc
  <2>2. \A b \in Envs : DirLoc(b) = DirLoc(a) <=> b = a
    BY DEF DirLoc
  <2> QED BY <1>2, <2>1, <2>2, Fields DEF Grown
<1>6. DirsPlus(m, n, a)
  BY <1>4, <1>5 DEF DirsPlus
<1> QED BY <1>1, <1>3, <1>6

\* env_create_priority gives the environment a directory and a stack.
LEMMA CreateChanges ==
    ASSUME NEW m, Good(m), NEW a \in Envs, m.word[DirLoc(a)] = Nil, Len(m.free) >= 4
    PROVE  DirsPlus(m, CreateEnv(m, a), a) /\ ViewBut(m, CreateEnv(m, a), a, STACK)
<1>1. Typed(m) /\ STACK \in UserVPN
  BY StackAssumption DEF Good
<1>2. PICK e : e = EnvSetupVm(m, a)
  OBVIOUS
<1>3. m.free /= <<>> /\ Tail(m.free) /= <<>>
  BY <1>1, TwoLeft
<1>4. Good(e) /\ e.word[DirLoc(a)] /= Nil /\ e.free /= <<>>
  BY <1>2, <1>3, GoodSetup
<1>5. DirsPlus(m, e, a) /\ SameView(m, e)
  BY <1>2, <1>3, SetupDirs
<1>6. PICK k, f : k = PageAlloc(e).mem /\ f = PageAlloc(e).page
  OBVIOUS
<1>7. f /= Nil /\ k.word = e.word
  BY <1>4, <1>6, AllocEffect DEF Good
<1>8. Good(k) /\ SameDirs(e, k) /\ InUse(k, f)
  BY <1>4, <1>6, <1>7, GoodPageAlloc
<1>9. PICK c : c = CountUp(k, f)
  OBVIOUS
<1>10. Good(c) /\ SameDirs(k, c) /\ InUse(c, f)
  BY <1>8, <1>9, GoodCountUp
<1>11. c.word = k.word /\ f \in Frame
  BY <1>8, <1>9, CountUpEffect DEF Good, InUse
<1>12. c.word[DirLoc(a)] /= Nil /\ Typed(c) /\ Walks(c)
  BY <1>4, <1>7, <1>10, <1>11 DEF Good
<1>13. PICK n : n = PageInsert(c, a, f, STACK).mem
  OBVIOUS
<1>14. SameDirs(c, n) /\ ViewBut(c, n, a, STACK)
  BY <1>1, <1>10, <1>11, <1>12, <1>13, GoodInsert, InsertView
<1>15. SameView(e, c)
  BY <1>7, <1>11, WordsView
<1>16. DirsPlus(m, n, a)
  BY <1>5, <1>8, <1>10, <1>14, DirsTransfer DEF SameDirs
<1>17. ViewBut(m, n, a, STACK)
  BY <1>5, <1>14, <1>15 DEF SameView, ViewBut
<1>18. CreateEnv(m, a) = n
  BY <1>2, <1>6, <1>9, <1>13 DEF CreateEnv
<1> QED BY <1>16, <1>17, <1>18

\* Only pages of a in P may look different.
ViewButIn(m, n, a, P) ==
    \A b \in Envs, w \in UserVPN :
        ~(b = a /\ w \in P) => PageLookup(n, b, w) = PageLookup(m, b, w)

\* One page, private and in P.
LEMMA ViewIn ==
    ASSUME NEW m, NEW n, NEW a \in Envs, NEW P, NEW v \in P, v \in UserVPN,
           PudOf(v) \notin SharedPuds, ViewBut(m, n, a, v)
    PROVE  ViewButIn(m, n, a, P)
<1> SUFFICES ASSUME NEW b \in Envs, NEW w \in UserVPN, ~(b = a /\ w \in P)
             PROVE  PageLookup(n, b, w) = PageLookup(m, b, w)
  BY DEF ViewButIn
<1>1. PteLoc(b, w) /= PteLoc(a, v)
  BY SameWalk
<1> QED BY <1>1 DEF ViewBut

\* sys_env_alloc changes pages of the child's stack, and gives it a directory unless the
\* kernel stops.
LEMMA ForkChanges ==
    ASSUME NEW m, Good(m), NEW a \in Envs, m.word[DirLoc(a)] = Nil,
           NEW n \in Nat, StackPages(n) \subseteq UserVPN, PrivatePages(StackPages(n)),
           NEW x, x = ForkEnv(m, a, n)
    PROVE  /\ x.ret \in {"ok", "no_mem", "panic"} /\ (x.ret = "panic" => x.mem.panic)
           /\ ViewButIn(m, x.mem, a, StackPages(n))
           /\ DirsPlus(m, x.mem, a) \/ (x.ret = "panic" /\ x.mem.word = m.word)
<1>1. PICK e : e = EnvSetupVm(m, a)
  OBVIOUS
<1>2. CASE m.free = <<>>
  <2>1. e = [m EXCEPT !.panic = TRUE]
    BY <1>1, <1>2, SetupEffect DEF Good
  <2>2. e.panic = TRUE /\ e.word = m.word
    BY <2>1 DEF Good, Typed, MemRec
  <2>3. x = [mem |-> e, ret |-> "panic"]
    BY <1>1, <2>2, ForkRuns
  <2>4. SameView(m, e)
    BY <2>2, WordsView
  <2> QED BY <2>2, <2>3, <2>4 DEF SameView, ViewButIn
<1>3. CASE m.free /= <<>>
  <2>1. DirsPlus(m, e, a) /\ SameView(m, e)
    BY <1>1, <1>3, SetupDirs
  <2>2. ViewButIn(m, e, a, StackPages(n))
    BY <2>1 DEF SameView, ViewButIn
  <2>3. CASE e.panic
    <3>1. x = [mem |-> e, ret |-> "panic"]
      BY <1>1, <2>3, ForkRuns
    <3> QED BY <2>1, <2>2, <2>3, <3>1
  <2>4. CASE ~e.panic
    <3>1. PICK S : S = {r \in GoodCopies(e) : ViewButIn(m, r.mem, a, StackPages(n))}
      OBVIOUS
    <3>2. e.word[DirLoc(a)] /= Nil /\ [mem |-> e, ret |-> "ok"] \in S
      BY <1>1, <2>2, <2>4, <3>1, ForkStarts
    <3>3. ASSUME NEW r \in S \intersect GoodCopies(e), NEW v \in StackPages(n)
          PROVE  CopyPage(r, a, v) \in S
      <4>1. PICK q : q = CopyPage(r, a, v)
        OBVIOUS
      <4>2. v \in UserVPN /\ PudOf(v) \notin SharedPuds
        BY DEF PrivatePages
      <4>3. q \in GoodCopies(e) /\ (q.mem = r.mem \/ \E k, f : Copies(r, q, a, v, k, f))
        BY <3>2, <4>1, <4>2, CopyCases
      <4>4. ViewButIn(r.mem, q.mem, a, StackPages(n))
        <5>1. CASE q.mem = r.mem
          BY <5>1 DEF ViewButIn
        <5>2. CASE \E k, f : Copies(r, q, a, v, k, f)
          BY <5>2, <4>2, CopyOthers, ViewIn
        <5> QED BY <4>3, <5>1, <5>2
      <4>5. ViewButIn(m, q.mem, a, StackPages(n))
        BY <3>1, <4>4 DEF ViewButIn
      <4> QED BY <3>1, <4>1, <4>3, <4>5
    <3>4. x \in S /\ x \in GoodCopies(e)
      BY <1>1, <2>4, <3>2, <3>3, ForkIn
    <3>5. x \in Copy /\ SameDirs(e, x.mem) /\ ViewButIn(m, x.mem, a, StackPages(n))
      BY <3>1, <3>4 DEF GoodCopies
    <3>6. x.ret \in {"ok", "no_mem"}
      BY <3>5 DEF Copy
    <3> QED BY <2>1, <3>5, <3>6, DirsTransfer
  <2> QED BY <2>3, <2>4
<1> QED BY <1>2, <1>3

\* sys_mem_alloc.
LEMMA MemAllocChanges ==
    ASSUME NEW m, Good(m), NEW t, t = BadEnv \/ (t \in Envs /\ m.word[DirLoc(t)] /= Nil),
           NEW v \in UserVPN, NEW perm \in BOOLEAN
    PROVE  LET n == MemAlloc(m, t, v, perm).mem
           IN  SameDirs(m, n) /\ (IF t = BadEnv THEN SameView(m, n) ELSE ViewBut(m, n, t, v))
<1>1. PICK k, f : k = PageAlloc(m).mem /\ f = PageAlloc(m).page
  OBVIOUS
<1>2. PICK n : n = MemAlloc(m, t, v, perm).mem
  OBVIOUS
<1>3. k.word = m.word
  BY <1>1, AllocEffect DEF Good
<1>4. SameView(m, k) /\ SameDirs(m, k)
  BY <1>3, WordsView DEF SameDirs
<1>5. CASE n \in {m, k}
  <2>1. SameView(m, n) /\ SameDirs(m, n)
    BY <1>4, <1>5 DEF SameView, SameDirs
  <2> QED BY <1>2, <2>1 DEF SameView, ViewBut
<1>6. CASE perm /\ f /= Nil /\ t /= BadEnv
  <2>1. n = PageInsert(k, t, f, v).mem
    BY <1>1, <1>2, <1>6 DEF MemAlloc
  <2>2. Good(k) /\ InUse(k, f)
    BY <1>1, <1>6, GoodPageAlloc
  <2>3. f \in Frame /\ Typed(k) /\ Walks(k) /\ k.word[DirLoc(t)] /= Nil
    BY <1>3, <1>6, <2>2 DEF Good, InUse
  <2>4. SameDirs(k, n) /\ ViewBut(k, n, t, v)
    BY <1>6, <2>1, <2>2, <2>3, GoodInsert, InsertView
  <2> QED BY <1>2, <1>4, <1>6, <2>4 DEF SameDirs, SameView, ViewBut
<1>7. ~(perm /\ f /= Nil /\ t /= BadEnv) => n \in {m, k}
  BY <1>1, <1>2 DEF MemAlloc
<1> QED BY <1>5, <1>6, <1>7

\* sys_mem_map, which the page of a message is sent with as well: afterwards the
\* destination sees the source's frame.
LEMMA MemMapChanges ==
    ASSUME NEW m, Good(m), NEW s \in Envs \union {BadEnv},
           NEW d, d = BadEnv \/ (d \in Envs /\ m.word[DirLoc(d)] /= Nil),
           NEW sv \in UserVPN, NEW dv \in UserVPN, NEW perm \in BOOLEAN
    PROVE  LET r == MemMap(m, s, sv, d, dv, perm)
           IN  /\ SameDirs(m, r.mem)
               /\ IF d = BadEnv THEN SameView(m, r.mem) ELSE ViewBut(m, r.mem, d, dv)
               /\ r.ret = "ok" => /\ PageLookup(m, s, sv) /= Nil
                                  /\ PageLookup(r.mem, d, dv) = PageLookup(m, s, sv)
<1>1. PICK f : f = PageLookup(m, s, sv)
  OBVIOUS
<1>2. PICK r : r = MemMap(m, s, sv, d, dv, perm)
  OBVIOUS
<1>3. CASE BadEnv \in {s, d} \/ ~perm \/ f = Nil
  <2>1. r.mem = m /\ r.ret /= "ok"
    BY <1>1, <1>2, <1>3 DEF MemMap
  <2>2. SameView(m, r.mem) /\ SameDirs(m, r.mem)
    BY <2>1, WordsView DEF SameDirs
  <2> QED BY <1>2, <2>1, <2>2 DEF SameView, ViewBut
<1>4. CASE ~(BadEnv \in {s, d} \/ ~perm \/ f = Nil)
  <2>1. PICK i : i = PageInsert(m, d, f, dv)
    OBVIOUS
  <2>2. r = [mem |-> i.mem, ret |-> IF i.ok THEN "ok" ELSE "no_mem"]
    BY <1>1, <1>2, <1>4, <2>1 DEF MemMap
  <2>3. r.mem = i.mem /\ (r.ret = "ok" => i.ok)
    BY <2>2
  <2>4. InUse(m, f) /\ f \in Frame
    BY <1>1, <1>4, MappedInUse DEF InUse
  <2>5. SameDirs(m, i.mem) /\ ViewBut(m, i.mem, d, dv) /\ (i.ok => PageLookup(i.mem, d, dv) = f)
    BY <1>4, <2>1, <2>4, GoodInsert, InsertView DEF Good
  <2> QED BY <1>1, <1>2, <1>4, <2>3, <2>5
<1> QED BY <1>3, <1>4

\* sys_mem_unmap.
LEMMA MemUnmapChanges ==
    ASSUME NEW m, Good(m), NEW t \in Envs \union {BadEnv}, NEW v \in UserVPN
    PROVE  LET n == MemUnmap(m, t, v).mem
           IN  SameDirs(m, n) /\ (IF t = BadEnv THEN SameView(m, n) ELSE ViewBut(m, n, t, v))
<1>1. PICK n : n = MemUnmap(m, t, v).mem
  OBVIOUS
<1>2. CASE n = m
  BY <1>1, <1>2 DEF SameDirs, SameView, ViewBut
<1>3. CASE n /= m
  <2>1. t \in Envs /\ t /= BadEnv /\ n = PageRemove(m, t, v)
    BY <1>1, <1>3, StackAssumption DEF MemUnmap
  <2>2. Typed(m) /\ SameDirs(m, n) /\ Cleared(m, n, t, v)
    BY <1>3, <2>1, GoodRemove, RemoveSteps DEF Good
  <2>3. n.word = [m.word EXCEPT ![PteLoc(t, v)] = Nil]
    BY <2>2 DEF Cleared
  <2> QED BY <1>1, <2>1, <2>2, <2>3, EntryView
<1> QED BY <1>2, <1>3

\* env_free takes one directory, and leaves every private page of the others.
LEMMA FreeChanges ==
    ASSUME NEW m, Good(m), NEW a \in Envs, NEW T, T = FreedTables(m, a),
           NEW s \in ReleaseOrders(m, T), NEW n, n = EnvFree(m, a, T, s)
    PROVE  /\ \A b \in Envs : n.word[DirLoc(b)] = Nil <=> b = a \/ m.word[DirLoc(b)] = Nil
           /\ \A b \in Envs \ {a}, v \in UserVPN :
                Space(b, v) = b => PageLookup(n, b, v) = PageLookup(m, b, v)
<1>1. \A l \in Loc : n.word[l] = IF l[2] = a \/ (\E f \in Removed(m, T) : l = IdLoc(f))
                                 THEN Nil ELSE m.word[l]
  BY FreeEffect DEF Good
<1>2. \A l \in Loc : l[2] \notin {a, Kernel} => n.word[l] = m.word[l]
  BY <1>1 DEF IdLoc
<1>3. Kernel \notin Envs
  BY EnvsAssumption
<1>4. \A b \in Envs : DirLoc(b) \in Loc /\ DirLoc(b)[2] = b
  BY EntriesInLoc DEF DirLoc
<1>5. n.word[DirLoc(a)] = Nil
  BY <1>1, <1>4
<1>6. \A b \in Envs : n.word[DirLoc(b)] = Nil <=> b = a \/ m.word[DirLoc(b)] = Nil
  BY <1>2, <1>3, <1>4, <1>5
<1>7. ASSUME NEW b \in Envs \ {a}, NEW v \in UserVPN, Space(b, v) = b
      PROVE  PageLookup(n, b, v) = PageLookup(m, b, v)
  <2>1. PudLoc(b, v) \in Loc /\ PmdLoc(b, v) \in Loc /\ PteLoc(b, v) \in Loc
    BY EntriesInLoc
  <2>2. PudLoc(b, v)[2] = b /\ PmdLoc(b, v)[2] = b /\ PteLoc(b, v)[2] = b
    BY <1>7 DEF PudLoc, PmdLoc, PteLoc
  <2>3. /\ n.word[PudLoc(b, v)] = m.word[PudLoc(b, v)]
        /\ n.word[PmdLoc(b, v)] = m.word[PmdLoc(b, v)]
        /\ n.word[PteLoc(b, v)] = m.word[PteLoc(b, v)]
    BY <1>2, <1>3, <2>1, <2>2
  <2> QED BY <2>3 DEF PageLookup
<1> QED BY <1>6, <1>7

-----------------------------------------------------------------------------
(* ImplementsSpaces: every call is one step, or no step, of AddressSpaces. *)

\* The frames that some environment sees.
Shown(m) == {PageLookup(m, b, w) : b \in Envs, w \in UserVPN}

\* a sees f at v, and so does everybody below a shared directory entry.
ShowsAt(m, n, a, v, f) ==
    \A b \in Envs, w \in UserVPN :
        PageLookup(n, b, w) = IF w = v /\ (b = a \/ PudOf(v) \in SharedPuds) THEN f
                              ELSE PageLookup(m, b, w)

\* A frame that nobody sees, as long as no count has wrapped.
ShowsFresh(m, n, a, v) ==
    \E f \in Frame : (f \in Shown(m) => m.wrapped) /\ ShowsAt(m, n, a, v, f)

\* A frame on the free list is seen by nobody.
LEMMA FreeUnseen ==
    ASSUME PagesAboveRAM, NEW m, Good(m), NEW f \in Elements(m.free), f \in Shown(m)
    PROVE  m.wrapped
<1>1. PICK b \in Envs, w \in UserVPN : f = PageLookup(m, b, w)
  BY DEF Shown
<1>2. Typed(m)
  BY DEF Good
<1>3. f \in Frame
  BY <1>2, Fields DEF Elements
<1>4. InUse(m, f)
  BY <1>1, <1>3, MappedInUse, NilAssumption
<1> QED BY <1>4 DEF InUse

\* A call that changes the entry of one page.
LEMMA ShowsOne ==
    ASSUME NEW m, NEW n, NEW a \in Envs, NEW v \in UserVPN, NEW f,
           ViewBut(m, n, a, v), PageLookup(n, a, v) = f
    PROVE  ShowsAt(m, n, a, v, f)
<1> SUFFICES ASSUME NEW b \in Envs, NEW w \in UserVPN
             PROVE  PageLookup(n, b, w) = IF w = v /\ (b = a \/ PudOf(v) \in SharedPuds) THEN f
                                          ELSE PageLookup(m, b, w)
  BY DEF ShowsAt
<1>1. CASE PteLoc(b, w) = PteLoc(a, v)
  BY <1>1, SameWalk
<1>2. CASE PteLoc(b, w) /= PteLoc(a, v)
  <2>1. PageLookup(n, b, w) = PageLookup(m, b, w)
    BY <1>2 DEF ViewBut
  <2> QED BY <1>2, <2>1, SameWalk
<1> QED BY <1>1, <1>2

\* What is seen does not change when only tables do.
LEMMA ShowsSame ==
    ASSUME NEW m, NEW e, NEW n, NEW a \in Envs, NEW v \in UserVPN, NEW f,
           SameView(m, e), ShowsAt(e, n, a, v, f)
    PROVE  ShowsAt(m, n, a, v, f)
BY DEF SameView, ShowsAt

\* page_insert of a frame of the free list of m, from which only frames have been taken.
LEMMA InsertShows ==
    ASSUME PagesAboveRAM, NEW m, Good(m), NEW k, Typed(k), Walks(k), SameView(m, k),
           NEW a \in Envs, k.word[DirLoc(a)] /= Nil, NEW v \in UserVPN,
           NEW f \in Elements(m.free)
    PROVE  LET r == PageInsert(k, a, f, v)
           IN  IF r.ok THEN ShowsFresh(m, r.mem, a, v) ELSE SameView(m, r.mem)
<1>1. f \in Frame
  BY Fields DEF Good, Elements
<1>2. PICK r : r = PageInsert(k, a, f, v)
  OBVIOUS
<1>3. ViewBut(k, r.mem, a, v) /\ (r.ok => PageLookup(r.mem, a, v) = f)
  BY <1>1, <1>2, InsertView
<1>4. CASE r.ok
  <2>1. ShowsAt(k, r.mem, a, v, f)
    BY <1>3, <1>4, ShowsOne
  <2>2. ShowsAt(m, r.mem, a, v, f)
    BY <2>1, ShowsSame
  <2>3. f \in Shown(m) => m.wrapped
    BY FreeUnseen
  <2> QED BY <1>1, <1>2, <1>4, <2>2, <2>3 DEF ShowsFresh
<1>5. CASE ~r.ok
  <2>1. SameView(k, r.mem)
    BY <1>1, <1>2, <1>5, InsertFails
  <2> QED BY <1>2, <1>5, <2>1 DEF SameView
<1> QED BY <1>2, <1>4, <1>5

\* Frames that are still free after the head was taken were free before.
LEMMA TailFree ==
    ASSUME NEW S, NEW q \in Seq(S), q /= <<>>
    PROVE  /\ Head(q) \in Elements(q) /\ Elements(Tail(q)) \subseteq Elements(q)
<1>1. /\ Len(q) \in Nat /\ Len(q) >= 1 /\ DOMAIN q = 1..Len(q)
      /\ Head(q) = q[1] /\ DOMAIN Tail(q) = 1..(Len(q) - 1)
      /\ \A i \in 1..(Len(q) - 1) : Tail(q)[i] = q[i + 1]
  OBVIOUS
<1>2. Head(q) \in Elements(q)
  BY <1>1 DEF Elements
<1>3. ASSUME NEW i \in DOMAIN Tail(q) PROVE Tail(q)[i] \in Elements(q)
  <2>1. i + 1 \in DOMAIN q /\ Tail(q)[i] = q[i + 1]
    BY <1>1
  <2> QED BY <2>1 DEF Elements
<1> QED BY <1>2, <1>3 DEF Elements

\* A list that is not empty has a tail that is one shorter.
LEMMA LongTail ==
    ASSUME NEW S, NEW q \in Seq(S), Len(q) > 0
    PROVE  /\ q /= <<>> /\ Tail(q) \in Seq(S) /\ Len(q) \in Nat
           /\ Len(Tail(q)) = Len(q) - 1
<1>1. q /= <<>> /\ Len(q) \in Nat
  OBVIOUS
<1>2. Tail(q) \in Seq(S) /\ Len(Tail(q)) = Len(q) - 1
  BY <1>1
<1> QED BY <1>1, <1>2

\* With two frames left, a walk finds both tables it may need.
LEMMA InsertRoom ==
    ASSUME NEW m, Typed(m), NEW a \in Envs, NEW v \in UserVPN, NEW f \in Frame,
           PageLookup(m, a, v) = Nil, m.free /= <<>>, Tail(m.free) /= <<>>
    PROVE  PageInsert(m, a, f, v).ok
<1> DEFINE u == PudLoc(a, v)
           w == PmdLoc(a, v)
<1>1. f /= Nil /\ u \in Loc /\ w \in Loc
  BY NilAssumption, EntriesInLoc
<1>2. PageRemove(m, a, v) = m
  BY DEF PageRemove
<1>3. PICK p : p = GrowTable(m, u)
  OBVIOUS
<1>4. PICK d : d = p.mem
  OBVIOUS
<1>5. p.ok = TRUE
  <2>1. PageAlloc(m).page /= Nil
    BY AllocEffect
  <2> QED BY <1>3, <2>1 DEF GrowTable
<1>6. Typed(d) /\ (d = m \/ Grown(m, d, u))
  BY <1>1, <1>3, <1>4, GrowEffect
<1>7. d.free /= <<>>
  BY <1>6 DEF Grown
<1>8. PICK q : q = GrowTable(d, w)
  OBVIOUS
<1>9. q.ok = TRUE
  <2>1. PageAlloc(d).page /= Nil
    BY <1>6, <1>7, AllocEffect
  <2> QED BY <1>8, <2>1 DEF GrowTable
<1>10. PgdirWalkCreate(m, a, v) = q
  BY <1>3, <1>4, <1>5, <1>8 DEF PgdirWalkCreate
<1> QED BY <1>1, <1>2, <1>9, <1>10 DEF PageInsert

\* A space without a directory shows nothing of its own.
LEMMA NothingOwn ==
    ASSUME NEW m, Walks(m), NEW a \in Envs, m.word[DirLoc(a)] = Nil,
           NEW v \in UserVPN, PudOf(v) \notin SharedPuds
    PROVE  PageLookup(m, a, v) = Nil
<1>1. Space(a, v) = a
  BY DEF Space
<1>2. m.word[PudLoc(a, v)] = Nil
  BY <1>1 DEF Walks
<1> QED BY <1>2 DEF PageLookup

\* The stack lies below a private directory entry.
LEMMA StackIsPrivate == STACK \in UserVPN /\ PudOf(STACK) \notin SharedPuds
<1>1. PudOf(STACK) >= 3 /\ STACK \in UserVPN
  BY StackAssumption DEF FreePud
<1> QED BY <1>1 DEF SharedPuds

\* env_create_priority: the stack can always be mapped.
LEMMA CreateShows ==
    ASSUME PagesAboveRAM, NEW m, Good(m), NEW a \in Envs, m.word[DirLoc(a)] = Nil,
           Len(m.free) >= 4
    PROVE  ShowsFresh(m, CreateEnv(m, a), a, STACK)
<1>1. Typed(m) /\ STACK \in UserVPN
  BY StackAssumption DEF Good
<1>2. PICK e : e = EnvSetupVm(m, a)
  OBVIOUS
<1>3. PICK q \in Seq(Frame) : q = m.free
  BY <1>1, Fields
<1>4. /\ q /= <<>> /\ Tail(q) \in Seq(Frame) /\ Tail(q) /= <<>>
      /\ Tail(Tail(q)) \in Seq(Frame) /\ Tail(Tail(q)) /= <<>>
      /\ Tail(Tail(Tail(q))) /= <<>>
  <2>1. Len(q) >= 4 /\ Len(q) \in Nat
    BY <1>3
  <2>2. q /= <<>> /\ Tail(q) \in Seq(Frame) /\ Len(Tail(q)) >= 3
    BY <2>1, LongTail
  <2>3. PICK r \in Seq(Frame) : r = Tail(q)
    BY <2>2
  <2>4. Len(r) >= 3 /\ Len(r) \in Nat
    BY <2>2, <2>3
  <2>5. r /= <<>> /\ Tail(r) \in Seq(Frame) /\ Len(Tail(r)) >= 2
    BY <2>4, LongTail
  <2>6. PICK s \in Seq(Frame) : s = Tail(r)
    BY <2>5
  <2>7. Len(s) >= 2 /\ Len(s) \in Nat
    BY <2>5, <2>6
  <2>8. s /= <<>> /\ Tail(s) \in Seq(Frame) /\ Len(Tail(s)) >= 1
    BY <2>7, LongTail
  <2>9. Tail(s) /= <<>>
    <3>1. PICK t \in Seq(Frame) : t = Tail(s)
      BY <2>8
    <3>2. Len(t) > 0
      BY <2>8, <3>1
    <3> QED BY <3>1, <3>2, LongTail
  <2> QED BY <2>2, <2>3, <2>5, <2>6, <2>8, <2>9
<1>5. Good(e) /\ e.word[DirLoc(a)] /= Nil /\ e.free = Tail(q)
  BY <1>2, <1>3, <1>4, GoodSetup
<1>6. SameView(m, e)
  BY <1>2, <1>3, <1>4, SetupDirs
<1>7. PICK k, f : k = PageAlloc(e).mem /\ f = PageAlloc(e).page
  OBVIOUS
<1>8. f = Head(Tail(q)) /\ f \in Frame /\ k.word = e.word /\ k.free = Tail(Tail(q)) /\ Typed(k)
  BY <1>4, <1>5, <1>7, AllocEffect DEF Good
<1>9. PICK c : c = CountUp(k, f)
  OBVIOUS
<1>10. Typed(c) /\ c.free = Tail(Tail(q)) /\ c.word = e.word
  <2>1. Typed(c) /\ c.free = k.free /\ c.word = k.word
    BY ONLY <1>8, <1>9, CountUpEffect, Zenon
  <2> QED BY <1>8, <2>1
<1>11. SameView(e, c) /\ Walks(c) /\ c.word[DirLoc(a)] /= Nil
  BY <1>5, <1>10, WordsView, WalksSame DEF Good
<1>12. SameView(m, c)
  BY <1>6, <1>11 DEF SameView
<1>13. f \in Elements(m.free)
  BY <1>3, <1>4, <1>8, TailFree
<1>14. PageLookup(c, a, STACK) = Nil
  <2>1. PageLookup(m, a, STACK) = Nil
    BY NothingOwn, StackIsPrivate DEF Good
  <2> QED BY <2>1, <1>1, <1>12 DEF SameView
<1>15. PICK r : r = PageInsert(c, a, f, STACK)
  OBVIOUS
<1>16. r.ok
  BY <1>1, <1>4, <1>8, <1>10, <1>14, <1>15, InsertRoom
<1>17. ShowsFresh(m, r.mem, a, STACK)
  BY <1>1, <1>10, <1>11, <1>12, <1>13, <1>15, <1>16, InsertShows
<1>18. CreateEnv(m, a) = r.mem
  BY <1>2, <1>7, <1>9, <1>15 DEF CreateEnv
<1> QED BY <1>17, <1>18

\* a sees frames of its own at w, if anything.
Own(x, a, w) == PudOf(w) \notin SharedPuds /\ PageLookup(x, a, w) /= Nil

\* The frames that a has of its own in x were seen by nobody in m, and are all different.
NewFrames(m, x, a) ==
    \A w \in UserVPN : Own(x, a, w) =>
        /\ PageLookup(x, a, w) \notin Shown(m)
        /\ \A u \in UserVPN :
            Own(x, a, u) /\ PageLookup(x, a, u) = PageLookup(x, a, w) => u = w

\* What sys_env_alloc does to what is seen: a gets new frames at pages of P.
CopiesSeen(m, x, a, P) ==
    /\ OthersSee(m, x, a)
    /\ \A w \in UserVPN : Own(x, a, w) => w \in P
    /\ ~x.wrapped => NewFrames(m, x, a)

\* The directory alone shows nothing.
LEMMA StartSeen ==
    ASSUME NEW m, Walks(m), NEW a \in Envs, m.word[DirLoc(a)] = Nil, NEW x, SameView(m, x), NEW P
    PROVE  CopiesSeen(m, x, a, P)
<1>1. \A w \in UserVPN : ~Own(x, a, w)
  BY NothingOwn DEF Own, SameView
<1> QED BY <1>1 DEF CopiesSeen, NewFrames, OthersSee, SameView

\* A copied page is a frame that was on the free list.
LEMMA CopySeen ==
    ASSUME PagesAboveRAM, NEW m, Walks(m), NEW a \in Envs, m.word[DirLoc(a)] = Nil,
           NEW P, NEW v \in P, v \in UserVPN, PudOf(v) \notin SharedPuds,
           NEW r, NEW q, NEW k, NEW f, Copies(r, q, a, v, k, f), CopiesSeen(m, r.mem, a, P)
    PROVE  CopiesSeen(m, q.mem, a, P)
<1>1. PICK x, y : x = r.mem /\ y = q.mem
  OBVIOUS
<1>2. ViewBut(x, y, a, v) /\ OthersSee(x, y, a)
  BY <1>1, CopyOthers
<1>3. ~y.wrapped => ~x.wrapped
  BY <1>1, CopyLost DEF NoLoss, OneLoss
<1>4. OthersSee(m, x, a) /\ OthersSee(m, y, a)
  BY <1>1, <1>2 DEF CopiesSeen, OthersSee
<1>5. SameView(x, y) \/ PageLookup(y, a, v) = f
  <2>1. PICK i : i = PageInsert(k, a, f, v)
    OBVIOUS
  <2>2. /\ Typed(k) /\ Walks(k) /\ f \in Frame /\ k.word[DirLoc(a)] /= Nil
        /\ y = i.mem /\ k.word = x.word
    BY <1>1, <2>1 DEF Copies, Good
  <2>3. CASE i.ok
    BY <2>1, <2>2, <2>3, InsertView
  <2>4. CASE ~i.ok
    <3>1. SameView(k, y)
      BY <2>1, <2>2, <2>4, InsertFails
    <3>2. SameView(x, k)
      BY <2>2, WordsView
    <3> QED BY <3>1, <3>2 DEF SameView
  <2> QED BY <2>3, <2>4
<1>6. CASE SameView(x, y)
  <2>1. \A w \in UserVPN : PageLookup(y, a, w) = PageLookup(x, a, w)
    BY <1>6 DEF SameView
  <2> QED BY <1>1, <1>3, <1>4, <2>1 DEF CopiesSeen, NewFrames, Own
<1>7. CASE PageLookup(y, a, v) = f
  <2>1. \A w \in UserVPN : w /= v => PageLookup(y, a, w) = PageLookup(x, a, w)
    <3>1. \A w \in UserVPN : w /= v => PteLoc(a, w) /= PteLoc(a, v)
      BY SameWalk
    <3> QED BY <1>2, <3>1 DEF ViewBut
  <2>2. \A w \in UserVPN : Own(y, a, w) => w \in P
    <3>1. \A w \in UserVPN : w /= v /\ Own(y, a, w) => Own(x, a, w)
      BY <2>1 DEF Own
    <3> QED BY <1>1, <3>1 DEF CopiesSeen
  <2>3. ASSUME ~y.wrapped PROVE NewFrames(m, y, a)
    <3>1. NewFrames(m, x, a) /\ ~x.wrapped
      BY <1>1, <1>3, <2>3 DEF CopiesSeen
    <3>2. f \notin Shown(x) /\ f /= Nil
      <4>1. Good(x) /\ f \in Frame /\ x.free \in Seq(Frame) /\ x.free /= <<>> /\ f = Head(x.free)
        BY <1>1, Fields DEF Copies, Good
      <4>2. f \in Elements(x.free)
        BY <4>1, TailFree
      <4> QED BY <3>1, <4>1, <4>2, FreeUnseen, NilAssumption
    <3>3. f \notin Shown(m)
      <4> SUFFICES ASSUME NEW b \in Envs, NEW w \in UserVPN, PageLookup(m, b, w) = f PROVE FALSE
        BY DEF Shown
      <4>1. b /= a \/ PudOf(w) \in SharedPuds
        BY <3>2, NothingOwn
      <4>2. PageLookup(x, b, w) = f
        BY <1>4, <4>1 DEF OthersSee
      <4> QED BY <3>2, <4>2 DEF Shown
    <3>4. \A w \in UserVPN : w /= v => PageLookup(y, a, w) /= f
      BY <2>1, <3>2 DEF Shown
    <3>5. \A w \in UserVPN : w /= v /\ Own(y, a, w) => Own(x, a, w)
      BY <2>1 DEF Own
    <3> QED BY <1>7, <2>1, <3>1, <3>3, <3>4, <3>5 DEF NewFrames
  <2> QED BY <1>1, <1>4, <2>2, <2>3 DEF CopiesSeen
<1> QED BY <1>5, <1>6, <1>7

\* sys_env_alloc: pages of the stack are copied, or some are not and nobody is told.
LEMMA ForkShows ==
    ASSUME PagesAboveRAM, NEW m, Good(m), NEW a \in Envs, m.word[DirLoc(a)] = Nil,
           NEW n \in Nat, StackPages(n) \subseteq UserVPN, PrivatePages(StackPages(n))
    PROVE  CopiesSeen(m, ForkEnv(m, a, n).mem, a, StackPages(n))
<1>1. PICK e : e = EnvSetupVm(m, a)
  OBVIOUS
<1>2. PICK P : P = StackPages(n)
  OBVIOUS
<1>3. Typed(m) /\ Walks(m)
  BY DEF Good
<1>4. SameView(m, e)
  <2>1. CASE m.free = <<>>
    <3>1. e = [m EXCEPT !.panic = TRUE]
      BY <1>1, <1>3, <2>1, SetupEffect
    <3>2. e.word = m.word
      BY <3>1, <1>3 DEF Typed, MemRec
    <3> QED BY <3>2, WordsView
  <2>2. CASE m.free /= <<>>
    BY <1>1, <2>2, SetupDirs
  <2> QED BY <2>1, <2>2
<1>5. CopiesSeen(m, e, a, P)
  BY <1>3, <1>4, StartSeen
<1>6. CASE e.panic
  <2>1. ForkEnv(m, a, n).mem = e
    BY <1>1, <1>6, ForkRuns
  <2> QED BY <1>2, <1>5, <2>1
<1>7. CASE ~e.panic
  <2>1. PICK S : S = {r \in GoodCopies(e) : CopiesSeen(m, r.mem, a, P)}
    OBVIOUS
  <2>2. e.word[DirLoc(a)] /= Nil /\ [mem |-> e, ret |-> "ok"] \in S
    BY <1>1, <1>5, <1>7, <2>1, ForkStarts
  <2>3. ASSUME NEW r \in S \intersect GoodCopies(e), NEW v \in StackPages(n)
        PROVE  CopyPage(r, a, v) \in S
    <3>1. PICK q : q = CopyPage(r, a, v)
      OBVIOUS
    <3>2. v \in P /\ v \in UserVPN /\ PudOf(v) \notin SharedPuds
      BY <1>2 DEF PrivatePages
    <3>3. q \in GoodCopies(e) /\ (q.mem = r.mem \/ \E k, f : Copies(r, q, a, v, k, f))
      BY <2>2, <3>1, <3>2, CopyCases
    <3>4. CopiesSeen(m, r.mem, a, P)
      BY <2>1
    <3>5. CopiesSeen(m, q.mem, a, P)
      <4>1. CASE \E k, f : Copies(r, q, a, v, k, f)
        BY <1>3, <4>1, <3>2, <3>4, CopySeen
      <4> QED BY <3>3, <3>4, <4>1
    <3> QED BY <2>1, <3>1, <3>3, <3>5
  <2>4. ForkEnv(m, a, n) \in S
    BY <1>1, <1>7, <2>2, <2>3, ForkIn
  <2> QED BY <1>2, <2>1, <2>4
<1> QED BY <1>6, <1>7

\* sys_mem_alloc.
LEMMA MemAllocShows ==
    ASSUME PagesAboveRAM, NEW m, Good(m),
           NEW t, t = BadEnv \/ (t \in Envs /\ m.word[DirLoc(t)] /= Nil),
           NEW v \in UserVPN, NEW perm \in BOOLEAN, MemAlloc(m, t, v, perm).ret = "ok"
    PROVE  t \in Envs /\ ShowsFresh(m, MemAlloc(m, t, v, perm).mem, t, v)
<1>1. PICK k, f : k = PageAlloc(m).mem /\ f = PageAlloc(m).page
  OBVIOUS
<1>2. perm /\ f /= Nil /\ t /= BadEnv
  BY <1>1 DEF MemAlloc
<1>3. PICK i : i = PageInsert(k, t, f, v)
  OBVIOUS
<1>4. MemAlloc(m, t, v, perm) = [mem |-> i.mem, ret |-> IF i.ok THEN "ok" ELSE "no_mem"]
  BY <1>1, <1>2, <1>3 DEF MemAlloc
<1>5. i.ok /\ MemAlloc(m, t, v, perm).mem = i.mem
  BY <1>4
<1>6. /\ Typed(m) /\ k.word = m.word /\ m.free /= <<>> /\ f = Head(m.free) /\ Typed(k)
      /\ m.free \in Seq(Frame)
  BY <1>1, <1>2, AllocEffect, Fields DEF Good
<1>7. f \in Elements(m.free)
  BY <1>6, TailFree
<1>8. Walks(k) /\ SameView(m, k)
  BY <1>6, WordsView, WalksSame DEF Good
<1>9. t \in Envs /\ k.word[DirLoc(t)] /= Nil
  BY <1>2, <1>6
<1> QED BY <1>3, <1>5, <1>6, <1>7, <1>8, <1>9, InsertShows

\* sys_mem_map.
LEMMA MemMapShows ==
    ASSUME NEW m, Good(m), NEW s \in Envs \union {BadEnv},
           NEW d, d = BadEnv \/ (d \in Envs /\ m.word[DirLoc(d)] /= Nil),
           NEW sv \in UserVPN, NEW dv \in UserVPN, NEW perm \in BOOLEAN,
           MemMap(m, s, sv, d, dv, perm).ret = "ok"
    PROVE  /\ s \in Envs /\ d \in Envs /\ PageLookup(m, s, sv) /= Nil
           /\ ShowsAt(m, MemMap(m, s, sv, d, dv, perm).mem, d, dv, PageLookup(m, s, sv))
<1>1. s /= BadEnv /\ d /= BadEnv
  BY DEF MemMap
<1>2. PICK n : n = MemMap(m, s, sv, d, dv, perm).mem
  OBVIOUS
<1>3. /\ ViewBut(m, n, d, dv) /\ PageLookup(m, s, sv) /= Nil
      /\ PageLookup(n, d, dv) = PageLookup(m, s, sv)
  BY <1>1, <1>2, MemMapChanges
<1> QED BY <1>1, <1>2, <1>3, ShowsOne

\* sys_mem_unmap.
LEMMA MemUnmapShows ==
    ASSUME NEW m, Good(m), NEW t \in Envs, NEW v \in UserVPN
    PROVE  ShowsAt(m, MemUnmap(m, t, v).mem, t, v, Nil)
<1>1. t /= BadEnv
  BY StackAssumption
<1>2. PICK n : n = PageRemove(m, t, v)
  OBVIOUS
<1>3. MemUnmap(m, t, v).mem = n
  BY <1>1, <1>2 DEF MemUnmap
<1>4. CASE PageLookup(m, t, v) = Nil
  <2>1. n = m
    BY <1>2, <1>4 DEF PageRemove
  <2> QED BY <1>3, <1>4, <2>1, ShowsOne DEF ViewBut
<1>5. CASE PageLookup(m, t, v) /= Nil
  <2>1. Typed(m) /\ Cleared(m, n, t, v)
    BY <1>2, <1>5, RemoveSteps DEF Good
  <2>2. /\ n.word = [m.word EXCEPT ![PteLoc(t, v)] = Nil]
        /\ m.word[PudLoc(t, v)] /= Nil /\ m.word[PmdLoc(t, v)] /= Nil
    BY <2>1 DEF Cleared
  <2>3. ViewBut(m, n, t, v) /\ PageLookup(n, t, v) = Nil
    BY <2>1, <2>2, EntryView
  <2> QED BY <1>3, <2>3, ShowsOne
<1> QED BY <1>4, <1>5

\* env_free: the private pages of one environment, and nothing else.
LEMMA FreeShows ==
    ASSUME PagesAboveRAM, NEW m, Good(m), NEW a \in Envs, NEW T, T = FreedTables(m, a),
           NEW s \in ReleaseOrders(m, T), NEW n, n = EnvFree(m, a, T, s),
           NEW b \in Envs, NEW v \in UserVPN
    PROVE  PageLookup(n, b, v) = IF b = a /\ PudOf(v) \notin SharedPuds THEN Nil
                                 ELSE PageLookup(m, b, v)
<1>1. \A l \in Loc : n.word[l] = IF l[2] = a \/ (\E f \in Removed(m, T) : l = IdLoc(f))
                                 THEN Nil ELSE m.word[l]
  BY FreeEffect DEF Good
<1>2. Removed(m, T) \subseteq Frame
  BY ReleaseOnce
<1>3. \A l \in CountedLoc : l \in Loc /\ ~ \E f \in Removed(m, T) : l = IdLoc(f)
  BY <1>2, EntriesInLoc, IdEntries
<1>4. PudLoc(b, v) \in CountedLoc /\ PmdLoc(b, v) \in CountedLoc /\ PteLoc(b, v) \in CountedLoc
  BY EntriesInLoc, UserEntryCounted
<1>5. CASE b = a /\ PudOf(v) \notin SharedPuds
  <2>1. PudLoc(b, v)[2] = a
    BY <1>5 DEF PudLoc, Space
  <2>2. n.word[PudLoc(b, v)] = Nil
    BY <1>1, <1>3, <1>4, <2>1
  <2> QED BY <1>5, <2>2 DEF PageLookup
<1>6. CASE ~(b = a /\ PudOf(v) \notin SharedPuds)
  <2>1. Space(b, v) /= a
    BY <1>6, EnvsAssumption DEF Space
  <2>2. PudLoc(b, v)[2] /= a /\ PmdLoc(b, v)[2] /= a /\ PteLoc(b, v)[2] /= a
    BY <2>1 DEF PudLoc, PmdLoc, PteLoc
  <2>3. /\ n.word[PudLoc(b, v)] = m.word[PudLoc(b, v)]
        /\ n.word[PmdLoc(b, v)] = m.word[PmdLoc(b, v)]
        /\ n.word[PteLoc(b, v)] = m.word[PteLoc(b, v)]
    BY <1>1, <1>3, <1>4, <2>2
  <2> QED BY <1>6, <2>3 DEF PageLookup
<1> QED BY <1>5, <1>6

\* The same in the words of the abstract specification.
LEMMA AbstractShow ==
    ASSUME NEW a \in Envs, NEW v \in UserVPN, NEW f, ShowsAt(mem, mem', a, v, f)
    PROVE  Spaces!Show(a, v, f)
<1> DEFINE Seen(p) == IF p[2] = v /\ (p[1] = a \/ v \in {x \in UserVPN : PudOf(x) \in SharedPuds})
                      THEN f ELSE View(mem)[p]
<1>1. ASSUME NEW p \in Envs \X UserVPN PROVE PageLookup(mem', p[1], p[2]) = Seen(p)
  <2>1. PICK b \in Envs, w \in UserVPN : p = <<b, w>>
    OBVIOUS
  <2>2. View(mem)[p] = PageLookup(mem, b, w)
    BY <2>1 DEF View
  <2> QED BY <2>1, <2>2 DEF ShowsAt
<1>2. View(mem') = [p \in Envs \X UserVPN |-> Seen(p)]
  BY <1>1 DEF View
<1> QED BY <1>2 DEF Spaces!Show

\* The frames somebody sees.
LEMMA AbstractShown == Spaces!Shown \subseteq Shown(mem)
<1>1. ASSUME NEW p \in Envs \X UserVPN PROVE View(mem)[p] \in Shown(mem)
  BY DEF View, Shown
<1> QED BY <1>1 DEF Spaces!Shown

\* And with a frame that nobody sees.
LEMMA AbstractFresh ==
    ASSUME NEW a \in Envs, NEW v \in UserVPN, ShowsFresh(mem, mem', a, v)
    PROVE  Spaces!ShowFresh(a, v)
<1>1. PICK f \in Frame : (f \in Shown(mem) => mem.wrapped) /\ ShowsAt(mem, mem', a, v, f)
  BY DEF ShowsFresh
<1>2. Spaces!Show(a, v, f)
  BY <1>1, AbstractShow
<1>3. f \in Spaces!Shown => f \in Shown(mem)
  BY AbstractShown
<1> QED BY <1>1, <1>2, <1>3 DEF Spaces!ShowFresh

\* Nothing that is seen has changed.
LEMMA AbstractSame ==
    ASSUME SameView(mem, mem')
    PROVE  View(mem') = View(mem)
BY DEF SameView, View

\* The directories, as the abstract specification counts address spaces.
LEMMA AbstractLive ==
    /\ \A a \in Envs : a \in Live <=> mem.word[DirLoc(a)] /= Nil
    /\ SameDirs(mem, mem') => Live' = Live
    /\ \A a \in Envs : DirsPlus(mem, mem', a) => Live' = Live \union {a}
<1>1. \A a \in Envs : a \in Live <=> mem.word[DirLoc(a)] /= Nil
  BY DEF Live
<1>2. \A a \in Envs : a \in Live' <=> mem'.word[DirLoc(a)] /= Nil
  BY DEF Live
<1>3. Live \subseteq Envs /\ Live' \subseteq Envs
  BY DEF Live
<1>4. ASSUME SameDirs(mem, mem') PROVE Live' = Live
  BY <1>1, <1>2, <1>3, <1>4 DEF SameDirs
<1>5. ASSUME NEW a \in Envs, DirsPlus(mem, mem', a) PROVE Live' = Live \union {a}
  BY <1>1, <1>2, <1>3, <1>5 DEF DirsPlus
<1> QED BY <1>1, <1>4, <1>5

\* A space that is not there yet, as the abstract specification sees it.
LEMMA AbstractNew ==
    ASSUME Good(mem), NEW a \in Envs, a \notin Live, DirsPlus(mem, mem', a)
    PROVE  Spaces!New(a)
<1>1. mem.word[DirLoc(a)] = Nil /\ Live' = Live \union {a}
  BY AbstractLive
<1>2. ASSUME NEW v \in UserVPN, PudOf(v) \notin SharedPuds PROVE View(mem)[a, v] = Nil
  <2>1. PageLookup(mem, a, v) = Nil
    BY <1>1, <1>2, NothingOwn DEF Good
  <2> QED BY <2>1 DEF View
<1> QED BY <1>1, <1>2 DEF Spaces!New

\* The pages of a fork, as the abstract specification sees them.
LEMMA AbstractCopies ==
    ASSUME Good(mem'), NEW c \in Envs, NEW a \in Envs, NEW P,
           \A v \in P : PageLookup(mem, c, v) /= Nil, P \subseteq UserVPN,
           CopiesSeen(mem, mem', a, P)
    PROVE  Spaces!ShowCopies(c, a)
<1> DEFINE Private == UserVPN \ {x \in UserVPN : PudOf(x) \in SharedPuds}
           Copied == {v \in Private : View(mem')[a, v] /= Nil}
<1>1. \A b \in Envs, w \in UserVPN :
        View(mem)[b, w] = PageLookup(mem, b, w) /\ View(mem')[b, w] = PageLookup(mem', b, w)
  BY DEF View
<1>2. View(mem') = [p \in Envs \X UserVPN |->
                        IF p[1] = a /\ p[2] \in Private THEN View(mem')[p] ELSE View(mem)[p]]
  <2>1. ASSUME NEW p \in Envs \X UserVPN, ~(p[1] = a /\ p[2] \in Private)
        PROVE  PageLookup(mem', p[1], p[2]) = View(mem)[p]
    <3>1. PICK b \in Envs, w \in UserVPN : p = <<b, w>>
      OBVIOUS
    <3>2. PageLookup(mem', b, w) = PageLookup(mem, b, w)
      BY <2>1, <3>1 DEF CopiesSeen, OthersSee
    <3> QED BY <3>1, <3>2 DEF View
  <2> QED BY <2>1 DEF View
<1>3. \A v \in Copied : v \in UserVPN /\ Own(mem', a, v)
  BY <1>1 DEF Own
<1>4. ASSUME NEW v \in Copied PROVE View(mem')[a, v] \in Frame /\ View(mem)[c, v] /= Nil
  <2>1. v \in UserVPN /\ v \in P
    BY <1>3 DEF CopiesSeen
  <2>2. PageLookup(mem', a, v) \in Frame \union {Nil}
    BY <2>1, LookupEntry DEF Good
  <2>3. PageLookup(mem', a, v) /= Nil
    BY <1>3 DEF Own
  <2> QED BY <1>1, <2>1, <2>2, <2>3
<1>5. ASSUME ~mem'.wrapped, NEW v \in Copied
      PROVE  /\ View(mem')[a, v] \notin Spaces!Shown
             /\ \A w \in Copied : View(mem')[a, w] = View(mem')[a, v] => w = v
  <2>1. NewFrames(mem, mem', a)
    BY <1>5 DEF CopiesSeen
  <2>2. PageLookup(mem', a, v) \notin Shown(mem)
    BY <1>3, <2>1 DEF NewFrames
  <2>3. Spaces!Shown \subseteq Shown(mem)
    BY AbstractShown
  <2>4. \A w \in Copied : View(mem')[a, w] = View(mem')[a, v] => w = v
    <3> SUFFICES ASSUME NEW w \in Copied, View(mem')[a, w] = View(mem')[a, v] PROVE w = v
      OBVIOUS
    <3>1. v \in UserVPN /\ Own(mem', a, v) /\ w \in UserVPN /\ Own(mem', a, w)
      BY <1>3
    <3>2. PageLookup(mem', a, w) = PageLookup(mem', a, v)
      BY <1>1, <3>1
    <3> QED BY <2>1, <3>1, <3>2 DEF NewFrames
  <2> QED BY <1>1, <1>3, <2>2, <2>3, <2>4
<1> QED BY <1>2, <1>4, <1>5 DEF Spaces!ShowCopies

\* A step is a step of the address spaces.
LEMMA SpacesStep ==
    ASSUME PagesAboveRAM, Good(mem), History, Next, ~Astray'
    PROVE  Spaces!Next
<1>0. /\ \A a \in Envs : a \in Live <=> mem.word[DirLoc(a)] /= Nil
      /\ Target \subseteq Envs \union {BadEnv} /\ Live \subseteq Envs
      /\ \A t \in Target : t = BadEnv \/ (t \in Envs /\ mem.word[DirLoc(t)] /= Nil)
      /\ \A t \in Target : t /= BadEnv => t \in Live
  BY DEF Live, Target
<1>1. mem.wrapped => mem'.wrapped
  BY LossStep DEF OneLoss
<1>2. ASSUME NEW a \in Envs, Create(a) PROVE Spaces!Create(a)
  <2>1. a \notin Live /\ mem.word[DirLoc(a)] = Nil /\ Len(mem.free) >= 4 /\ mem' = CreateEnv(mem, a)
    BY <1>0, <1>2 DEF Create
  <2>2. last.op = "boot" /\ UNCHANGED last
    BY <1>2 DEF Create, History
  <2>3. ShowsFresh(mem, mem', a, STACK)
    BY <2>1, CreateShows
  <2>4. DirsPlus(mem, mem', a)
    BY <2>1, CreateChanges
  <2>5. Spaces!New(a)
    BY <2>1, <2>4, AbstractNew
  <2>6. Spaces!ShowFresh(a, STACK)
    BY <2>3, AbstractFresh, StackIsPrivate
  <2> QED BY <2>2, <2>5, <2>6 DEF Spaces!Create
<1>3. ASSUME NEW c \in Envs, NEW a \in Envs, Fork(c, a) PROVE Spaces!Fork(c, a) \/ Spaces!Fail
  <2>1. PICK n \in Nat :
            /\ StackPages(n) \subseteq UserVPN /\ PrivatePages(StackPages(n))
            /\ \A v \in StackPages(n) : PageLookup(mem, c, v) /= Nil
            /\ c \in Live /\ a \notin Live /\ mem.word[DirLoc(a)] = Nil
            /\ mem' = ForkEnv(mem, a, n).mem
            /\ last' = [op |-> "fork", ret |-> ForkEnv(mem, a, n).ret]
    BY <1>3, ForkStep
  <2>2. CopiesSeen(mem, mem', a, StackPages(n))
    BY <2>1, ForkShows
  <2>3. DirsPlus(mem, mem', a) \/ (last'.ret = "panic" /\ mem'.word = mem.word)
    BY <2>1, ForkChanges
  <2>4. CASE DirsPlus(mem, mem', a)
    <3>1. Spaces!New(a)
      BY <2>1, <2>4, AbstractNew
    <3>2. Good(mem')
      BY GoodNext
    <3>3. Spaces!ShowCopies(c, a)
      BY <2>1, <2>2, <3>2, AbstractCopies
    <3>4. last'.op = "fork"
      BY <2>1
    <3> QED BY <2>1, <3>1, <3>3, <3>4 DEF Spaces!Fork
  <2>5. CASE last'.ret = "panic" /\ mem'.word = mem.word
    <3>1. View(mem') = View(mem)
      BY <2>5, WordsView, AbstractSame
    <3>2. Live' = Live
      BY <2>5, AbstractLive DEF SameDirs
    <3> QED BY <2>5, <3>1, <3>2 DEF Spaces!Fail
  <2> QED BY <2>3, <2>4, <2>5
<1>4. ASSUME NEW t \in Target, NEW v \in UserVPN, NEW perm \in BOOLEAN, Alloc(t, v, perm)
      PROVE  (t \in Envs /\ Spaces!Alloc(t, v)) \/ Spaces!Fail
  <2>1. PICK r : r = MemAlloc(mem, t, v, perm)
    OBVIOUS
  <2>2. mem' = r.mem /\ last' = [op |-> "alloc", ret |-> r.ret]
    BY <1>4, <2>1 DEF Alloc, Finish
  <2>3. Live' = Live
    <3>1. SameDirs(mem, r.mem)
      BY <1>0, <2>1, MemAllocChanges
    <3> QED BY <2>2, <3>1, AbstractLive
  <2>4. CASE r.ret = "ok"
    <3>1. t \in Envs /\ ShowsFresh(mem, mem', t, v)
      BY <1>0, <2>1, <2>2, <2>4, MemAllocShows
    <3>2. Spaces!ShowFresh(t, v)
      BY <3>1, AbstractFresh
    <3>3. Spaces!Succeeds("alloc") /\ t \in Live
      BY <1>0, <2>2, <2>4, <3>1, StackAssumption DEF Spaces!Succeeds
    <3> QED BY <2>3, <3>1, <3>2, <3>3 DEF Spaces!Alloc
  <2>5. CASE r.ret /= "ok"
    <3>1. View(mem') = View(mem)
      BY <1>0, <2>1, <2>2, <2>5, MemAllocFails, AbstractSame
    <3> QED BY <2>2, <2>3, <2>5, <3>1 DEF Spaces!Fail
  <2> QED BY <2>4, <2>5
<1>5. ASSUME NEW s \in Target, NEW d \in Target, NEW sv \in UserVPN, NEW dv \in UserVPN,
             NEW perm \in BOOLEAN, Map(s, sv, d, dv, perm)
      PROVE  (s \in Envs /\ d \in Envs /\ Spaces!Map(s, sv, d, dv)) \/ Spaces!Fail
  <2>1. PICK r : r = MemMap(mem, s, sv, d, dv, perm)
    OBVIOUS
  <2>2. mem' = r.mem /\ last' = [op |-> "map", ret |-> r.ret]
    BY <1>5, <2>1 DEF Map, Finish
  <2>3. Live' = Live
    <3>1. SameDirs(mem, r.mem)
      BY <1>0, <2>1, MemMapChanges
    <3> QED BY <2>2, <3>1, AbstractLive
  <2>4. CASE r.ret = "ok"
    <3>1. PICK f : f = PageLookup(mem, s, sv)
      OBVIOUS
    <3>2. s \in Envs /\ d \in Envs /\ f /= Nil /\ ShowsAt(mem, mem', d, dv, f)
      BY <1>0, <2>1, <2>2, <2>4, <3>1, MemMapShows
    <3>3. View(mem)[s, sv] = f
      BY <3>1, <3>2 DEF View
    <3>4. Spaces!Show(d, dv, f)
      BY <3>2, AbstractShow
    <3>5. Spaces!Succeeds("map") /\ s \in Live /\ d \in Live
      BY <1>0, <2>2, <2>4, <3>2, StackAssumption DEF Spaces!Succeeds
    <3> QED BY <2>3, <3>2, <3>3, <3>4, <3>5 DEF Spaces!Map
  <2>5. CASE r.ret /= "ok"
    <3>1. View(mem') = View(mem)
      BY <1>0, <2>1, <2>2, <2>5, MemMapFails, AbstractSame
    <3> QED BY <2>2, <2>3, <2>5, <3>1 DEF Spaces!Fail
  <2> QED BY <2>4, <2>5
<1>6. ASSUME NEW t \in Target, NEW v \in UserVPN, Unmap(t, v)
      PROVE  (t \in Envs /\ Spaces!Unmap(t, v)) \/ Spaces!Fail
  <2>1. PICK r : r = MemUnmap(mem, t, v)
    OBVIOUS
  <2>2. mem' = r.mem /\ last' = [op |-> "unmap", ret |-> r.ret]
    BY <1>6, <2>1 DEF Unmap, Finish
  <2>3. Live' = Live
    <3>1. SameDirs(mem, r.mem)
      BY <1>0, <2>1, MemUnmapChanges
    <3> QED BY <2>2, <3>1, AbstractLive
  <2>4. CASE t = BadEnv
    <3>1. r = [mem |-> mem, ret |-> "bad_env"]
      BY <2>1, <2>4 DEF MemUnmap
    <3> QED BY <2>2, <2>3, <3>1 DEF Spaces!Fail
  <2>5. CASE t /= BadEnv
    <3>1. r.ret = "ok" /\ t \in Envs /\ t \in Live
      BY <1>0, <2>1, <2>5 DEF MemUnmap
    <3>2. ShowsAt(mem, mem', t, v, Nil)
      BY <2>1, <2>2, <3>1, MemUnmapShows
    <3>3. Spaces!Show(t, v, Nil)
      BY <3>1, <3>2, AbstractShow
    <3>4. Spaces!Succeeds("unmap")
      BY <2>2, <3>1 DEF Spaces!Succeeds
    <3> QED BY <2>3, <3>1, <3>3, <3>4 DEF Spaces!Unmap
  <2> QED BY <2>4, <2>5
<1>7. ASSUME NEW a \in Envs, Destroy(a) PROVE Spaces!Destroy(a)
  <2>1. PICK T : T = FreedTables(mem, a)
    OBVIOUS
  <2>2. PICK s \in ReleaseOrders(mem, T) : mem' = EnvFree(mem, a, T, s)
    BY <1>7, <2>1 DEF Destroy, Finish
  <2>3. a \in Live /\ last' = [op |-> "destroy", ret |-> "ok"]
    BY <1>7 DEF Destroy, Finish
  <2>4. \A b \in Envs : mem'.word[DirLoc(b)] = Nil <=> b = a \/ mem.word[DirLoc(b)] = Nil
    BY <2>1, <2>2, FreeChanges
  <2>5. Live' = Live \ {a}
    BY <2>4 DEF Live
  <2> DEFINE Left(p) == IF p[1] = a /\ p[2] \notin {x \in UserVPN : PudOf(x) \in SharedPuds}
                         THEN Nil ELSE View(mem)[p]
  <2>6. ASSUME NEW p \in Envs \X UserVPN PROVE PageLookup(mem', p[1], p[2]) = Left(p)
    <3>1. PICK b \in Envs, w \in UserVPN : p = <<b, w>>
      OBVIOUS
    <3>2. View(mem)[p] = PageLookup(mem, b, w)
      BY <3>1 DEF View
    <3>3. PageLookup(mem', b, w) = IF b = a /\ PudOf(w) \notin SharedPuds THEN Nil
                                   ELSE PageLookup(mem, b, w)
      BY <2>1, <2>2, FreeShows
    <3> QED BY <3>1, <3>2, <3>3
  <2>7. View(mem') = [p \in Envs \X UserVPN |-> Left(p)]
    BY <2>6 DEF View
  <2> QED BY <2>3, <2>5, <2>7 DEF Spaces!Destroy, Spaces!Succeeds
<1>8. \/ \E a \in Envs : Spaces!Create(a) \/ Spaces!Destroy(a)
      \/ \E c, a \in Envs : Spaces!Fork(c, a)
      \/ \E a \in Envs, v \in UserVPN : Spaces!Alloc(a, v) \/ Spaces!Unmap(a, v)
      \/ \E s, d \in Envs, sv, dv \in UserVPN : Spaces!Map(s, sv, d, dv)
      \/ Spaces!Fail
  <2>1. ~ \E a \in Envs : DestroyAstray(a)
    BY DEF DestroyAstray, Finish, Astray
  <2> QED BY <1>2, <1>3, <1>4, <1>5, <1>6, <1>7, <2>1 DEF Next
<1> QED BY <1>1, <1>8 DEF Spaces!Next

\* Also the step that goes astray.
LEMMA SpacesNext ==
    ASSUME PagesAboveRAM, Good(mem), ~Astray, History, Next
    PROVE  Spaces!Next
<1>1. CASE ~Astray'
  BY <1>1, SpacesStep
<1>2. CASE Astray'
  BY <1>2 DEF Astray, Spaces!Next, Spaces!Stray
<1> QED BY <1>1, <1>2

\* At boot nobody sees anything.
LEMMA SpacesStart == PagesAboveRAM /\ Init => Spaces!Init
<1> SUFFICES ASSUME PagesAboveRAM, Init PROVE Spaces!Init
  OBVIOUS
<1>1. mem = PageInit /\ last = [op |-> "boot", ret |-> "ok"]
  BY DEF Init
<1>2. mem.wrapped = FALSE /\ mem.word = BootWord
  BY <1>1 DEF PageInit
<1>3. Live = {}
  <2>1. ASSUME NEW a \in Envs PROVE BootWord[DirLoc(a)] = Nil
    BY EntriesInLoc, Levels DEF BootWord, DirLoc, IdLocs, IdLoc
  <2> QED BY <1>2, <2>1 DEF Live
<1>4. ASSUME NEW a \in Envs, NEW v \in UserVPN PROVE PageLookup(mem, a, v) = Nil
  <2>1. PteLoc(a, v) \in Loc /\ PteLoc(a, v) \notin BootTables /\ PteLoc(a, v) \notin IdLocs
    BY EntriesInLoc, UserEntryCounted DEF CountedLoc
  <2>2. mem.word[PteLoc(a, v)] = Nil
    BY <1>2, <2>1 DEF BootWord
  <2> QED BY <2>2 DEF PageLookup
<1>5. View(mem) = [p \in Envs \X UserVPN |-> Nil]
  BY <1>4 DEF View
<1> QED BY <1>1, <1>2, <1>3, <1>5 DEF Spaces!Init

\* The page tables with their counts and free list show every environment what the calls
\* said they would, until an env_free follows a block entry.
THEOREM SpacesAreImplemented ==
    ASSUME PagesAboveRAM
    PROVE  Spec => ImplementsSpaces
<1>1. Init => Spaces!Init
  BY SpacesStart
<1>2. UNCHANGED vars => UNCHANGED <<Live, View(mem), last, mem.wrapped>>
  BY DEF vars, Live, View
<1>3. GoodMem /\ History /\ [Next]_vars => [Spaces!Next]_(Spaces!vars)
  BY <1>2, StrayIsLast, SpacesNext DEF Spaces!vars
<1> QED BY <1>1, <1>3, MemInvariant, HistoryInvariant, PTL DEF Spec, ImplementsSpaces, Spaces!Spec
=============================================================================
