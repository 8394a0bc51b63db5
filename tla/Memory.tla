------------------------------- MODULE Memory -------------------------------
(***************************************************************************)
(* Physical memory and address spaces through the life of environments:    *)
(* env_create at boot, then sys_env_alloc (fork), sys_env_destroy,         *)
(* sys_mem_alloc, sys_mem_map and sys_mem_unmap in any order.  Exceptions  *)
(* are taken with interrupts masked, so each system call is one step.      *)
(* Which environment may name which other one is the business of Env.tla:  *)
(* here a call names a live address space, or BadEnv when envid2env fails. *)
(***************************************************************************)
EXTENDS PMap

CONSTANTS
    BadEnv,  \* an id envid2env rejects
    STACK,   \* page number of USTACKTOP - BY2PG
    PageWord \* what a word of a page that is no table may name, NPAGE for beyond npage

ASSUME WordAssumption == PageWord \subseteq Frame \union {Nil, NPAGE}

ASSUME StackAssumption ==
    /\ BadEnv \notin Envs
    /\ STACK \in UserVPN /\ PudOf(STACK) >= FreePud

VARIABLES
    mem,    \* see PMap
    phase,  \* "boot" until the first system call
    last    \* the last operation and its result
vars == <<mem, phase, last>>

Live == {a \in Envs : mem.word[DirLoc(a)] /= Nil}

Init == mem = PageInit /\ phase = "boot" /\ last = [op |-> "boot", ret |-> "ok"]

-----------------------------------------------------------------------------
\* env_create_priority: pp_ref++ on the stack page before page_insert counts it again.
CreateEnv(m, a) ==
    LET r == PageAlloc(EnvSetupVm(m, a))
    IN  PageInsert(CountUp(r.mem, r.page), a, r.page, STACK).mem

\* Mutant: a copied page is counted as env_create_priority counts the stack page.
CopyPageCountsTwice(r, a, v) ==
    LET p == PageAlloc(r.mem)
    IN  IF r.ret /= "ok" \/ r.mem.panic THEN r
        ELSE IF p.page = Nil THEN [r EXCEPT !.ret = "no_mem"]
        ELSE [r EXCEPT !.mem = PageInsert(CountUp(p.mem, p.page), a, p.page, v).mem]

\* One round of sys_env_alloc: the result of page_insert is ignored.
CopyPage(r, a, v) ==
    LET p == PageAlloc(r.mem)
    IN  IF r.ret /= "ok" \/ r.mem.panic THEN r
        ELSE IF p.page = Nil THEN [r EXCEPT !.ret = "no_mem"]
        ELSE [r EXCEPT !.mem = PageInsert(p.mem, a, p.page, v).mem]

\* The pages from that of the stack pointer to USTACKTOP, n of them: none when the
\* stack is empty.
StackPages(n) == (STACK - n + 1)..STACK

\* sys_env_alloc: copies of them, from the lowest page upwards.
ForkEnv(m, a, n) ==
    LET e == EnvSetupVm(m, a)
        copy[k \in 0..n] ==
            IF k = 0 THEN [mem |-> e, ret |-> "ok"]
            ELSE CopyPage(copy[k - 1], a, STACK - n + k)
    IN  IF e.panic THEN [mem |-> e, ret |-> "panic"] ELSE copy[n]

\* Mutant: the result of page_insert is ignored.
MemAllocIgnoresInsert(m, t, v, perm) ==
    LET r == PageAlloc(m)
    IN  IF ~perm THEN [mem |-> m, ret |-> "inval"]
        ELSE IF r.page = Nil THEN [mem |-> m, ret |-> "no_mem"]
        ELSE IF t = BadEnv THEN [mem |-> r.mem, ret |-> "bad_env"]
        ELSE [mem |-> PageInsert(r.mem, t, r.page, v).mem, ret |-> "ok"]

\* sys_mem_alloc: the page is allocated before the environment is looked up.
MemAlloc(m, t, v, perm) ==
    LET r == PageAlloc(m)
        i == PageInsert(r.mem, t, r.page, v)
    IN  IF ~perm THEN [mem |-> m, ret |-> "inval"]
        ELSE IF r.page = Nil THEN [mem |-> m, ret |-> "no_mem"]
        ELSE IF t = BadEnv THEN [mem |-> r.mem, ret |-> "bad_env"]
        ELSE [mem |-> i.mem, ret |-> IF i.ok THEN "ok" ELSE "no_mem"]

\* Mutant: the destination is emptied before the source is looked up.
MemMapRemovesFirst(m, s, sv, d, dv, perm) ==
    LET c == PageRemove(m, d, dv)
        f == PageLookup(c, s, sv)
        i == PageInsert(c, d, f, dv)
    IN  IF BadEnv \in {s, d} THEN [mem |-> m, ret |-> "bad_env"]
        ELSE IF ~perm \/ f = Nil THEN [mem |-> c, ret |-> "no_mem"]
        ELSE [mem |-> i.mem, ret |-> IF i.ok THEN "ok" ELSE "no_mem"]

MemMap(m, s, sv, d, dv, perm) ==
    LET f == PageLookup(m, s, sv)
        i == PageInsert(m, d, f, dv)
    IN  IF BadEnv \in {s, d} THEN [mem |-> m, ret |-> "bad_env"]
        ELSE IF ~perm \/ f = Nil THEN [mem |-> m, ret |-> "no_mem"]
        ELSE [mem |-> i.mem, ret |-> IF i.ok THEN "ok" ELSE "no_mem"]

MemUnmap(m, t, v) ==
    IF t = BadEnv THEN [mem |-> m, ret |-> "bad_env"]
    ELSE [mem |-> PageRemove(m, t, v), ret |-> "ok"]

-----------------------------------------------------------------------------
(* env_free.  The loop calls page_remove with the PHYSICAL address of each *)
(* page table and of each middle directory.  For a table in RAM the        *)
(* identity map translates it to itself, so the table is freed and loses   *)
(* its identity mapping.  For a table in the device window the walk ends   *)
(* at a block entry and takes the block for a page table: page_remove      *)
(* finds there a word of another frame.  If that is zero nothing happens,  *)
(* and EnvFree is the whole effect; otherwise the destruction goes astray, *)
(* as EnvFreeLoop says.  The pages the tables map are not removed: the     *)
(* test on pmd_entry[pteno] is inverted, and page_remove on an invalid     *)
(* entry does nothing.                                                     *)

\* The entries through which the loop comes to a table.
VisitedTables(m, a) ==
    {l \in PudLocs \union PmdLocs :
        /\ l[2] \in {a, Kernel} /\ m.word[l] \in Frame
        /\ FreePud <= IF l[1] = "pud" THEN l[3] ELSE l[3] \div PMDS}

\* Those whose table the identity map still reaches.
FreedTables(m, a) ==
    {l \in VisitedTables(m, a) :
        m.word[l] < FirstDevice /\ PageLookup(m, a, m.word[l]) /= Nil}

\* Entry i of the table that the entry t points to.
EntryOf(t, i) ==
    CASE t[1] = "dir" -> <<"pud", IF i \in SharedPuds THEN Kernel ELSE t[2], i>>
      [] t[1] = "pud" -> <<"pmd", t[2], t[3] * PMDS + i>>
      [] t[1] = "pmd" -> <<"pte", t[2], t[3] * PTES + i>>

\* The first frame of the block in which f lies, and the entries that are word f % PTES
\* of it when it is a table.
Base(f) == (f \div PTES) * PTES
Behind(m, f) ==
    {EntryOf(t, f % PTES) : t \in {l \in DOMAIN m.word : l[1] /= "pte" /\ m.word[l] = Base(f)}}

\* What that word may be.  Only tables have known contents, and Boot stands for an
\* address below freemem.
WordsBehind(m, f) ==
    LET E == Behind(m, f)
    IN  IF m.wrapped \/ E = {} THEN PageWord
        ELSE UNION {IF l \notin DOMAIN m.word THEN {Nil}
                    ELSE IF m.word[l] = Boot THEN 0..(FirstFree - 1)
                    ELSE {m.word[l]} : l \in E}

\* What page_remove may find for the table f, and when it does no more than EnvFree says.
Found(m, f) == IF f < FirstDevice THEN {m.word[IdLoc(f)]} ELSE WordsBehind(m, f)
OnTrack(f, w) == w = Nil \/ (f < FirstDevice /\ w = f)

StaysOnTrack(m, a) ==
    \A l \in VisitedTables(m, a) : \E w \in Found(m, m.word[l]) : OnTrack(m.word[l], w)

\* What it may find all along the way, when it does more somewhere.
StrayFinds(m, a) ==
    LET V == VisitedTables(m, a)
    IN  {found \in [V -> UNION {Found(m, m.word[l]) : l \in V}] :
            /\ \A l \in V : found[l] \in Found(m, m.word[l])
            /\ \E l \in V : ~OnTrack(m.word[l], found[l])}

\* Mutant: a middle directory before its page tables.
VisitTopDown(l) ==
    IF l[1] = "pmd" THEN (l[3] \div PMDS) * (PMDS + 1) + (l[3] % PMDS) + 1
    ELSE l[3] * (PMDS + 1)

\* The order of the visits.
Visit(l) ==
    IF l[1] = "pmd" THEN (l[3] \div PMDS) * (PMDS + 1) + (l[3] % PMDS)
    ELSE l[3] * (PMDS + 1) + PMDS

\* The frames page_remove is called on, and those of them it frees: the count was one.
Removed(m, T) == {m.word[l] : l \in T}
Released(m, T) == {f \in Removed(m, T) : m.ref[f] = 1}

\* A frame that two tables name, which needs a wrapped count, is removed at the first.
VisitedBefore(m, T, f, g) ==
    \E l \in T : /\ m.word[l] = f
                /\ \A k \in T : m.word[k] = g => Visit(l) < Visit(k)

\* The released frames as they end up on page_free_list: the last one visited is the head.
ReleaseOrders(m, T) ==
    LET R == Released(m, T)
    IN  {s \in [1..Cardinality(R) -> R] :
            \A i, j \in 1..Cardinality(R) : i < j => VisitedBefore(m, T, s[j], s[i])}

\* Mutant: mappings in the shared tables are removed along with the private ones.
EnvFreeShared(m, a, T, s) ==
    [m EXCEPT
      !.free = s \o @,
      !.ref = [f \in Frame |-> IF f \in Removed(m, T) THEN Less(m, f) ELSE m.ref[f]],
      !.word = [l \in Loc |-> IF \/ l[2] = a
                                 \/ l \in {IdLoc(f) : f \in Removed(m, T)}
                                 \/ l \in {PteLoc(a, v) : v \in UserVPN}
                              THEN Nil ELSE m.word[l]]]

\* T is FreedTables(m, a), s its release order.
EnvFree(m, a, T, s) ==
    [m EXCEPT
      !.free = s \o @,
      !.ref = [f \in Frame |-> IF f \in Removed(m, T) THEN Less(m, f) ELSE m.ref[f]],
      !.word = [l \in Loc |-> IF l[2] = a \/ l \in {IdLoc(f) : f \in Removed(m, T)}
                              THEN Nil ELSE m.word[l]]]

\* page_remove on table f of the device window, where it finds w: pa2page panics beyond
\* npage.  The word is cleared in the tables of m0, the memory before the call.
PageRemoveBehind(m0, m, f, w) ==
    IF w = Nil THEN m
    ELSE IF w = NPAGE THEN [m EXCEPT !.panic = TRUE]
    ELSE [PageDecref(m, w) EXCEPT
            !.word = [l \in DOMAIN @ |->
                        IF @[l] /= Boot /\ l \in Behind(m0, f) THEN Nil ELSE @[l]]]

\* env_free loop by loop, finding found[l] for the table of entry l.  The valid bits
\* are tested as the loop comes to them.
EnvFreeLoop(m0, a, found) ==
    LET Remove(m, l) ==
            LET f == m0.word[l]
            IN  IF m.panic THEN m
                ELSE IF f < FirstDevice THEN PageRemove(m, a, f)
                ELSE PageRemoveBehind(m0, m, f, found[l])
        Valid(m, l) == l \in DOMAIN m.word /\ m.word[l] /= Nil
        PageTable(m, l) == IF Valid(m, l) THEN Remove(m, l) ELSE m
        PageTables(m, p) ==
            LET done[q \in 0..PMDS] ==
                    IF q = 0 THEN m
                    ELSE PageTable(done[q - 1], <<"pmd", a, p * PMDS + q - 1>>)
            IN  done[PMDS]
        Directory(m, l) == IF Valid(m, l) THEN Remove(PageTables(m, l[3]), l) ELSE m
        done[p \in (FreePud - 1)..(PMDS - 1)] ==
            IF p = FreePud - 1 THEN m0 ELSE Directory(done[p - 1], <<"pud", a, p>>)
        m == done[PMDS - 1]
    IN  IF m.panic THEN m
        ELSE [m EXCEPT !.word = [l \in DOMAIN @ |-> IF l[2] = a THEN Nil ELSE @[l]]]

-----------------------------------------------------------------------------
\* An env_free has followed a block entry.  A frame may then be in use twice, which
\* entries named by their place in the tables do not show: the model ends here.
Astray == last.op = "stray"

Finish(op, r) ==
    /\ ~mem.panic /\ ~Astray
    /\ phase' = "user"
    /\ mem' = r.mem
    /\ last' = [op |-> op, ret |-> r.ret]

\* main: before interrupts are on.  Memory is plentiful then.
Create(a) ==
    /\ phase = "boot" /\ ~mem.panic /\ a \notin Live /\ Len(mem.free) >= 4
    /\ mem' = CreateEnv(mem, a)
    /\ UNCHANGED <<phase, last>>

\* The caller c has its stack mapped, from which bcopy reads, and it does not reach
\* down to the pages that all environments share.
Forkable(m, c, n) ==
    \A v \in StackPages(n) :
        v \in UserVPN /\ PudOf(v) \notin SharedPuds /\ PageLookup(m, c, v) /= Nil
Fork(c, a) ==
    /\ c \in Live /\ a \notin Live
    /\ \E n \in 0..STACK : Forkable(mem, c, n) /\ Finish("fork", ForkEnv(mem, a, n))

Alloc(t, v, perm) == Live /= {} /\ Finish("alloc", MemAlloc(mem, t, v, perm))

Map(s, sv, d, dv, perm) == Live /= {} /\ Finish("map", MemMap(mem, s, sv, d, dv, perm))

Unmap(t, v) == Live /= {} /\ Finish("unmap", MemUnmap(mem, t, v))

Destroy(a) ==
    LET T == FreedTables(mem, a)
    IN  /\ a \in Live
        /\ StaysOnTrack(mem, a)
        /\ \E s \in ReleaseOrders(mem, T) :
            Finish("destroy", [mem |-> EnvFree(mem, a, T, s), ret |-> "ok"])

\* A page_remove of the loop finds something else than the table it was called for.
DestroyAstray(a) ==
    /\ a \in Live
    /\ \E found \in StrayFinds(mem, a) :
        Finish("stray", [mem |-> EnvFreeLoop(mem, a, found), ret |-> "ok"])

Target == Live \union {BadEnv}

Next ==
    \/ \E a \in Envs : Create(a)
    \/ \E c, a \in Envs : Fork(c, a)
    \/ \E t \in Target, v \in UserVPN, perm \in BOOLEAN : Alloc(t, v, perm)
    \/ \E s, d \in Target, sv, dv \in UserVPN, perm \in BOOLEAN : Map(s, sv, d, dv, perm)
    \/ \E t \in Target, v \in UserVPN : Unmap(t, v)
    \/ \E a \in Envs : Destroy(a) \/ DestroyAstray(a)

Spec == Init /\ [][Next]_vars

-----------------------------------------------------------------------------
\* mem has its type: the free list holds frames, counts fit an unsigned short,
\* entries hold frames or nothing, and only boot wrote Boot.
MemTypeOK ==
    /\ mem.free \in Seq(Frame)
    /\ mem.ref \in [Frame -> 0..(RefMod - 1)]
    /\ mem.word \in [Loc -> Frame \union {Nil, Boot}]
    /\ mem.panic \in BOOLEAN /\ mem.wrapped \in BOOLEAN
    /\ DOMAIN mem = {"free", "ref", "word", "panic", "wrapped"}
    /\ \A l \in Loc : mem.word[l] = Boot <=> l \in BootTables

FreeSet == {mem.free[i] : i \in DOMAIN mem.free}

\* pp_ref is a short and page_insert does not look at it, and env_free may take the
\* contents of a page for table entries: until then the counts can be relied on.
Orderly == ~mem.wrapped /\ ~Astray

\* A frame on page_free_list is there once, has count zero, and no table entry of
\* any environment points to it: page_alloc never hands out a frame in use.
FreeListSound == Orderly =>
    /\ \A i, j \in DOMAIN mem.free : mem.free[i] = mem.free[j] => i = j
    /\ \A f \in FreeSet : mem.ref[f] = 0 /\ Ptrs(mem, f) = {}

\* pp_ref never falls short of the entries that point to the frame: a frame is not
\* freed by page_decref while a mapping of it remains, as long as no count has wrapped
\* and no env_free has gone astray.
RefCovers == Orderly =>
    \A f \in Frame : Cardinality(Ptrs(mem, f)) <= mem.ref[f]

TableLocs == DirLocs \union PudLocs \union PmdLocs

\* A frame used as a directory or table is pointed to by that one entry, so that no
\* environment can map, and write, a page table of its own or of another one.
TablesExclusive == Orderly =>
    \A l \in TableLocs : mem.word[l] \in Frame =>
        /\ Ptrs(mem, mem.word[l]) = {l}
        /\ mem.ref[mem.word[l]] = 1

\* An entry is valid only below valid entries: pgdir_walk reaches every mapping that
\* was made, and a failed walk leaves no page table hanging in the air.
WalkReaches == ~Astray =>
    \A a \in Envs, v \in UserVPN :
        /\ mem.word[PteLoc(a, v)] /= Nil => mem.word[PmdLoc(a, v)] /= Nil
        /\ mem.word[PmdLoc(a, v)] /= Nil => mem.word[PudLoc(a, v)] /= Nil
        /\ Space(a, v) = a /\ mem.word[PudLoc(a, v)] /= Nil => a \in Live

\* The frames below freemem (kernel image, boot tables, pages, envs, the trap stacks)
\* are never given to page_alloc and stay identity mapped, unless an env_free goes astray.
KernelFramesKept == ~Astray =>
    \A f \in 0..(FirstFree - 1) :
        f \notin FreeSet /\ mem.ref[f] = 1 /\ mem.word[IdLoc(f)] = f

\* Pages at a virtual page v as environment a sees them.
View(m) == [p \in Envs \X UserVPN |-> PageLookup(m, p[1], p[2])]

\* The page tables, counts and free list implement the address spaces of AddressSpaces:
\* each call changes what is seen at the page it names, with a frame nobody sees if it
\* allocates, or changes nothing and says so; a fork gives the child frames of its own
\* for pages its parent has; destroying an environment takes its own pages away and
\* leaves everybody else's, unless env_free goes astray.
Spaces == INSTANCE AddressSpaces WITH
    Owner <- Envs, Page <- UserVPN, StackPage <- STACK,
    Shared <- {v \in UserVPN : PudOf(v) \in SharedPuds},
    live <- Live, view <- View(mem), call <- last, wrapped <- mem.wrapped
ImplementsSpaces == Spaces!Spec

\* A system call that reports an error has changed no mapping of any environment, but
\* for the child of a failed fork, which keeps the stack pages copied so far.
FailureKeepsMappings ==
    [][last'.ret /= "ok" =>
        \A b \in Live, v \in UserVPN : PageLookup(mem', b, v) = PageLookup(mem, b, v)]_vars

\* Destroying an environment changes no mapping of another one, as long as page_remove
\* finds nothing behind a block entry: the tables env_free gives back belong to the
\* destroyed environment alone.
DestroyIsLocal ==
    [][last'.op = "destroy" =>
        \A b \in Envs, v \in UserVPN :
            mem'.word[DirLoc(b)] /= Nil =>
                PageLookup(mem', b, v) = PageLookup(mem, b, v)]_vars

\* The references to f that are not in any table, as a short: pages counted twice by
\* env_create, directories and user pages env_free left behind.
Surplus(m, f) == (m.ref[f] + RefMod - (Cardinality(Ptrs(m, f)) % RefMod)) % RefMod

\* Allocation, mapping, unmapping and fork, also one that fails half way, keep every
\* count in step with the tables; only env_create and env_free do not.
CallsKeepCounts ==
    [][last'.op \notin {"destroy", "stray"} /\ phase' = "user" =>
        \A f \in Frame : Surplus(mem', f) = Surplus(mem, f)]_vars

\* Frames that are neither free nor counted: lost for good.
Lost(m) == {f \in Frame : m.ref[f] = 0 /\ \A i \in DOMAIN m.free : m.free[i] /= f}

\* sys_mem_alloc, sys_mem_map and sys_mem_unmap lose a frame only when they report
\* an error, sys_env_destroy loses none, and no call loses more than one: not even a
\* fork, which may lose one without saying so.  (Until a count wraps, when a mapped
\* frame may have count zero.)
LossIsReported ==
    [][Orderly' =>
       /\ last'.ret = "ok" /\ last'.op \in {"alloc", "map", "unmap", "destroy"} => Lost(mem') \subseteq Lost(mem)
       /\ Cardinality(Lost(mem') \ Lost(mem)) <= 1]_vars

\* What EnvFree says at once is what the loop of env_free does table by table, in which
\* frames are freed in one order only.
EnvFreeIsItsLoop ==
    ~mem.panic /\ ~Astray =>
        \A a \in Live : LET T == FreedTables(mem, a) IN
            (\A l \in T : mem.word[IdLoc(mem.word[l])] = mem.word[l]) =>
            \A s \in ReleaseOrders(mem, T) :
                EnvFree(mem, a, T, s) = EnvFreeLoop(mem, a, [l \in VisitedTables(mem, a) |-> Nil])

-----------------------------------------------------------------------------
(* What comments of the repository promise and the code does not do.       *)

\* pmap.h:15: "Ref is the count of pointers (usually in page table entries) to this
\* page".  env_free drops the directory and every user page without page_remove, and
\* they stay counted although nothing points to them any more.
CountedIsPointedTo == \A f \in FirstFree..(NPAGE - 1) : mem.ref[f] > 0 => Ptrs(mem, f) /= {}

\* pmap.h:15 again, for env_free that goes astray: the frame it finds named in some page
\* loses a reference that a mapping still needs.
CountedWhileMapped == ~mem.wrapped =>
    \A f \in Frame : Ptrs(mem, f) /= {} => mem.ref[f] > 0

\* init/mmu.c:17: "mapping all pages".  The kernel reaches all of RAM through the
\* identity map; env_free removes entries of it.
IdentityKept == \A f \in 0..(FirstDevice - 1) : mem.word[IdLoc(f)] = f
=============================================================================
