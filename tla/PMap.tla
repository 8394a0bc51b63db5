-------------------------------- MODULE PMap --------------------------------
(***************************************************************************)
(* The physical page allocator and the three-level page tables of          *)
(* mm/pmap.c, as operators on a memory record                              *)
(*                                                                         *)
(*   free   page_free_list, head first                                     *)
(*   ref    pages[f].pp_ref, an unsigned short: arithmetic modulo RefMod   *)
(*   word   the table entries: the frame a valid entry points to, or Nil   *)
(*   panic  the kernel has stopped (panic(), or a fault taken at EL1)      *)
(*   wrapped  history: a count has been incremented past its maximum       *)
(*                                                                         *)
(* A virtual page is its page number.  An entry is the triple              *)
(* <<level, owner, index>>: "dir" is env_pgdir itself, "pud", "pmd" and    *)
(* "pte" the entries read by PUDX, PMDX and PTEX.  env_setup_vm copies     *)
(* _pg_dir into every new directory, so the tables below the entries of    *)
(* SharedPuds are one and the same in all environments: their owner is     *)
(* Kernel.  Page contents, permissions and the TLB are not represented.    *)
(***************************************************************************)
EXTENDS Naturals, Sequences, FiniteSets

CONSTANTS
    Envs,         \* slots of the array envs
    Kernel,       \* owner of the tables all environments share
    NPAGE,        \* npage: number of physical frames
    FirstFree,    \* first frame at or above freemem
    FirstDevice,  \* first frame of the device window, 0x3f000000 in the code
    PTES, PMDS,   \* entries per page table and per middle directory (512)
    UserVPN,      \* virtual pages that system calls name
    RefMod,       \* 2^16, the range of an unsigned short
    Nil,          \* an invalid entry
    Boot          \* a table or block entry written before page_init

Frame == 0..(NPAGE - 1)

ASSUME EnvsAssumption == IsFiniteSet(Envs) /\ Envs /= {} /\ Kernel \notin Envs
ASSUME NilAssumption == Nil \notin Frame /\ Boot \notin Frame /\ Nil /= Boot
ASSUME SizeAssumption ==
    /\ NPAGE \in Nat /\ FirstFree \in 1..NPAGE /\ FirstDevice \in FirstFree..NPAGE
    /\ PTES \in Nat \ {0} /\ PMDS \in Nat \ {0}
    /\ RefMod \in Nat /\ RefMod > 3
    /\ NPAGE <= PTES * PMDS
    /\ IsFiniteSet(UserVPN) /\ UserVPN \subseteq Nat

PudOf(v) == v \div (PTES * PMDS)
PmdOf(v) == v \div PTES

\* A table is one page.  The two blocks boot_mmu_setup maps, the device window and the
\* one at 0x40000000, follow RAM, and programs name no page below a block entry:
\* pgdir_walk would take the block for a page table.  Only env_free goes there.
ASSUME WindowAssumption ==
    /\ FirstDevice % PTES = 0 /\ PTES <= PMDS
    /\ \A v \in UserVPN : /\ v < FirstDevice \/ v >= (PMDS + 1) * PTES
                          /\ PudOf(v) < PMDS

\* _pg_dir has two valid entries at boot: RAM with the devices, and UPAGES..TIMESTACK.
SharedPuds == {0, 1}
FreePudTooLow == 1  \* Mutant: env_free starts at PUDX(0x40000000)
\* PUDX(0xc0000000), the first directory entry env_free looks at.
FreePud == 3

Space(a, v) == IF PudOf(v) \in SharedPuds THEN Kernel ELSE a

DirLoc(a) == <<"dir", a, 0>>
PudLoc(a, v) == <<"pud", Space(a, v), PudOf(v)>>
PmdLoc(a, v) == <<"pmd", Space(a, v), PmdOf(v)>>
PteLoc(a, v) == <<"pte", Space(a, v), v>>
\* The entry of the boot-time identity map through which the kernel reaches frame f.
IdLoc(f) == <<"pte", Kernel, f>>

VPN == Frame \union UserVPN
DirLocs == {DirLoc(a) : a \in Envs}
PudLocs == {PudLoc(a, v) : a \in Envs, v \in VPN}
PmdLocs == {PmdLoc(a, v) : a \in Envs, v \in VPN}
PteLocs == {PteLoc(a, v) : a \in Envs, v \in VPN}
IdLocs == {IdLoc(f) : f \in Frame}
Loc == DirLocs \union PudLocs \union PmdLocs \union PteLocs

\* The entries pp_ref counts: all but the identity map, which boot_mmu_setup wrote.
CountedLoc == Loc \ IdLocs
Ptrs(m, f) == {l \in CountedLoc : m.word[l] = f}

\* boot_mmu_setup: RAM is identity mapped page by page, the device window by
\* block entries (an EL1 access through them never misses), below which no entry was written.
BootTables ==
    {<<"pud", Kernel, p>> : p \in SharedPuds} \union {<<"pmd", Kernel, PmdOf(f)>> : f \in Frame}
BootWord ==
    [l \in Loc |-> IF l \in IdLocs /\ l[3] < FirstDevice THEN l[3]
                   ELSE IF l \in BootTables THEN Boot ELSE Nil]

\* Mutants: the loop runs to npage inclusive; freemem is rounded down.
PageInitOneTooMany ==
    [free |-> [i \in 1..(NPAGE - FirstFree + 1) |-> NPAGE + 1 - i],
     ref |-> [f \in Frame |-> IF f < FirstFree THEN 1 ELSE 0],
     word |-> BootWord,
     panic |-> FALSE, wrapped |-> FALSE]
PageInitRoundDown ==
    [free |-> [i \in 1..(NPAGE - FirstFree + 1) |-> NPAGE - i],
     ref |-> [f \in Frame |-> IF f < FirstFree - 1 THEN 1 ELSE 0],
     word |-> BootWord,
     panic |-> FALSE, wrapped |-> FALSE]

\* page_init inserts at the head in ascending order, so the highest frame comes first.
PageInit ==
    [free |-> [i \in 1..(NPAGE - FirstFree) |-> NPAGE - i],
     ref |-> [f \in Frame |-> IF f < FirstFree THEN 1 ELSE 0],
     word |-> BootWord,
     panic |-> FALSE, wrapped |-> FALSE]

-----------------------------------------------------------------------------
\* bzero of a frame goes through the identity map.
Reachable(m, f) == f >= FirstDevice \/ m.word[IdLoc(f)] /= Nil

PageAlloc(m) ==
    IF m.free = <<>> THEN [mem |-> m, page |-> Nil]
    ELSE [mem |-> [m EXCEPT !.free = Tail(@),
                            !.panic = @ \/ ~Reachable(m, Head(m.free))],
          page |-> Head(m.free)]

\* pp_ref++ on an unsigned short.
CountUp(m, f) == [m EXCEPT !.ref[f] = (@ + 1) % RefMod, !.wrapped = @ \/ m.ref[f] = RefMod - 1]

\* An entry is written and the reference count of its target incremented.
Link(m, l, f) == [CountUp(m, f) EXCEPT !.word[l] = f]

\* --pp_ref, and page_free when the count reaches zero.
Less(m, f) == (m.ref[f] + RefMod - 1) % RefMod
PageDecref(m, f) ==
    [m EXCEPT !.ref[f] = Less(m, f), !.free = IF Less(m, f) = 0 THEN <<f>> \o @ ELSE @]

\* Mutant: the count of a new table stays zero.
GrowTableUncounted(m, l) ==
    LET r == PageAlloc(m)
    IN  IF m.word[l] /= Nil THEN [mem |-> m, ok |-> TRUE]
        ELSE IF r.page = Nil THEN [mem |-> m, ok |-> FALSE]
        ELSE [mem |-> [r.mem EXCEPT !.word[l] = r.page], ok |-> TRUE]

\* One level of pgdir_walk with create set.
GrowTable(m, l) ==
    LET r == PageAlloc(m)
    IN  IF m.word[l] /= Nil THEN [mem |-> m, ok |-> TRUE]
        ELSE IF r.page = Nil THEN [mem |-> m, ok |-> FALSE]
        ELSE [mem |-> Link(r.mem, l, r.page), ok |-> TRUE]

\* Mutant: the lower table is allocated first.
PgdirWalkBottomUp(m, a, v) ==
    LET p == GrowTable(m, PmdLoc(a, v))
    IN  IF p.ok THEN GrowTable(p.mem, PudLoc(a, v)) ELSE p

\* A failure at the second level leaves the table of the first level linked.
PgdirWalkCreate(m, a, v) ==
    LET p == GrowTable(m, PudLoc(a, v))
    IN  IF p.ok THEN GrowTable(p.mem, PmdLoc(a, v)) ELSE p

\* For a page that is not below a block entry: see WordsBehind in Memory for these.
PageLookup(m, a, v) ==
    IF m.word[PudLoc(a, v)] /= Nil /\ m.word[PmdLoc(a, v)] /= Nil
    THEN m.word[PteLoc(a, v)] ELSE Nil

\* Mutant: the entry is left in place.
PageRemoveKeepsEntry(m, a, v) ==
    LET f == PageLookup(m, a, v)
    IN  IF f = Nil THEN m ELSE PageDecref(m, f)

PageRemove(m, a, v) ==
    LET f == PageLookup(m, a, v)
    IN  IF f = Nil THEN m ELSE [PageDecref(m, f) EXCEPT !.word[PteLoc(a, v)] = Nil]

\* Mutant: the new mapping is not counted.
PageInsertUncounted(m, a, f, v) ==
    LET w == PgdirWalkCreate(PageRemove(m, a, v), a, v)
    IN  IF PageLookup(m, a, v) = f THEN [mem |-> m, ok |-> TRUE]
        ELSE IF w.ok THEN [mem |-> [w.mem EXCEPT !.word[PteLoc(a, v)] = f], ok |-> TRUE]
        ELSE w

PageInsert(m, a, f, v) ==
    LET w == PgdirWalkCreate(PageRemove(m, a, v), a, v)
    IN  IF PageLookup(m, a, v) = f THEN [mem |-> m, ok |-> TRUE]
        ELSE IF w.ok THEN [mem |-> Link(w.mem, PteLoc(a, v), f), ok |-> TRUE]
        ELSE w

\* The directory page of a new environment; no free page is a panic.
EnvSetupVm(m, a) ==
    LET r == PageAlloc(m)
    IN  IF r.page = Nil THEN [m EXCEPT !.panic = TRUE]
        ELSE Link(r.mem, DirLoc(a), r.page)
=============================================================================
