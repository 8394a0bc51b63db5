-------------------------------- MODULE Boot ---------------------------------
(***************************************************************************)
(* How main builds the page tables and the free list before anything can   *)
(* interrupt it: boot_mmu_setup, then alloc and boot_map_segment for the   *)
(* four segments of aarch64_vm_init, then page_init.  The result is the    *)
(* state PMap and Memory start from.                                       *)
(*                                                                         *)
(* freemem is a byte address in the code.  Here a page is two units, so    *)
(* that an array may end inside a page.  Memory that nothing has written   *)
(* reads as an invalid entry: neither boot_mmu_setup nor the linker script *)
(* clears the frames behind _end, which the machine starts with zeroed.    *)
(***************************************************************************)
EXTENDS Naturals, Sequences, FiniteSets

CONSTANTS
    FirstDevice,         \* first frame of the device window
    PTES, PMDS,          \* entries per page table and per middle directory
    UPAGES, UENVS,       \* page numbers of the segments
    TIMESTACK,           \* page number; KERNEL_SP is one page below
    Image,               \* possible sizes of the kernel image, in pages
    PagesSize, EnvsSize, \* possible sizes of the arrays, in units
    UserVPN, Kernel, Nil, Boot  \* see PMap

ASSUME LayoutAssumption ==
    /\ {FirstDevice, PTES, PMDS, UPAGES, UENVS, TIMESTACK} \subseteq Nat
    /\ PTES >= 1 /\ FirstDevice % PTES = 0 /\ FirstDevice < PTES * PMDS
    /\ PTES * PMDS + PTES <= UPAGES /\ UPAGES < UENVS /\ UENVS < TIMESTACK - 2
    /\ TIMESTACK <= 2 * PTES * PMDS

BY2PG == 2
NPAGE == PTES * PMDS  \* mips_detect_memory: 0x40000000 bytes, one directory entry
Round(x) == ((x + BY2PG - 1) \div BY2PG) * BY2PG
Page(x) == x \div BY2PG

\* The arrays fit into their segments.
ASSUME SizesAssumption ==
    /\ Image \subseteq Nat
    /\ \A p \in PagesSize : p \in Nat /\ UPAGES + Page(Round(p)) <= UENVS
    /\ \A e \in EnvsSize : e \in Nat /\ UENVS + Page(Round(e)) <= TIMESTACK - 2

VARIABLES
    bootPc,   \* "setup", "ram", "alloc", "map", "page_init", "done" or "panic"
    freemem,
    image,    \* _pg_dir, in pages
    pt,       \* the entries written, by <<frame of the table, index>>
    size,     \* sizes of the four segments, in units
    array,    \* frames where the segments allocated so far begin
    i,        \* the loop counter of the phase
    pages     \* page_free_list and pp_ref, once page_init has run
bootVars == <<bootPc, freemem, image, pt, size, array, i, pages>>

BootInit ==
    /\ bootPc = "setup" /\ i = 0
    /\ image \in Image /\ freemem = image * BY2PG
    /\ \E p \in PagesSize, e \in EnvsSize : size = <<p, e, BY2PG, BY2PG>>
    /\ pt = <<>> /\ array = <<>> /\ pages = [free |-> <<>>, ref |-> <<>>]

Table(f) == [kind |-> "table", to |-> f]
Leaf(f) == [kind |-> "page", to |-> f]
Block(f) == [kind |-> "block", to |-> f]
Entry(t, f, x) == IF <<f, x>> \in DOMAIN t THEN t[<<f, x>>] ELSE [kind |-> "invalid", to |-> 0]

\* Entries written into tables, all those of a function or a single one.
Write(t, new) ==
    [l \in DOMAIN new \union DOMAIN t |-> IF l \in DOMAIN new THEN new[l] ELSE t[l]]
WriteOne(t, f, x, e) == Write(t, [l \in {<<f, x>>} |-> e])

-----------------------------------------------------------------------------
\* boot_mmu_setup: the directory and its first middle directory.
SetupDirectory ==
    /\ bootPc = "setup"
    /\ pt' = WriteOne(pt, image, 0, Table(image + 1))
    /\ freemem' = freemem + 2 * BY2PG
    /\ bootPc' = "ram"
    /\ UNCHANGED <<image, size, array, i, pages>>

\* Mutant: the block number is shifted by one bit too few.
SetupBlockHalf ==
    LET t == Page(freemem)
    IN  /\ bootPc = "ram" /\ i < FirstDevice \div PTES
        /\ pt' = WriteOne(Write(pt, [l \in {t} \X (0..(PTES - 1)) |-> Leaf(i * (PTES \div 2) + l[2])]),
                          image + 1, i, Table(t))
        /\ freemem' = freemem + BY2PG
        /\ i' = i + 1
        /\ UNCHANGED <<bootPc, image, size, array, pages>>

\* One page table of the identity map of RAM.
SetupBlock ==
    LET t == Page(freemem)
    IN  /\ bootPc = "ram" /\ i < FirstDevice \div PTES
        /\ pt' = WriteOne(Write(pt, [l \in {t} \X (0..(PTES - 1)) |-> Leaf(i * PTES + l[2])]),
                          image + 1, i, Table(t))
        /\ freemem' = freemem + BY2PG
        /\ i' = i + 1
        /\ UNCHANGED <<bootPc, image, size, array, pages>>

\* The device window, and the second middle directory with one block of it.
SetupDevices ==
    LET d == Page(freemem)
    IN  /\ bootPc = "ram" /\ i = FirstDevice \div PTES
        /\ pt' = Write(WriteOne(WriteOne(pt, d, 0, Block(NPAGE)), image, 1, Table(d)),
                       [l \in {image + 1} \X (i..(PMDS - 1)) |-> Block(l[2] * PTES)])
        /\ freemem' = freemem + BY2PG
        /\ i' = 0 /\ bootPc' = "alloc"
        /\ UNCHANGED <<image, size, array, pages>>

\* Mutant: freemem is not rounded.
AllocUnrounded(fm, n) == [base |-> Page(fm), freemem |-> fm + n]

Alloc(fm, n) == [base |-> Page(Round(fm)), freemem |-> Round(fm) + n]

\* aarch64_vm_init, for each segment: alloc, then boot_map_segment.
AllocArray ==
    LET a == Alloc(freemem, size[Len(array) + 1])
    IN  /\ bootPc = "alloc"
        /\ freemem' = a.freemem
        /\ array' = Append(array, a.base)
        /\ i' = 0
        /\ bootPc' = IF a.freemem >= NPAGE * BY2PG THEN "panic" ELSE "map"
        /\ UNCHANGED <<image, pt, size, pages>>

Segment == <<UPAGES, UENVS, TIMESTACK - 1, TIMESTACK - 2>>

\* One level of boot_pgdir_walk: the entry is filled with a new table unless valid.
Grow(w, f, x) ==
    LET a == Alloc(w.freemem, BY2PG)
    IN  IF Entry(w.pt, f, x).kind /= "invalid"
        THEN [w EXCEPT !.at = Entry(w.pt, f, x).to]
        ELSE [pt |-> WriteOne(w.pt, f, x, Table(a.base)), freemem |-> a.freemem, at |-> a.base]

\* Mutant: the middle directory is indexed within the whole address space.
BootPgdirWalkWholeIndex(va) ==
    LET m == Grow([pt |-> pt, freemem |-> freemem, at |-> image], image, va \div NPAGE)
    IN  Grow(m, m.at, va \div PTES)
BootPgdirWalk(va) ==
    LET m == Grow([pt |-> pt, freemem |-> freemem, at |-> image], image, va \div NPAGE)
    IN  Grow(m, m.at, (va \div PTES) % PMDS)

MapPage ==
    LET s == Len(array)
        va == Segment[s] + i
        w == BootPgdirWalk(va)
    IN  /\ bootPc = "map" /\ i < Page(Round(size[s]))
        /\ pt' = WriteOne(w.pt, w.at, va % PTES, Leaf(array[s] + i))
        /\ freemem' = w.freemem
        /\ i' = i + 1
        /\ bootPc' = IF w.freemem >= NPAGE * BY2PG THEN "panic" ELSE "map"
        /\ UNCHANGED <<image, size, array, pages>>

NextSegment ==
    /\ bootPc = "map" /\ i = Page(Round(size[Len(array)]))
    /\ bootPc' = IF Len(array) = Len(Segment) THEN "page_init" ELSE "alloc"
    /\ UNCHANGED <<freemem, image, pt, size, array, i, pages>>

\* page_init: frames below freemem are counted, the others go to the head of the list.
PageInitLoop ==
    LET first == Page(Round(freemem))
    IN  /\ bootPc = "page_init"
        /\ freemem' = Round(freemem)
        /\ pages' = [free |-> [k \in 1..(NPAGE - first) |-> NPAGE - k],
                     ref |-> [f \in 0..(NPAGE - 1) |-> IF f < first THEN 1 ELSE 0]]
        /\ bootPc' = "done"
        /\ UNCHANGED <<image, pt, size, array, i>>

BootNext ==
    \/ SetupDirectory \/ SetupBlock \/ SetupDevices
    \/ AllocArray \/ MapPage \/ NextSegment \/ PageInitLoop

BootSpec == BootInit /\ [][BootNext]_bootVars

-----------------------------------------------------------------------------
PudEntry(v) == Entry(pt, image, v \div NPAGE)
PmdEntry(v) ==
    IF PudEntry(v).kind = "table" THEN Entry(pt, PudEntry(v).to, (v \div PTES) % PMDS)
    ELSE PudEntry(v)
PteEntry(v) ==
    IF PmdEntry(v).kind = "table" THEN Entry(pt, PmdEntry(v).to, v % PTES) ELSE PmdEntry(v)

P == INSTANCE PMap WITH Envs <- {0}, FirstFree <- Page(freemem), RefMod <- 65536

\* The tables as PMap sees them: where an entry leads, or that boot wrote it.
Word(l) ==
    LET v == IF l[1] = "pud" THEN l[3] * NPAGE ELSE IF l[1] = "pmd" THEN l[3] * PTES ELSE l[3]
    IN  IF l[2] /= Kernel THEN Nil
        ELSE CASE l[1] = "pud" -> IF PudEntry(v).kind = "invalid" THEN Nil ELSE Boot
               [] l[1] = "pmd" -> IF PmdEntry(v).kind = "invalid" THEN Nil ELSE Boot
               [] OTHER -> IF PteEntry(v).kind = "page" THEN PteEntry(v).to ELSE Nil

\* What main has built when it creates the first environment is the initial memory of
\* PMap: the directory entries every environment copies, the identity map the kernel
\* reaches its frames through, and the free list.
BootEndsInPageInit ==
    bootPc = "done" =>
        [free |-> pages.free, ref |-> pages.ref, word |-> [l \in P!Loc |-> Word(l)],
         panic |-> FALSE, wrapped |-> FALSE] = P!PageInit

\* The tables and arrays that hold frame f.
Tables == {image} \union {pt[l].to : l \in {k \in DOMAIN pt : pt[k].kind = "table"}}
ArrayFrames(s) == array[s]..(array[s] + Page(Round(size[s])) - 1)
Owners(f) ==
    {<<"table", t>> : t \in Tables \intersect {f}}
        \union {<<"array", s>> : s \in {k \in DOMAIN array : f \in ArrayFrames(k)}}

\* alloc is called for arrays that need not end on a page and, between two of them, for the
\* page tables that map them: each frame from _end to freemem has one owner, and the
\* segments at UPAGES, UENVS and below TIMESTACK lead to their arrays.
SegmentsApart ==
    bootPc = "done" =>
        /\ \A f \in image..(Page(freemem) - 1) : Cardinality(Owners(f)) = 1
        /\ \A s \in DOMAIN Segment : \A k \in 0..(Page(Round(size[s])) - 1) :
            PteEntry(Segment[s] + k) = Leaf(array[s] + k)
=============================================================================
