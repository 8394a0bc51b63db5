---------------------------- MODULE SystemProofs ----------------------------
(***************************************************************************)
(* The composition of Env and Memory, for every number of slots, frames    *)
(* and pages: the calls of user programs are steps of both modules, the    *)
(* environment table and the page tables agree, and address spaces are     *)
(* isolated from each other but for the ways the calls provide.            *)
(*                                                                         *)
(* The results about Memory are used through an instance of MemoryProofs   *)
(* with the values System gives to Memory.                                 *)
(***************************************************************************)
EXTENDS System, EnvProofs, FiniteSetTheorems

MP == INSTANCE MemoryProofs WITH
    Envs <- Slot,
    BadEnv <- None,
    phase <- IF last.op = "boot" THEN "boot" ELSE "user",
    last <- IF last.op = "send" THEN [last EXCEPT !.op = "map"] ELSE last

-----------------------------------------------------------------------------
(* MP and Mem instantiate the same definitions with the same values.       *)

\* What PMap and Memory assume of their constants.
LEMMA Constants ==
    /\ MP!EnvsAssumption /\ MP!NilAssumption /\ MP!SizeAssumption /\ MP!WindowAssumption
    /\ MP!WordAssumption /\ MP!StackAssumption
<1>1. MP!NilAssumption
  BY SpacesAssumption DEF MP!NilAssumption, MP!Frame, Mem!Frame
<1>2. MP!SizeAssumption
  BY SpacesAssumption DEF MP!SizeAssumption, MP!IsFiniteSet, IsFiniteSet
<1>3. MP!StackAssumption
  BY SpacesAssumption
  DEF MP!StackAssumption, MP!PudOf, Mem!PudOf, MP!FreePud, Mem!FreePud, Slot, None
<1>4. MP!EnvsAssumption
  <2>1. NENV - 1 \in Int /\ 0 \in Int /\ 0 \in Slot
    BY NenvAssumption DEF Slot
  <2>2. IsFiniteSet(0..(NENV - 1))
    BY <2>1, FS_Interval
  <2>3. IsFiniteSet(Slot) /\ Slot /= {}
    BY <2>1, <2>2 DEF Slot
  <2> QED BY <2>3, SpacesAssumption DEF MP!EnvsAssumption, MP!IsFiniteSet, IsFiniteSet
<1>5. MP!WindowAssumption
  BY SpacesAssumption DEF MP!WindowAssumption, MP!PudOf, Mem!PudOf
<1>6. MP!WordAssumption
  BY SpacesAssumption DEF MP!WordAssumption, MP!Frame, Mem!Frame
<1> QED BY <1>1, <1>2, <1>3, <1>4, <1>5, <1>6

\* The entries of the tables.
LEMMA SameEntries ==
    /\ \A v : MP!PudOf(v) = Mem!PudOf(v) /\ MP!PmdOf(v) = Mem!PmdOf(v)
    /\ \A a, v : MP!Space(a, v) = Mem!Space(a, v)
    /\ \A a : MP!DirLoc(a) = Mem!DirLoc(a)
    /\ \A a, v : MP!PudLoc(a, v) = Mem!PudLoc(a, v)
    /\ \A a, v : MP!PmdLoc(a, v) = Mem!PmdLoc(a, v)
    /\ \A a, v : MP!PteLoc(a, v) = Mem!PteLoc(a, v)
BY DEF MP!PudOf, Mem!PudOf, MP!PmdOf, Mem!PmdOf, MP!Space, Mem!Space, MP!DirLoc, Mem!DirLoc,
       MP!PudLoc, Mem!PudLoc, MP!PmdLoc, Mem!PmdLoc, MP!PteLoc, Mem!PteLoc,
       MP!SharedPuds, Mem!SharedPuds

\* The set of all entries.
LEMMA SameLoc == MP!Loc = Mem!Loc /\ MP!Frame = Mem!Frame
BY DEF MP!Loc, Mem!Loc, MP!DirLocs, Mem!DirLocs, MP!PudLocs, Mem!PudLocs,
       MP!PmdLocs, Mem!PmdLocs, MP!PteLocs, Mem!PteLocs, MP!VPN, Mem!VPN, MP!Frame, Mem!Frame,
       MP!PudOf, Mem!PudOf, MP!PmdOf, Mem!PmdOf, MP!Space, Mem!Space, MP!DirLoc, Mem!DirLoc,
       MP!PudLoc, Mem!PudLoc, MP!PmdLoc, Mem!PmdLoc, MP!PteLoc, Mem!PteLoc,
       MP!SharedPuds, Mem!SharedPuds

\* page_lookup.
LEMMA SameLookup == \A m, a, v : MP!PageLookup(m, a, v) = Mem!PageLookup(m, a, v)
BY SameEntries DEF MP!PageLookup, Mem!PageLookup

\* page_alloc.
LEMMA SameAlloc == \A m : MP!PageAlloc(m) = Mem!PageAlloc(m)
BY DEF MP!PageAlloc, Mem!PageAlloc, MP!Reachable, Mem!Reachable, MP!IdLoc, Mem!IdLoc

\* The counts.
LEMMA SameLink ==
    ASSUME NEW m, NEW l, NEW f
    PROVE  MP!Link(m, l, f) = Mem!Link(m, l, f) /\ MP!CountUp(m, f) = Mem!CountUp(m, f)
BY DEF MP!Link, Mem!Link, MP!CountUp, Mem!CountUp

\* page_remove.
LEMMA SameRemove ==
    ASSUME NEW m, NEW a, NEW v
    PROVE  MP!PageRemove(m, a, v) = Mem!PageRemove(m, a, v)
BY SameLookup, SameEntries
DEF MP!PageRemove, Mem!PageRemove, MP!PageDecref, Mem!PageDecref, MP!Less, Mem!Less

\* pgdir_walk with create set.
LEMMA SameWalk == \A m, a, v : MP!PgdirWalkCreate(m, a, v) = Mem!PgdirWalkCreate(m, a, v)
<1>1. \A m, l : MP!GrowTable(m, l) = Mem!GrowTable(m, l)
  BY SameAlloc, SameLink DEF MP!GrowTable, Mem!GrowTable
<1> QED BY <1>1, SameEntries DEF MP!PgdirWalkCreate, Mem!PgdirWalkCreate

\* page_insert.
LEMMA SameInsert ==
    ASSUME NEW m, NEW a, NEW f, NEW v
    PROVE  MP!PageInsert(m, a, f, v) = Mem!PageInsert(m, a, f, v)
BY SameWalk, SameLookup, SameEntries, SameLink, SameRemove DEF MP!PageInsert, Mem!PageInsert

\* env_setup_vm.
LEMMA SameSetup == \A m, a : MP!EnvSetupVm(m, a) = Mem!EnvSetupVm(m, a)
BY SameAlloc, SameLink, SameEntries DEF MP!EnvSetupVm, Mem!EnvSetupVm

\* One round of the loop of sys_env_alloc.
LEMMA SameCopy == \A r, a, v : MP!CopyPage(r, a, v) = Mem!CopyPage(r, a, v)
BY SameAlloc, SameInsert DEF MP!CopyPage, Mem!CopyPage

\* The rounds of that loop, as Mem has them.
Rounds(c, e, a, n) ==
    c = [k \in 0..n |-> IF k = 0 THEN [mem |-> e, ret |-> "ok"]
                        ELSE Mem!CopyPage(c[k - 1], a, STACK - n + k)]

\* They can be run, and in one way only.
LEMMA OneRun ==
    ASSUME NEW e, NEW a, NEW n \in Nat
    PROVE  /\ \E c : Rounds(c, e, a, n)
           /\ \A c, d : Rounds(c, e, a, n) /\ MP!Copying(d, e, a, n, n) => c[n] = d[n]
<1>1. ASSUME NEW c, MP!Copying(c, e, a, n, n) PROVE Rounds(c, e, a, n)
  <2>1. c = [k \in 0..n |-> IF k = 0 THEN [mem |-> e, ret |-> "ok"]
                            ELSE MP!CopyPage(c[k - 1], a, STACK - n + k)]
    BY <1>1 DEF MP!Copying
  <2>2. \A k \in 0..n : MP!CopyPage(c[k - 1], a, STACK - n + k)
                          = Mem!CopyPage(c[k - 1], a, STACK - n + k)
    BY SameCopy
  <2> QED BY <2>1, <2>2 DEF Rounds
<1>2. \E c : Rounds(c, e, a, n)
  BY <1>1, Constants, MP!CopyingRuns
<1>3. ASSUME NEW c, NEW d, Rounds(c, e, a, n), Rounds(d, e, a, n) PROVE c[n] = d[n]
  <2> DEFINE S == {k \in Nat : k <= n => c[k] = d[k]}
  <2>1. \A k \in 0..n :
            /\ c[k] = IF k = 0 THEN [mem |-> e, ret |-> "ok"]
                      ELSE Mem!CopyPage(c[k - 1], a, STACK - n + k)
            /\ d[k] = IF k = 0 THEN [mem |-> e, ret |-> "ok"]
                      ELSE Mem!CopyPage(d[k - 1], a, STACK - n + k)
    BY <1>3 DEF Rounds
  <2>2. 0 \in S
    BY <2>1
  <2>3. ASSUME NEW k \in Nat, k \in S PROVE k + 1 \in S
    <3> SUFFICES ASSUME k + 1 <= n PROVE c[k + 1] = d[k + 1]
      OBVIOUS
    <3>1. k + 1 \in 0..n /\ k + 1 /= 0 /\ (k + 1) - 1 = k /\ c[k] = d[k]
      BY <2>3
    <3> QED BY <2>1, <3>1
  <2> HIDE DEF S
  <2>4. Nat \subseteq S
    BY <2>2, <2>3, Induct
  <2> QED BY <2>4 DEF S
<1> QED BY <1>1, <1>2, <1>3

\* sys_env_alloc.
LEMMA SameFork == \A m, a : \A n \in Nat : MP!ForkEnv(m, a, n) = Mem!ForkEnv(m, a, n)
<1> SUFFICES ASSUME NEW m, NEW a, NEW n \in Nat
             PROVE  MP!ForkEnv(m, a, n) = Mem!ForkEnv(m, a, n)
  OBVIOUS
<1>1. PICK e : e = MP!EnvSetupVm(m, a)
  OBVIOUS
<1>6. e = Mem!EnvSetupVm(m, a)
  BY <1>1, SameSetup
<1> DEFINE c == CHOOSE c : c = [k \in 0..n |-> IF k = 0 THEN [mem |-> e, ret |-> "ok"]
                                  ELSE Mem!CopyPage(c[k - 1], a, STACK - n + k)]
<1>2. Mem!ForkEnv(m, a, n) = IF e.panic THEN [mem |-> e, ret |-> "panic"] ELSE c[n]
  BY <1>6 DEF Mem!ForkEnv
<1>3. Rounds(c, e, a, n)
  <2>1. PICK d : Rounds(d, e, a, n)
    BY OneRun
  <2>2. d = [k \in 0..n |-> IF k = 0 THEN [mem |-> e, ret |-> "ok"]
                            ELSE Mem!CopyPage(d[k - 1], a, STACK - n + k)]
    BY <2>1, Zenon DEF Rounds
  <2>3. c = [k \in 0..n |-> IF k = 0 THEN [mem |-> e, ret |-> "ok"]
                            ELSE Mem!CopyPage(c[k - 1], a, STACK - n + k)]
    BY <2>2, Zenon
  <2> QED BY <2>3, Zenon DEF Rounds
<1> HIDE DEF c
<1>4. CASE e.panic
  BY <1>1, <1>2, <1>4, Constants, MP!ForkRuns
<1>5. CASE ~e.panic
  <2>1. PICK d : MP!Copying(d, e, a, n, n) /\ MP!ForkEnv(m, a, n) = d[n]
    BY <1>1, <1>5, Constants, MP!ForkRuns
  <2> QED BY <1>2, <1>3, <1>5, <2>1, OneRun
<1> QED BY <1>4, <1>5

\* The other calls.
LEMMA SameCalls ==
    /\ \A m, a : MP!CreateEnv(m, a) = Mem!CreateEnv(m, a)
    /\ \A m, t, v, perm : MP!MemAlloc(m, t, v, perm) = Mem!MemAlloc(m, t, v, perm)
    /\ \A m, s, sv, d, dv, perm :
        MP!MemMap(m, s, sv, d, dv, perm) = Mem!MemMap(m, s, sv, d, dv, perm)
    /\ \A m, t, v : MP!MemUnmap(m, t, v) = Mem!MemUnmap(m, t, v)
<1>1. \A m, a : MP!CreateEnv(m, a) = Mem!CreateEnv(m, a)
  BY SameSetup, SameAlloc, SameLink, SameInsert DEF MP!CreateEnv, Mem!CreateEnv
<1>2. \A m, t, v, perm : MP!MemAlloc(m, t, v, perm) = Mem!MemAlloc(m, t, v, perm)
  BY SameAlloc, SameInsert DEF MP!MemAlloc, Mem!MemAlloc
<1>3. \A m, s, sv, d, dv, perm :
        MP!MemMap(m, s, sv, d, dv, perm) = Mem!MemMap(m, s, sv, d, dv, perm)
  BY SameLookup, SameInsert DEF MP!MemMap, Mem!MemMap
<1>4. \A m, t, v : MP!MemUnmap(m, t, v) = Mem!MemUnmap(m, t, v)
  BY SameRemove DEF MP!MemUnmap, Mem!MemUnmap
<1> QED BY <1>1, <1>2, <1>3, <1>4

\* The path of env_free, and whether it stays on it.
LEMMA SameTrack ==
    /\ \A m, a : MP!VisitedTables(m, a) = Mem!VisitedTables(m, a)
    /\ \A m, a : MP!StaysOnTrack(m, a) <=> Mem!StaysOnTrack(m, a)
<1>1. \A m, a : MP!VisitedTables(m, a) = Mem!VisitedTables(m, a)
  BY SameEntries, SameLoc
  DEF MP!VisitedTables, Mem!VisitedTables, MP!PudLocs, Mem!PudLocs, MP!PmdLocs, Mem!PmdLocs,
      MP!VPN, Mem!VPN, MP!Frame, Mem!Frame, MP!FreePud, Mem!FreePud,
      MP!PudOf, Mem!PudOf, MP!PmdOf, Mem!PmdOf, MP!Space, Mem!Space,
      MP!PudLoc, Mem!PudLoc, MP!PmdLoc, Mem!PmdLoc, MP!SharedPuds, Mem!SharedPuds
<1>2. \A m, f : MP!Found(m, f) = Mem!Found(m, f)
  BY DEF MP!Found, Mem!Found, MP!WordsBehind, Mem!WordsBehind, MP!Behind, Mem!Behind,
         MP!EntryOf, Mem!EntryOf, MP!Base, Mem!Base, MP!IdLoc, Mem!IdLoc,
         MP!SharedPuds, Mem!SharedPuds
<1> QED BY <1>1, <1>2 DEF MP!StaysOnTrack, Mem!StaysOnTrack, MP!OnTrack, Mem!OnTrack

\* env_free.
LEMMA SameFree ==
    /\ \A m, a : MP!FreedTables(m, a) = Mem!FreedTables(m, a)
    /\ \A m, T : MP!ReleaseOrders(m, T) = Mem!ReleaseOrders(m, T)
    /\ \A m, a, T, s : MP!EnvFree(m, a, T, s) = Mem!EnvFree(m, a, T, s)
<1>1. \A m, a : MP!FreedTables(m, a) = Mem!FreedTables(m, a)
  BY SameTrack, SameLookup DEF MP!FreedTables, Mem!FreedTables
<1>2. \A m, T : MP!ReleaseOrders(m, T) = Mem!ReleaseOrders(m, T)
  BY DEF MP!ReleaseOrders, Mem!ReleaseOrders, MP!Released, Mem!Released, MP!Removed, Mem!Removed,
         MP!VisitedBefore, Mem!VisitedBefore, MP!Visit, Mem!Visit, MP!Cardinality, Mem!Cardinality
<1>3. \A m, a, T, s : MP!EnvFree(m, a, T, s) = Mem!EnvFree(m, a, T, s)
  BY SameLoc
  DEF MP!EnvFree, Mem!EnvFree, MP!Removed, Mem!Removed, MP!Less, Mem!Less, MP!IdLoc, Mem!IdLoc,
      MP!Loc, Mem!Loc, MP!DirLocs, Mem!DirLocs, MP!PudLocs, Mem!PudLocs,
      MP!PmdLocs, Mem!PmdLocs, MP!PteLocs, Mem!PteLocs, MP!VPN, Mem!VPN, MP!Frame, Mem!Frame,
      MP!PudOf, Mem!PudOf, MP!PmdOf, Mem!PmdOf, MP!Space, Mem!Space, MP!DirLoc, Mem!DirLoc,
      MP!PudLoc, Mem!PudLoc, MP!PmdLoc, Mem!PmdLoc, MP!PteLoc, Mem!PteLoc,
      MP!SharedPuds, Mem!SharedPuds
<1> QED BY <1>1, <1>2, <1>3

\* page_init.
LEMMA SameInit == MP!PageInit = Mem!PageInit /\ (MP!Init <=> Mem!Init)
<1>1. MP!PageInit = Mem!PageInit
  BY DEF MP!PageInit, Mem!PageInit, MP!BootWord, Mem!BootWord, MP!BootTables, Mem!BootTables,
         MP!IdLocs, Mem!IdLocs, MP!IdLoc, Mem!IdLoc, MP!Loc, Mem!Loc, MP!DirLocs, Mem!DirLocs,
         MP!PudLocs, Mem!PudLocs, MP!PmdLocs, Mem!PmdLocs, MP!PteLocs, Mem!PteLocs,
         MP!VPN, Mem!VPN, MP!Frame, Mem!Frame, MP!PudOf, Mem!PudOf, MP!PmdOf, Mem!PmdOf,
         MP!Space, Mem!Space, MP!DirLoc, Mem!DirLoc, MP!PudLoc, Mem!PudLoc,
         MP!PmdLoc, Mem!PmdLoc, MP!PteLoc, Mem!PteLoc, MP!SharedPuds, Mem!SharedPuds
<1> QED BY <1>1 DEF MP!Init, Mem!Init

\* The end.
LEMMA SameAstray == (MP!Astray <=> Mem!Astray) /\ (MP!Astray' <=> Mem!Astray')
BY DEF MP!Astray, Mem!Astray

\* The steps, but for one that goes astray.
LEMMA SameNext == MP!Next /\ ~MP!Astray' => Mem!Next
<1>1. MP!Live = Mem!Live /\ MP!Target = Mem!Target
  BY SameEntries DEF MP!Live, Mem!Live, MP!Target, Mem!Target
<1>2. \A op, r : MP!Finish(op, r) <=> Mem!Finish(op, r)
  BY SameAstray DEF MP!Finish, Mem!Finish
<1>3. \A a : MP!Create(a) => Mem!Create(a)
  BY <1>1, SameCalls DEF MP!Create, Mem!Create
<1>4. \A c, a : MP!Fork(c, a) => Mem!Fork(c, a)
  <2> SUFFICES ASSUME NEW c, NEW a, MP!Fork(c, a) PROVE Mem!Fork(c, a)
    OBVIOUS
  <2>1. PICK n \in 0..STACK : MP!Forkable(mem, c, n) /\ MP!Finish("fork", MP!ForkEnv(mem, a, n))
    BY DEF MP!Fork
  <2>2. Mem!Forkable(mem, c, n)
    BY <2>1, SameEntries, SameLookup
    DEF MP!Forkable, Mem!Forkable, MP!StackPages, Mem!StackPages, MP!SharedPuds, Mem!SharedPuds
  <2>3. Mem!Finish("fork", Mem!ForkEnv(mem, a, n))
    BY <1>2, <2>1, SameFork
  <2> QED BY <1>1, <2>2, <2>3 DEF MP!Fork, Mem!Fork
<1>5. \A t, v, perm : MP!Alloc(t, v, perm) => Mem!Alloc(t, v, perm)
  BY <1>1, <1>2, SameCalls DEF MP!Alloc, Mem!Alloc
<1>6. \A s, sv, d, dv, perm : MP!Map(s, sv, d, dv, perm) => Mem!Map(s, sv, d, dv, perm)
  BY <1>1, <1>2, SameCalls DEF MP!Map, Mem!Map
<1>7. \A t, v : MP!Unmap(t, v) => Mem!Unmap(t, v)
  BY <1>1, <1>2, SameCalls DEF MP!Unmap, Mem!Unmap
<1>8. \A a : MP!Destroy(a) => Mem!Destroy(a)
  BY <1>1, <1>2, SameFree, SameTrack DEF MP!Destroy, Mem!Destroy
<1>9. ~MP!Astray' => \A a : ~MP!DestroyAstray(a)
  BY DEF MP!DestroyAstray, MP!Finish, MP!Astray
<1> QED BY <1>1, <1>3, <1>4, <1>5, <1>6, <1>7, <1>8, <1>9 DEF MP!Next, Mem!Next

-----------------------------------------------------------------------------
(* The invariant.  To the invariants of Env and Memory it adds what ties    *)
(* them together.                                                          *)

\* A slot has a directory exactly when it is not on env_free_list.
Agree == Going => \A s \in Slot : s \in FreeSlots <=> mem.word[Mem!DirLoc(s)] = Nil

\* A set receiving flag, even one left over from the previous owner of the slot, comes
\* with an address sys_ipc_recv was called with.
Waiting == \A s \in Slot : envs[s].recving /= 0 => dstva[s] \in RecvVPN

SysInv ==
    /\ IndInv
    /\ nextId <= MaxEnv
    /\ ~Mem!Astray => MP!Good(mem)
    /\ Agree
    /\ mode = "boot" => last.op = "boot"
    /\ dstva \in [Slot -> UserVPN \union {0}]
    /\ Waiting

\* One step of SpaceIsolated, and one of ReceiverGetsPage.
Isolated ==
    \A s \in Slot, v \in UserVPN :
        ~Mem!Astray' /\ Mem!Space(s, v) = s /\ Sees(mem', s, v) /= Sees(mem, s, v) =>
            \/ s \in FreeSlots
            \/ s = curenv \/ envs[s].parent = envs[curenv].id
            \/ Receiving(s) /\ v = dstva[s] /\ last'.op = "send"
Gets ==
    \A s \in Slot :
        Receiving(s) /\ envs'[s].status = ENV_RUNNABLE /\ mem' /= mem =>
            \E v \in UserVPN :
                /\ Sees(mem, curenv, v) /= Nil
                /\ Sees(mem', s, dstva[s]) = Sees(mem, curenv, v)

\* A step of Memory from and to states in which no env_free has gone astray.
Usual == ~Mem!Astray /\ ~Mem!Astray' /\ [MP!Next]_(MP!vars)

\* The step after which nothing is known of memory, and nothing happens any more.
Stray == ~Mem!Astray /\ Mem!Next /\ last'.op = "stray"

\* What every step of the system does.
Moves == /\ SysInv' /\ [Next]_vars /\ Isolated /\ Gets
         /\ Usual \/ Stray \/ UNCHANGED MP!vars

\* An outcome that Memory records does not name a page sent.
LEMMA LastOp == UNCHANGED last /\ ~Mem!Astray => ~Mem!Astray'
BY DEF Mem!Astray

\* The caller has an address space.
LEMMA CallerLives ==
    ASSUME SysInv, mode = "user", Going
    PROVE  /\ curenv \in Slot \ FreeSlots /\ mem.word[MP!DirLoc(curenv)] /= Nil
           /\ MP!Live /= {} /\ curenv \in MP!Live
<1>1. curenv \in Slot \ FreeSlots
  BY CallerIsUsed DEF SysInv
<1>2. mem.word[MP!DirLoc(curenv)] /= Nil
  BY <1>1, SameEntries DEF SysInv, Agree
<1> QED BY <1>1, <1>2 DEF MP!Live

\* The ids of the table are ids Env lets programs name.
LEMMA KnownAreNamed ==
    ASSUME SysInv, NEW id \in KnownId
    PROVE  id \in NamedId /\ id \in Nat
<1>1. PICK s \in Slot : id = envs[s].id
  BY DEF KnownId
<1>2. nextId \in Nat /\ MaxEnv \in Nat /\ nextId <= MaxEnv /\ 0 \in Slot
  BY BoundAssumption, NenvAssumption DEF SysInv, IndInv, EnvTypeOK, Slot
<1>3. CASE id = 0
  <2>1. nextId + 2 \in Nat \ {0}
    BY <1>2
  <2>2. 0 < MkEnvId(nextId + 2, 0)
    BY <1>2, <2>1, IdIsPositive
  <2> QED BY <1>3, <2>2 DEF NamedId, Id
<1>4. ASSUME id /= 0 PROVE id \in NamedId
  <2>1. PICK n \in 1..nextId : id = MkEnvId(n, s)
    BY <1>1, <1>4 DEF SysInv, IndInv, IdsIssued
  <2>2. n \in Nat /\ nextId + 2 \in Nat /\ n < nextId + 2 /\ n \in 1..(MaxEnv + 1)
    BY <1>2
  <2>3. id < MkEnvId(nextId + 2, 0)
    BY <1>2, <2>1, <2>2, IdsGrow
  <2>4. id \in Id
    BY <1>1, <2>1, <2>2 DEF Id
  <2> QED BY <2>3, <2>4 DEF NamedId
<1>5. id \in NamedId
  BY <1>3, <1>4
<1> QED BY <1>5, NamesAreNumbers

\* envid2env hands the memory calls a live address space or none, and with the
\* permission check the caller's own or a child's.
LEMMA NamesLive ==
    ASSUME SysInv, mode = "user", Going, NEW id \in KnownId, NEW perm \in BOOLEAN,
           NEW e, e = Envid2Env(id, perm)
    PROVE  /\ id \in NamedId
           /\ e = None \/ (e \in Slot /\ e \notin FreeSlots /\ mem.word[MP!DirLoc(e)] /= Nil)
           /\ e \in MP!Target /\ None \notin Slot
           /\ perm /\ e /= None => e = curenv \/ envs[e].parent = envs[curenv].id
<1>1. id \in NamedId /\ id \in Nat
  BY KnownAreNamed
<1>2. e = None \/ (e \in Slot /\ e \notin FreeSlots)
  BY <1>1, FoundIsUsed DEF SysInv
<1>3. e = None \/ mem.word[MP!DirLoc(e)] /= Nil
  BY <1>2, SameEntries DEF SysInv, Agree
<1>4. perm /\ e /= None => e = curenv \/ envs[e].parent = envs[curenv].id
  BY DEF Envid2Env
<1>5. e \in MP!Target
  BY <1>2, <1>3 DEF MP!Target, MP!Live
<1>6. None \notin Slot
  BY NenvAssumption DEF Slot, None
<1> QED BY <1>1, <1>2, <1>3, <1>4, <1>5, <1>6

\* A private page that has changed is the page the call was about.
LEMMA ChangedPage ==
    ASSUME NEW m, NEW n, NEW t \in Slot, NEW v \in UserVPN, MP!ViewBut(m, n, t, v),
           NEW s \in Slot, NEW w \in UserVPN, Mem!Space(s, w) = s, Sees(n, s, w) /= Sees(m, s, w)
    PROVE  s = t /\ w = v
<1>1. MP!PageLookup(n, s, w) /= MP!PageLookup(m, s, w)
  BY SameLookup DEF Sees
<1>2. MP!PteLoc(s, w) = MP!PteLoc(t, v)
  BY <1>1 DEF MP!ViewBut
<1>3. MP!Space(s, w) = MP!Space(t, v) /\ w = v
  BY <1>2 DEF MP!PteLoc
<1>4. MP!Space(t, v) \in {t, Kernel} /\ Kernel \notin Slot
  BY SpacesAssumption DEF MP!Space
<1> QED BY <1>3, <1>4, SameEntries

\* A call that leaves every view alone isolates.
LEMMA SameViewIsolated ==
    ASSUME MP!SameView(mem, mem')
    PROVE  Isolated
<1>1. \A s \in Slot, v \in UserVPN : Sees(mem', s, v) = Sees(mem, s, v)
  BY SameLookup DEF MP!SameView, Sees
<1> QED BY <1>1 DEF Isolated

\* So does one on the caller's own space or on a child's.
LEMMA OwnPageIsolated ==
    ASSUME NEW t \in Slot, NEW v \in UserVPN, MP!ViewBut(mem, mem', t, v),
           \/ t = curenv \/ envs[t].parent = envs[curenv].id
           \/ t \in FreeSlots
           \/ Receiving(t) /\ v = dstva[t] /\ last'.op = "send"
    PROVE  Isolated
<1> SUFFICES ASSUME NEW s \in Slot, NEW w \in UserVPN,
                    Mem!Space(s, w) = s, Sees(mem', s, w) /= Sees(mem, s, w)
             PROVE  \/ s \in FreeSlots
                    \/ s = curenv \/ envs[s].parent = envs[curenv].id
                    \/ Receiving(s) /\ w = dstva[s] /\ last'.op = "send"
  BY DEF Isolated
<1>1. s = t /\ w = v
  BY ChangedPage
<1> QED BY <1>1

\* A private page that has changed is one of the pages the fork was about.
LEMMA ChildIsolated ==
    ASSUME NEW t \in FreeSlots, NEW P, MP!ViewButIn(mem, mem', t, P)
    PROVE  Isolated
<1> SUFFICES ASSUME NEW s \in Slot, NEW w \in UserVPN, Sees(mem', s, w) /= Sees(mem, s, w)
             PROVE  s \in FreeSlots
  BY DEF Isolated
<1>1. MP!PageLookup(mem', s, w) /= MP!PageLookup(mem, s, w)
  BY SameLookup DEF Sees
<1> QED BY <1>1 DEF MP!ViewButIn

\* A step that leaves memory alone.
LEMMA NoMemory ==
    ASSUME SysInv, UNCHANGED <<mem, last>>
    PROVE  UNCHANGED MP!vars /\ (~Mem!Astray' => MP!Good(mem')) /\ Isolated /\ Gets
<1>1. UNCHANGED MP!vars
  BY DEF MP!vars
<1>2. Mem!Astray' <=> Mem!Astray
  BY DEF Mem!Astray
<1> QED BY <1>1, <1>2 DEF SysInv, Isolated, Gets

\* A step of Memory keeps its invariant.
LEMMA MemoryStep ==
    ASSUME SysInv, ~Mem!Astray, MP!Next, ~Mem!Astray'
    PROVE  MP!Good(mem')
BY MP!GoodNext, Constants, SameAstray DEF SysInv

\* What Done records is what Memory records; a page sent counts as one mapped.
LEMMA Finishes ==
    ASSUME Going, NEW r
    PROVE  /\ \A op \in {"fork", "alloc", "map", "unmap", "destroy"} :
                Done(op, r) => MP!Finish(op, r) /\ ~Mem!Astray' /\ last'.op = op
           /\ Done("send", r) => MP!Finish("map", r) /\ ~Mem!Astray' /\ last'.op = "send"
<1>0. ~mem.panic /\ ~MP!Astray /\ ~Mem!Astray
  BY SameAstray DEF Going
<1>1. ASSUME NEW op \in {"fork", "alloc", "map", "unmap", "destroy"}, Done(op, r)
      PROVE  MP!Finish(op, r) /\ ~Mem!Astray' /\ last'.op = op
  <2>1. mem' = r.mem /\ last' = [op |-> op, ret |-> r.ret]
    BY <1>1 DEF Done
  <2>2. last'.op = op /\ op /= "boot" /\ op /= "send" /\ op /= "stray"
    BY <2>1
  <2>3. ~Mem!Astray'
    BY <2>2 DEF Mem!Astray
  <2> QED BY <1>0, <2>1, <2>2, <2>3 DEF MP!Finish
<1>2. ASSUME Done("send", r) PROVE MP!Finish("map", r) /\ ~Mem!Astray' /\ last'.op = "send"
  <2>1. mem' = r.mem /\ last' = [op |-> "send", ret |-> r.ret]
    BY <1>2 DEF Done
  <2>2. last'.op = "send" /\ [last' EXCEPT !.op = "map"] = [op |-> "map", ret |-> r.ret]
    BY <2>1
  <2>3. ~Mem!Astray'
    BY <2>2 DEF Mem!Astray
  <2> QED BY <1>0, <2>1, <2>2, <2>3 DEF MP!Finish
<1> QED BY <1>1, <1>2

-----------------------------------------------------------------------------
(* One lemma for each action.                                              *)

\* The two sides stay in step when neither a slot nor a directory changes hands.
LEMMA AgreeKept ==
    ASSUME SysInv, Going, freeList' = freeList, MP!SameDirs(mem, mem')
    PROVE  Agree'
<1>1. FreeSlots' = FreeSlots
  BY DEF FreeSlots
<1>2. \A s \in Slot : mem'.word[Mem!DirLoc(s)] = mem.word[Mem!DirLoc(s)]
  BY SameEntries DEF MP!SameDirs
<1> QED BY <1>1, <1>2 DEF SysInv, Agree

\* sched_yield ends the boot phase.
LEMMA YieldLeavesBoot ==
    ASSUME NEW es, NEW cur, SchedYield(es, cur)
    PROVE  mode' \in {"user", "spin"}
BY DEF SchedYield, RunNext, Spin

\* A timer interrupt or sys_yield.
LEMMA SwitchMoves == ASSUME SysInv, Switch PROVE Moves
<1>1. UNCHANGED <<envs, freeList, nextId, mem, dstva, last>> /\ Going
  BY DEF Switch, HandleIrq, SysYield
<1>2. IndInv' /\ mode' \in {"user", "spin"}
  BY YieldSound, YieldLeavesBoot DEF SysInv, Switch, HandleIrq, SysYield
<1>3. UNCHANGED MP!vars /\ (~Mem!Astray' => MP!Good(mem')) /\ Isolated /\ Gets
  BY <1>1, NoMemory
<1>4. Agree'
  BY <1>1, AgreeKept DEF MP!SameDirs
<1>5. SysInv'
  BY <1>1, <1>2, <1>3, <1>4 DEF SysInv, Waiting
<1>6. [Next]_vars
  BY DEF Switch, Next
<1> QED BY <1>3, <1>5, <1>6 DEF Moves

\* The slot env_alloc takes: it was free, and keeps its receiving flag.
LEMMA AllocTakes ==
    ASSUME SysInv, freeList /= <<>>, NEW parent \in Nat, NEW status \in Status,
           EnvAlloc(parent, status), NEW e, e = Head(freeList)
    PROVE  /\ e \in Slot /\ e \in FreeSlots /\ FreeSlots' = FreeSlots \ {e}
           /\ envs[e].status = ENV_FREE
           /\ \A s \in Slot : envs'[s].recving = envs[s].recving
           /\ \A s \in Slot : s /= e => envs'[s] = envs[s]
<1>1. /\ e \in Slot /\ e \in FreeSlots /\ FreeSlots' = FreeSlots \ {e}
      /\ \A s \in Slot : s /= e => envs'[s] = envs[s]
  BY AllocEffect DEF SysInv
<1>2. envs[e].status = ENV_FREE /\ envs \in [Slot -> EnvRecord]
  BY <1>1 DEF SysInv, IndInv, FreeListSound, EnvTypeOK
<1>3. envs'[e].recving = envs[e].recving
  <2>1. envs[e] \in EnvRecord
    BY <1>1, <1>2
  <2>2. envs'[e] = [envs[e] EXCEPT !.status = status, !.id = MkEnvId(nextId + 1, e),
                                   !.parent = parent]
    BY <1>1, <1>2 DEF EnvAlloc
  <2> QED BY <2>1, <2>2 DEF EnvRecord
<1> QED BY <1>1, <1>2, <1>3

\* Memory and table after a slot has got a directory.
LEMMA AgreePlus ==
    ASSUME SysInv, Going, NEW e \in FreeSlots, FreeSlots' = FreeSlots \ {e},
           ~mem'.panic => MP!DirsPlus(mem, mem', e)
    PROVE  Agree'
<1>1. ASSUME ~mem'.panic, NEW s \in Slot
      PROVE  s \in FreeSlots \ {e} <=> mem'.word[Mem!DirLoc(s)] = Nil
  <2>1. mem'.word[Mem!DirLoc(s)] = Nil <=> s /= e /\ mem.word[Mem!DirLoc(s)] = Nil
    BY <1>1, SameEntries DEF MP!DirsPlus
  <2> QED BY <2>1 DEF SysInv, Agree
<1> QED BY <1>1 DEF Agree, Going

\* No receiver wakes when a slot is given away: the slot was free.
LEMMA NobodyWakes ==
    ASSUME NEW e, envs[e].status = ENV_FREE, \A s \in Slot : s /= e => envs'[s] = envs[s]
    PROVE  Gets
BY DEF Gets, Receiving, ENV_FREE, ENV_RUNNABLE, ENV_NOT_RUNNABLE

\* env_create_priority.
LEMMA CreateMoves == ASSUME SysInv, CreateCall PROVE Moves
<1> DEFINE e == Head(freeList)
<1>1. /\ Going /\ ~mem.panic /\ EnvCreate /\ Len(mem.free) >= 4 /\ mem' = MP!CreateEnv(mem, e)
      /\ UNCHANGED <<dstva, last>>
  BY SameCalls DEF CreateCall, Going
<1>2. /\ mode = "boot" /\ mode' = mode /\ nextId < MaxEnv /\ freeList /= <<>>
      /\ nextId' = nextId + 1 /\ EnvAlloc(0, ENV_RUNNABLE)
  BY <1>1 DEF EnvCreate, EnvAlloc
<1>3. /\ e \in Slot /\ e \in FreeSlots /\ FreeSlots' = FreeSlots \ {e}
      /\ envs[e].status = ENV_FREE
      /\ \A s \in Slot : envs'[s].recving = envs[s].recving
      /\ \A s \in Slot : s /= e => envs'[s] = envs[s]
  BY <1>2, AllocTakes DEF Status
<1>4. mem.word[MP!DirLoc(e)] = Nil
  BY <1>1, <1>3, SameEntries DEF SysInv, Agree
<1>5. last.op = "boot"
  BY <1>2 DEF SysInv
<1> HIDE DEF e
<1>6. MP!Next
  <2>1. e \notin MP!Live
    BY <1>4 DEF MP!Live
  <2>2. MP!Create(e)
    BY <1>1, <1>5, <2>1 DEF MP!Create
  <2> QED BY <1>3, <2>2 DEF MP!Next
<1>7. ~Mem!Astray /\ ~Mem!Astray' /\ MP!Good(mem)
  BY <1>1, LastOp DEF Going, SysInv
<1>15. MP!DirsPlus(mem, mem', e) /\ MP!ViewBut(mem, mem', e, STACK)
  BY <1>1, <1>3, <1>4, <1>7, Constants, MP!CreateChanges
<1>8. Isolated
  BY <1>3, <1>15, SpacesAssumption, OwnPageIsolated
<1>9. Gets
  BY <1>3, NobodyWakes
<1>10. Agree'
  BY <1>1, <1>3, <1>15, AgreePlus
<1>11. IndInv' /\ MP!Good(mem')
  BY <1>1, <1>6, <1>7, CreateSound, MemoryStep DEF SysInv
<1>12. nextId' <= MaxEnv
  BY <1>2, BoundAssumption DEF SysInv, IndInv, EnvTypeOK
<1>13. SysInv'
  BY <1>1, <1>2, <1>3, <1>5, <1>10, <1>11, <1>12 DEF SysInv, Waiting
<1>14. [Next]_vars
  BY <1>1 DEF Next
<1> QED BY <1>6, <1>7, <1>8, <1>9, <1>13, <1>14 DEF Moves, Usual

\* sys_env_alloc.
LEMMA ForkMoves ==
    ASSUME SysInv, NEW n \in 0..STACK, ForkCall(n)
    PROVE  Moves
<1> DEFINE e == Head(freeList)
<1>1. PICK r : r = MP!ForkEnv(mem, e, n)
  OBVIOUS
<1>2. /\ mode = "user" /\ Going /\ freeList /= <<>> /\ MP!Forkable(mem, curenv, n)
      /\ SysEnvAlloc(IF r.mem.panic THEN "panic" ELSE r.ret)
      /\ Done("fork", r) /\ UNCHANGED dstva
  <2>1. STACK \in Nat /\ n \in Nat
    BY SpacesAssumption
  <2>2. MP!Forkable(mem, curenv, n) <=> Mem!Forkable(mem, curenv, n)
    BY SameEntries, SameLookup
    DEF MP!Forkable, Mem!Forkable, MP!StackPages, Mem!StackPages, MP!SharedPuds, Mem!SharedPuds
  <2> QED BY <1>1, <2>1, <2>2, SameFork DEF ForkCall, User
<1>3. curenv \in Slot \ FreeSlots /\ curenv \in MP!Live
  BY <1>2, CallerLives
<1>4. e \in Slot /\ e \in FreeSlots
  <2>1. freeList \in Seq(Slot) /\ freeList /= <<>>
    BY <1>2 DEF SysInv, IndInv, EnvTypeOK
  <2>2. e = freeList[1] /\ 1 \in DOMAIN freeList /\ freeList[1] \in Slot
    BY <2>1
  <2> QED BY <2>2 DEF FreeSlots
<1>5. mem.word[MP!DirLoc(e)] = Nil /\ envs[e].status = ENV_FREE
  BY <1>2, <1>4, SameEntries DEF SysInv, Agree, IndInv, FreeListSound
<1>6. MP!Next /\ ~Mem!Astray /\ ~Mem!Astray' /\ last'.op = "fork" /\ mem' = r.mem
  <2>1. MP!Finish("fork", r) /\ ~Mem!Astray /\ ~Mem!Astray' /\ last'.op = "fork"
    BY <1>2, Finishes DEF Going
  <2>2. e \notin MP!Live
    BY <1>5 DEF MP!Live
  <2>3. MP!Fork(curenv, e)
    BY <1>1, <1>2, <1>3, <2>1, <2>2 DEF MP!Fork
  <2> QED BY <1>2, <1>3, <1>4, <2>1, <2>3 DEF MP!Next, Done
<1>7. /\ r.ret \in {"ok", "no_mem", "panic"} /\ (r.ret = "panic" => r.mem.panic)
      /\ MP!ViewButIn(mem, r.mem, e, MP!StackPages(n))
      /\ ~r.mem.panic => MP!DirsPlus(mem, r.mem, e)
  <2>1. MP!Good(mem) /\ n \in Nat
    BY <1>6, SpacesAssumption DEF SysInv
  <2>2. MP!StackPages(n) \subseteq UserVPN /\ MP!PrivatePages(MP!StackPages(n))
    BY <1>2 DEF MP!Forkable, MP!PrivatePages
  <2> QED BY <1>1, <1>4, <1>5, <2>1, <2>2, Constants, MP!ForkChanges
<1>8. PICK outcome : outcome = IF r.mem.panic THEN "panic" ELSE r.ret
  OBVIOUS
<1>9. outcome \in {"ok", "no_mem", "panic"} /\ SysEnvAlloc(outcome)
      /\ (outcome = "panic" <=> r.mem.panic)
  BY <1>2, <1>7, <1>8
<1>10. [Next]_vars /\ IndInv'
  BY <1>9, ForkSound DEF Next, SysInv
<1>11. Isolated
  BY <1>4, <1>6, <1>7, ChildIsolated
<1>12. /\ Agree' /\ Gets /\ nextId' <= MaxEnv /\ mode' /= "boot"
       /\ \A s \in Slot : envs'[s].recving = envs[s].recving
  <2>1. CASE outcome = "panic"
    <3>1. UNCHANGED <<envs, nextId>> /\ mode' = "panic" /\ mem'.panic
      BY <1>6, <1>9, <2>1 DEF SysEnvAlloc
    <3>2. Gets
      BY <3>1, <1>5, NobodyWakes
    <3> QED BY <3>1, <3>2 DEF Agree, Going, SysInv
  <2>2. CASE outcome /= "panic"
    <3>1. PICK status \in Status : EnvAlloc(envs[curenv].id, status)
      BY <1>9, <2>2 DEF SysEnvAlloc, Status
    <3>2. envs[curenv].id \in Nat
      BY <1>3 DEF SysInv, IndInv, EnvTypeOK, EnvRecord
    <3>3. /\ FreeSlots' = FreeSlots \ {e}
          /\ \A s \in Slot : envs'[s].recving = envs[s].recving
          /\ \A s \in Slot : s /= e => envs'[s] = envs[s]
      BY <1>2, <3>1, <3>2, AllocTakes
    <3>4. Agree'
      BY <1>2, <1>4, <1>6, <1>7, <3>3, AgreePlus
    <3>5. Gets
      BY <1>5, <3>3, NobodyWakes
    <3>6. nextId' <= MaxEnv /\ mode' = mode
      BY <1>9, <2>2, BoundAssumption DEF SysEnvAlloc, EnvAlloc, SysInv, IndInv, EnvTypeOK
    <3> QED BY <1>2, <3>3, <3>4, <3>5, <3>6
  <2> QED BY <2>1, <2>2
<1>13. SysInv'
  BY <1>2, <1>6, <1>10, <1>12, MemoryStep DEF SysInv, Waiting
<1> QED BY <1>6, <1>10, <1>11, <1>12, <1>13 DEF Moves, Usual

\* sys_mem_alloc, sys_mem_map and sys_mem_unmap do not touch the environment table.
LEMMA MemoryCallMoves ==
    ASSUME SysInv, User, UNCHANGED <<vars, dstva>>, MP!Next, ~Mem!Astray', MP!SameDirs(mem, mem'),
           Isolated
    PROVE  Moves
<1>1. mode' = mode /\ mode = "user" /\ Going /\ ~Mem!Astray
  BY DEF User, Going, vars
<1>2. IndInv' /\ MP!Good(mem') /\ Agree'
  BY <1>1, StutterSound, MemoryStep, AgreeKept DEF SysInv, vars
<1>3. SysInv'
  BY <1>1, <1>2 DEF SysInv, Waiting, vars
<1>4. Gets
  BY DEF Gets, Receiving, ENV_RUNNABLE, ENV_NOT_RUNNABLE, vars
<1> QED BY <1>1, <1>3, <1>4 DEF Moves, Usual

\* sys_mem_alloc.
LEMMA AllocMoves ==
    ASSUME SysInv, NEW id \in KnownId, NEW v \in UserVPN, AllocCall(id, v)
    PROVE  Moves
<1>1. PICK t : t = Envid2Env(id, TRUE)
  OBVIOUS
<1>2. PICK r : r = MP!MemAlloc(mem, t, v, TRUE)
  OBVIOUS
<1>3. User /\ Done("alloc", r) /\ UNCHANGED <<vars, dstva>> /\ Going /\ mode = "user"
  BY <1>1, <1>2, SameCalls DEF AllocCall, User
<1>4. /\ t = None \/ (t \in Slot /\ mem.word[MP!DirLoc(t)] /= Nil)
      /\ t \in MP!Target /\ None \notin Slot
      /\ t /= None => t = curenv \/ envs[t].parent = envs[curenv].id
  BY <1>1, <1>3, NamesLive
<1>5. MP!Next /\ mem' = r.mem /\ ~Mem!Astray' /\ MP!Good(mem)
  <2>1. MP!Finish("alloc", r) /\ ~Mem!Astray'
    BY <1>3, Finishes
  <2>2. MP!Alloc(t, v, TRUE)
    BY <1>2, <1>3, <2>1, CallerLives DEF MP!Alloc
  <2> QED BY <1>3, <1>4, <2>1, <2>2 DEF MP!Next, Done, Going, SysInv
<1>6. /\ MP!SameDirs(mem, mem')
      /\ IF t = None THEN MP!SameView(mem, mem') ELSE MP!ViewBut(mem, mem', t, v)
  BY <1>2, <1>4, <1>5, Constants, MP!MemAllocChanges
<1>7. Isolated
  BY <1>4, <1>6, SameViewIsolated, OwnPageIsolated
<1> QED BY <1>3, <1>5, <1>6, <1>7, MemoryCallMoves

\* sys_mem_map.
LEMMA MapMoves ==
    ASSUME SysInv, NEW sid \in KnownId, NEW did \in KnownId, NEW sv \in UserVPN,
           NEW dv \in UserVPN, MapCall(sid, sv, did, dv)
    PROVE  Moves
<1>1. PICK s, d : s = Envid2Env(sid, TRUE) /\ d = Envid2Env(did, TRUE)
  OBVIOUS
<1>2. PICK r : r = MP!MemMap(mem, s, sv, d, dv, TRUE)
  OBVIOUS
<1>3. User /\ Done("map", r) /\ UNCHANGED <<vars, dstva>> /\ Going /\ mode = "user"
  BY <1>1, <1>2, SameCalls DEF MapCall, User
<1>4. /\ s \in Slot \union {None} /\ s \in MP!Target
      /\ d = None \/ (d \in Slot /\ mem.word[MP!DirLoc(d)] /= Nil)
      /\ d \in MP!Target /\ None \notin Slot
      /\ d /= None => d = curenv \/ envs[d].parent = envs[curenv].id
  BY <1>1, <1>3, NamesLive
<1>5. MP!Next /\ mem' = r.mem /\ ~Mem!Astray' /\ MP!Good(mem)
  <2>1. MP!Finish("map", r) /\ ~Mem!Astray'
    BY <1>3, Finishes
  <2>2. MP!Map(s, sv, d, dv, TRUE)
    BY <1>2, <1>3, <2>1, CallerLives DEF MP!Map
  <2> QED BY <1>3, <1>4, <2>1, <2>2 DEF MP!Next, Done, Going, SysInv
<1>6. /\ MP!SameDirs(mem, mem')
      /\ IF d = None THEN MP!SameView(mem, mem') ELSE MP!ViewBut(mem, mem', d, dv)
  BY <1>2, <1>4, <1>5, Constants, MP!MemMapChanges
<1>7. Isolated
  BY <1>4, <1>6, SameViewIsolated, OwnPageIsolated
<1> QED BY <1>3, <1>5, <1>6, <1>7, MemoryCallMoves

\* sys_mem_unmap.
LEMMA UnmapMoves ==
    ASSUME SysInv, NEW id \in KnownId, NEW v \in UserVPN, UnmapCall(id, v)
    PROVE  Moves
<1>1. PICK t : t = Envid2Env(id, TRUE)
  OBVIOUS
<1>2. PICK r : r = MP!MemUnmap(mem, t, v)
  OBVIOUS
<1>3. User /\ Done("unmap", r) /\ UNCHANGED <<vars, dstva>> /\ Going /\ mode = "user"
  BY <1>1, <1>2, SameCalls DEF UnmapCall, User
<1>4. /\ t \in Slot \union {None} /\ t \in MP!Target /\ None \notin Slot
      /\ t /= None => t = curenv \/ envs[t].parent = envs[curenv].id
  BY <1>1, <1>3, NamesLive
<1>5. MP!Next /\ mem' = r.mem /\ ~Mem!Astray' /\ MP!Good(mem)
  <2>1. MP!Finish("unmap", r) /\ ~Mem!Astray'
    BY <1>3, Finishes
  <2>2. MP!Unmap(t, v)
    BY <1>2, <1>3, <2>1, CallerLives DEF MP!Unmap
  <2> QED BY <1>3, <1>4, <2>1, <2>2 DEF MP!Next, Done, Going, SysInv
<1>6. /\ MP!SameDirs(mem, mem')
      /\ IF t = None THEN MP!SameView(mem, mem') ELSE MP!ViewBut(mem, mem', t, v)
  BY <1>2, <1>4, <1>5, Constants, MP!MemUnmapChanges
<1>7. Isolated
  BY <1>4, <1>6, SameViewIsolated, OwnPageIsolated
<1> QED BY <1>3, <1>5, <1>6, <1>7, MemoryCallMoves

\* What sys_env_destroy does to the table: nobody wakes.
LEMMA DestroyFrees ==
    ASSUME SysInv, NEW id, SysEnvDestroy(id), NEW e \in Slot \ FreeSlots, e = Envid2Env(id, TRUE)
    PROVE  /\ FreeSlots' = FreeSlots \union {e}
           /\ \A b \in Slot : envs'[b].recving = envs[b].recving
           /\ Gets /\ mode' /= "boot" /\ nextId' = nextId
<1>1. /\ envs' = [envs EXCEPT ![e].status = ENV_FREE] /\ freeList' = <<e>> \o freeList
      /\ nextId' = nextId /\ mode = "user"
  BY DEF SysEnvDestroy
<1>2. /\ FreeSlots' = FreeSlots \union {e}
      /\ envs'[e].status = ENV_FREE /\ \A b \in Slot : b /= e => envs'[b] = envs[b]
  BY <1>1, FreeEffect DEF SysInv
<1>3. envs[e] \in EnvRecord /\ envs'[e] = [envs[e] EXCEPT !.status = ENV_FREE]
  BY <1>1 DEF SysInv, IndInv, EnvTypeOK
<1>4. envs'[e].recving = envs[e].recving
  BY <1>3 DEF EnvRecord
<1>5. Gets
  <2> SUFFICES ASSUME NEW s \in Slot, Receiving(s), envs'[s].status = ENV_RUNNABLE PROVE FALSE
    BY DEF Gets
  <2>1. envs[s].status = ENV_NOT_RUNNABLE /\ ENV_NOT_RUNNABLE /= ENV_RUNNABLE
    BY DEF Receiving, ENV_RUNNABLE, ENV_NOT_RUNNABLE
  <2>2. ENV_FREE /= ENV_RUNNABLE
    BY DEF ENV_FREE, ENV_RUNNABLE
  <2> QED BY <1>2, <2>1, <2>2
<1>6. mode' /= "boot"
  <2>1. CASE e = curenv
    BY <2>1, YieldLeavesBoot DEF SysEnvDestroy
  <2>2. CASE e /= curenv
    BY <1>1, <2>2 DEF SysEnvDestroy
  <2> QED BY <2>1, <2>2
<1> QED BY <1>1, <1>2, <1>4, <1>5, <1>6

\* sys_env_destroy.
LEMMA DestroyMoves ==
    ASSUME SysInv, NEW id \in KnownId, DestroyCall(id)
    PROVE  Moves
<1>1. PICK e : e = Envid2Env(id, TRUE)
  OBVIOUS
<1>2. PICK T : T = MP!FreedTables(mem, e)
  OBVIOUS
<1>3. PICK s \in MP!ReleaseOrders(mem, T) :
        Done("destroy", [mem |-> MP!EnvFree(mem, e, T, s), ret |-> "ok"])
  BY <1>1, <1>2, SameFree DEF DestroyCall
<1>4. /\ SysEnvDestroy(id) /\ UNCHANGED dstva /\ Going /\ mode = "user" /\ e /= None
      /\ MP!StaysOnTrack(mem, e) /\ MP!Good(mem) /\ ~Mem!Astray
  BY <1>1, SameTrack DEF DestroyCall, User, SysEnvDestroy, Going, SysInv
<1>5. /\ id \in NamedId /\ e \in Slot \ FreeSlots /\ mem.word[MP!DirLoc(e)] /= Nil
      /\ e = curenv \/ envs[e].parent = envs[curenv].id
  BY <1>1, <1>4, NamesLive
<1>6. MP!Next /\ mem' = MP!EnvFree(mem, e, T, s) /\ ~Mem!Astray'
  <2>1. PICK n : n = MP!EnvFree(mem, e, T, s)
    OBVIOUS
  <2>2. PICK r : r = [mem |-> n, ret |-> "ok"]
    OBVIOUS
  <2>3. Done("destroy", r) /\ r.mem = n
    BY <1>3, <2>1, <2>2
  <2>4. MP!Finish("destroy", r) /\ ~Mem!Astray'
    BY <1>4, <2>3, Finishes
  <2>5. e \in MP!Live
    BY <1>5 DEF MP!Live
  <2>6. MP!Destroy(e)
    BY <1>2, <1>4, <2>1, <2>2, <2>4, <2>5 DEF MP!Destroy
  <2> QED BY <1>5, <2>1, <2>3, <2>4, <2>6 DEF MP!Next, Done
<1>7. /\ \A b \in Slot : mem'.word[MP!DirLoc(b)] = Nil <=> b = e \/ mem.word[MP!DirLoc(b)] = Nil
      /\ \A b \in Slot \ {e}, v \in UserVPN :
            MP!Space(b, v) = b => MP!PageLookup(mem', b, v) = MP!PageLookup(mem, b, v)
  BY <1>2, <1>3, <1>4, <1>5, <1>6, Constants, MP!FreeChanges
<1>8. FreeSlots' = FreeSlots \union {e} /\ \A b \in Slot : envs'[b].recving = envs[b].recving
  BY <1>1, <1>4, <1>5, DestroyFrees
<1>9. Agree'
  <2>1. \A b \in Slot : b \in FreeSlots \union {e} <=> mem'.word[Mem!DirLoc(b)] = Nil
    BY <1>4, <1>5, <1>7, SameEntries DEF SysInv, Agree
  <2> QED BY <1>8, <2>1 DEF Agree
<1>10. Isolated
  <2> SUFFICES ASSUME NEW b \in Slot, NEW v \in UserVPN,
                      Mem!Space(b, v) = b, Sees(mem', b, v) /= Sees(mem, b, v)
               PROVE  b = curenv \/ envs[b].parent = envs[curenv].id
    BY DEF Isolated
  <2>1. b = e
    BY <1>7, SameEntries, SameLookup DEF Sees
  <2> QED BY <1>5, <2>1
<1>11. Gets /\ mode' /= "boot" /\ nextId' = nextId
  BY <1>1, <1>4, <1>5, DestroyFrees
<1>13. IndInv' /\ MP!Good(mem')
  BY <1>4, <1>5, <1>6, DestroySound, MemoryStep DEF SysInv
<1>14. SysInv'
  BY <1>4, <1>8, <1>9, <1>11, <1>13 DEF SysInv, Waiting
<1>15. [Next]_vars
  BY <1>4, <1>5 DEF Next
<1> QED BY <1>4, <1>6, <1>10, <1>11, <1>14, <1>15 DEF Moves, Usual

\* The same, when env_free follows a block entry to a word that is not zero.
LEMMA DestroyAstrayMoves ==
    ASSUME SysInv, NEW id \in KnownId, DestroyAstrayCall(id)
    PROVE  Moves
<1>1. PICK e : e = Envid2Env(id, TRUE)
  OBVIOUS
<1>2. PICK found \in Mem!StrayFinds(mem, e) :
        Done("stray", [mem |-> Mem!EnvFreeLoop(mem, e, found), ret |-> "ok"])
  BY <1>1 DEF DestroyAstrayCall
<1>3. SysEnvDestroy(id) /\ UNCHANGED dstva /\ Going /\ mode = "user" /\ e /= None
  BY <1>1 DEF DestroyAstrayCall, User, SysEnvDestroy
<1>4. id \in NamedId /\ e \in Slot \ FreeSlots /\ mem.word[MP!DirLoc(e)] /= Nil
  BY <1>1, <1>3, NamesLive
<1>5. PICK n : n = Mem!EnvFreeLoop(mem, e, found)
  OBVIOUS
<1>6. PICK r : r = [mem |-> n, ret |-> "ok"]
  OBVIOUS
<1>7. r.mem = n /\ r.ret = "ok" /\ mem' = n /\ last' = [op |-> "stray", ret |-> "ok"]
  BY <1>2, <1>5, <1>6 DEF Done
<1>8. ~Mem!Astray /\ Mem!Astray' /\ last'.op = "stray"
  BY <1>3, <1>7 DEF Going, Mem!Astray
<1>9. Mem!Finish("stray", r)
  <2>1. last'.op /= "send" /\ last'.op /= "boot"
    BY <1>8
  <2> QED BY <1>3, <1>7, <1>8, <2>1 DEF Mem!Finish, Going
<1>10. Mem!Next
  <2>1. e \in Mem!Live
    BY <1>4, SameEntries DEF Mem!Live
  <2>2. Mem!DestroyAstray(e)
    BY <1>2, <1>5, <1>6, <1>9, <2>1 DEF Mem!DestroyAstray
  <2> QED BY <1>4, <2>2 DEF Mem!Next
<1>11. /\ \A b \in Slot : envs'[b].recving = envs[b].recving
       /\ Gets /\ mode' /= "boot" /\ nextId' = nextId
  BY <1>1, <1>3, <1>4, DestroyFrees
<1>12. IndInv'
  BY <1>3, <1>4, DestroySound DEF SysInv
<1>13. Agree' /\ Isolated
  BY <1>8 DEF Agree, Going, Isolated
<1>14. SysInv'
  BY <1>3, <1>8, <1>11, <1>12, <1>13 DEF SysInv, Waiting
<1>15. [Next]_vars
  BY <1>3, <1>4 DEF Next
<1> QED BY <1>8, <1>10, <1>11, <1>13, <1>14, <1>15 DEF Moves, Stray

\* sys_set_env_status.
LEMMA SetStatusMoves ==
    ASSUME SysInv, NEW id \in KnownId, NEW status \in SetStatus, SetStatusCall(id, status)
    PROVE  Moves
<1>1. PICK e : e = Envid2Env(id, FALSE)
  OBVIOUS
<1>2. /\ SysSetEnvStatus(id, status) /\ Going /\ UNCHANGED <<mem, dstva, last>>
      /\ mode = "user" /\ e /= None /\ UNCHANGED <<freeList, nextId, curenv, pos, mode>>
      /\ envs' = [envs EXCEPT ![e].status = status]
  BY <1>1 DEF SetStatusCall, SysSetEnvStatus
<1>3. id \in NamedId /\ e \in Slot
  BY <1>1, <1>2, NamesLive
<1>4. \A s \in Slot : envs'[s].recving = envs[s].recving
  <2>1. envs \in [Slot -> EnvRecord] /\ envs[e] \in EnvRecord
    BY <1>3 DEF SysInv, IndInv, EnvTypeOK
  <2>2. envs'[e] = [envs[e] EXCEPT !.status = status]
    BY <1>2, <1>3, <2>1
  <2>3. envs'[e].recving = envs[e].recving
    BY <2>1, <2>2 DEF EnvRecord
  <2>4. \A s \in Slot : s /= e => envs'[s] = envs[s]
    BY <1>2, <2>1
  <2> QED BY <2>3, <2>4
<1>5. UNCHANGED MP!vars /\ (~Mem!Astray' => MP!Good(mem')) /\ Isolated /\ Gets
  BY <1>2, NoMemory
<1>6. Agree'
  BY <1>2, AgreeKept DEF MP!SameDirs
<1>7. [Next]_vars /\ IndInv'
  BY <1>2, <1>3, SetStatusSound DEF Next, SysInv
<1>8. SysInv'
  BY <1>2, <1>4, <1>5, <1>6, <1>7 DEF SysInv, Waiting
<1> QED BY <1>5, <1>7, <1>8 DEF Moves

\* sys_ipc_recv.
LEMMA RecvMoves ==
    ASSUME SysInv, NEW va \in RecvVPN, RecvCall(va)
    PROVE  Moves
<1>1. /\ SysIpcRecv /\ Going /\ UNCHANGED <<mem, last>> /\ mode = "user"
      /\ UNCHANGED <<freeList, nextId>>
      /\ dstva' = [dstva EXCEPT ![curenv] = va]
  BY DEF RecvCall, SysIpcRecv
<1>2. curenv \in Slot /\ envs \in [Slot -> EnvRecord] /\ va \in UserVPN
  BY <1>1, CallerIsUsed, SpacesAssumption DEF SysInv, IndInv, EnvTypeOK
<1>3. \A s \in Slot : s /= curenv => envs'[s] = envs[s]
  BY <1>1, <1>2 DEF SysIpcRecv
<1>4. IndInv' /\ mode' \in {"user", "spin"}
  BY <1>1, RecvSound, YieldLeavesBoot DEF SysInv, SysIpcRecv
<1>5. UNCHANGED MP!vars /\ (~Mem!Astray' => MP!Good(mem')) /\ Isolated /\ Gets
  BY <1>1, NoMemory
<1>6. Agree'
  BY <1>1, AgreeKept DEF MP!SameDirs
<1>7. dstva' \in [Slot -> UserVPN \union {0}]
  BY <1>1, <1>2 DEF SysInv
<1>8. Waiting'
  <2> SUFFICES ASSUME NEW s \in Slot, envs'[s].recving /= 0 PROVE dstva'[s] \in RecvVPN
    BY DEF Waiting
  <2>1. CASE s = curenv
    BY <1>1, <1>2, <2>1 DEF SysInv
  <2>2. CASE s /= curenv
    BY <1>1, <1>2, <1>3, <2>2 DEF SysInv, Waiting
  <2> QED BY <2>1, <2>2
<1>9. SysInv'
  BY <1>1, <1>4, <1>5, <1>6, <1>7, <1>8 DEF SysInv
<1>10. [Next]_vars
  BY <1>1 DEF Next
<1> QED BY <1>5, <1>9, <1>10 DEF Moves

\* The environment a message is delivered to, and nobody else, changes.
LEMMA Delivers ==
    ASSUME SysInv, Going, NEW id \in KnownId, NEW value \in Value, SysIpcCanSend(id, value),
           NEW e, e = Envid2Env(id, FALSE)
    PROVE  /\ [Next]_vars /\ IndInv' /\ UNCHANGED <<freeList, nextId, curenv, pos, mode>>
           /\ mode = "user" /\ e \in Slot /\ Receiving(e)
           /\ envs'[e].recving = 0 /\ \A s \in Slot : s /= e => envs'[s] = envs[s]
<1>1. mode = "user" /\ e /= None /\ Receiving(e)
      /\ UNCHANGED <<freeList, nextId, curenv, pos, mode>>
  BY DEF SysIpcCanSend
<1>2. id \in NamedId /\ e \in Slot
  BY <1>1, NamesLive
<1>3. envs' = [envs EXCEPT ![e] = [envs[e] EXCEPT
                !.value = value, !.from = envs[curenv].id,
                !.recving = 0, !.status = ENV_RUNNABLE]]
  BY DEF SysIpcCanSend
<1>4. envs \in [Slot -> EnvRecord] /\ envs[e] \in EnvRecord
  BY <1>2 DEF SysInv, IndInv, EnvTypeOK
<1>5. \A s \in Slot : s /= e => envs'[s] = envs[s]
  BY <1>3, <1>4
<1>6. envs'[e] = [envs[e] EXCEPT !.value = value, !.from = envs[curenv].id,
                                 !.recving = 0, !.status = ENV_RUNNABLE]
  BY <1>2, <1>3, <1>4
<1>7. envs'[e].recving = 0
  BY <1>4, <1>6 DEF EnvRecord
<1>8. [Next]_vars /\ IndInv'
  BY <1>2, SendSound DEF Next, SysInv
<1> QED BY <1>1, <1>2, <1>5, <1>7, <1>8

\* sys_ipc_can_send without a page.
LEMMA SendMoves ==
    ASSUME SysInv, NEW id \in KnownId, NEW value \in Value, SendCall(id, value)
    PROVE  Moves
<1>1. Going /\ SysIpcCanSend(id, value) /\ UNCHANGED <<mem, dstva, last>>
  BY DEF SendCall
<1>2. PICK e : e = Envid2Env(id, FALSE)
  OBVIOUS
<1>3. /\ [Next]_vars /\ IndInv' /\ UNCHANGED <<freeList, nextId, curenv, pos, mode>>
      /\ envs'[e].recving = 0 /\ \A s \in Slot : s /= e => envs'[s] = envs[s]
  BY <1>1, <1>2, Delivers
<1>4. UNCHANGED MP!vars /\ (~Mem!Astray' => MP!Good(mem')) /\ Isolated /\ Gets
  BY <1>1, NoMemory
<1>5. Agree'
  BY <1>1, <1>3, AgreeKept DEF MP!SameDirs
<1>6. SysInv'
  BY <1>1, <1>3, <1>4, <1>5 DEF SysInv, Waiting
<1> QED BY <1>3, <1>4, <1>6 DEF Moves

\* sys_ipc_can_send with a page: the page is mapped before anybody is woken.
LEMMA SendPageMoves ==
    ASSUME SysInv, NEW id \in KnownId, NEW value \in Value, NEW srcva \in UserVPN,
           SendPageCall(id, value, srcva)
    PROVE  Moves
<1>1. PICK e : e = Envid2Env(id, FALSE)
  OBVIOUS
<1>2. PICK r : r = MP!MemMap(mem, curenv, srcva, e, dstva[e], TRUE)
  OBVIOUS
<1>3. /\ mode = "user" /\ Going /\ e /= None /\ Receiving(e)
      /\ IF r.ret = "ok" THEN SysIpcCanSend(id, value) ELSE UNCHANGED vars
      /\ Done("send", r) /\ UNCHANGED dstva
  BY <1>1, <1>2, SameCalls DEF SendPageCall, User
<1>4. /\ e \in Slot /\ mem.word[MP!DirLoc(e)] /= Nil /\ e \in MP!Target /\ None \notin Slot
      /\ curenv \in Slot /\ curenv \in MP!Target /\ MP!Live /= {}
  BY <1>1, <1>3, NamesLive, CallerLives DEF MP!Target
<1>5. dstva[e] \in UserVPN
  BY <1>3, <1>4, SpacesAssumption DEF SysInv, Waiting, Receiving
<1>6. /\ MP!Next /\ mem' = r.mem /\ last'.op = "send"
      /\ ~Mem!Astray /\ ~Mem!Astray' /\ MP!Good(mem)
  <2>1. MP!Finish("map", r) /\ ~Mem!Astray /\ ~Mem!Astray' /\ last'.op = "send"
    BY <1>3, Finishes DEF Going
  <2>2. MP!Map(curenv, srcva, e, dstva[e], TRUE)
    BY <1>2, <1>4, <2>1 DEF MP!Map
  <2> QED BY <1>3, <1>4, <1>5, <2>1, <2>2 DEF MP!Next, Done, SysInv
<1>7. /\ MP!SameDirs(mem, mem') /\ MP!ViewBut(mem, mem', e, dstva[e])
      /\ r.ret = "ok" => /\ MP!PageLookup(mem, curenv, srcva) /= Nil
                         /\ MP!PageLookup(mem', e, dstva[e]) = MP!PageLookup(mem, curenv, srcva)
  <2>1. PICK dv : dv = dstva[e]
    OBVIOUS
  <2>2. MP!Good(mem) /\ dv \in UserVPN /\ TRUE \in BOOLEAN
    BY <1>5, <1>6, <2>1
  <2>3. curenv \in Slot \union {None}
    BY <1>4
  <2>4. e \in Slot /\ mem.word[MP!DirLoc(e)] /= Nil /\ e /= None
    BY <1>4
  <2>5. r = MP!MemMap(mem, curenv, srcva, e, dv, TRUE)
    BY <1>2, <2>1
  <2>6. /\ MP!SameDirs(mem, r.mem) /\ MP!ViewBut(mem, r.mem, e, dv)
        /\ r.ret = "ok" => /\ MP!PageLookup(mem, curenv, srcva) /= Nil
                           /\ MP!PageLookup(r.mem, e, dv) = MP!PageLookup(mem, curenv, srcva)
    <3>1. PICK q, t : q = curenv /\ t = TRUE
      OBVIOUS
    <3>2. LET x == MP!MemMap(mem, q, srcva, e, dv, t)
          IN  /\ MP!SameDirs(mem, x.mem)
              /\ IF e = None THEN MP!SameView(mem, x.mem) ELSE MP!ViewBut(mem, x.mem, e, dv)
              /\ x.ret = "ok" => /\ MP!PageLookup(mem, q, srcva) /= Nil
                                 /\ MP!PageLookup(x.mem, e, dv) = MP!PageLookup(mem, q, srcva)
      <4>1. MP!Good(mem) /\ q \in Slot \union {None} /\ dv \in UserVPN /\ t \in BOOLEAN
        BY <2>2, <2>3, <3>1
      <4> QED BY ONLY <4>1, <2>4, Constants, MP!MemMapChanges, srcva \in UserVPN
    <3> QED BY <2>4, <2>5, <3>1, <3>2
  <2> QED BY <1>6, <2>1, <2>6
<1>8. Isolated
  BY <1>3, <1>4, <1>5, <1>6, <1>7, OwnPageIsolated
<1>9. CASE r.ret = "ok"
  <2>1. /\ [Next]_vars /\ IndInv' /\ UNCHANGED <<freeList, nextId, curenv, pos, mode>>
        /\ envs'[e].recving = 0 /\ \A s \in Slot : s /= e => envs'[s] = envs[s]
    BY <1>1, <1>3, <1>9, Delivers
  <2>2. Gets
    <3> SUFFICES ASSUME NEW s \in Slot, Receiving(s), envs'[s].status = ENV_RUNNABLE
                 PROVE  \E v \in UserVPN :
                            /\ Sees(mem, curenv, v) /= Nil
                            /\ Sees(mem', s, dstva[s]) = Sees(mem, curenv, v)
      BY DEF Gets
    <3>1. s = e
      BY <2>1 DEF Receiving, ENV_RUNNABLE, ENV_NOT_RUNNABLE
    <3>2. Sees(mem, curenv, srcva) /= Nil /\ Sees(mem', e, dstva[e]) = Sees(mem, curenv, srcva)
      BY <1>7, <1>9, SameLookup DEF Sees
    <3> QED BY <3>1, <3>2
  <2>3. SysInv'
    BY <1>3, <1>6, <1>7, <2>1, AgreeKept, MemoryStep DEF SysInv, Waiting
  <2> QED BY <1>6, <1>8, <2>1, <2>2, <2>3 DEF Moves, Usual
<1>10. CASE r.ret /= "ok"
  <2>1. UNCHANGED vars /\ UNCHANGED <<vars, dstva>> /\ User
    BY <1>3, <1>10 DEF User
  <2> QED BY <1>6, <1>7, <1>8, <2>1, MemoryCallMoves
<1> QED BY <1>9, <1>10

\* Nothing happens.
LEMMA StutterMoves == ASSUME SysInv, UNCHANGED sysVars PROVE Moves
<1>1. UNCHANGED vars /\ UNCHANGED <<mem, dstva, last>>
  BY DEF sysVars
<1>2. UNCHANGED MP!vars /\ (~Mem!Astray' => MP!Good(mem')) /\ Isolated /\ Gets
  BY <1>1, NoMemory
<1>3. IndInv'
  BY <1>1, StutterSound DEF SysInv
<1>4. SysInv'
  BY <1>1, <1>2, <1>3 DEF SysInv, Agree, Going, Mem!Astray, Waiting, FreeSlots, vars
<1> QED BY <1>1, <1>2, <1>4 DEF Moves

\* Every step of the system.
LEMMA EveryStep == ASSUME SysInv, [SysNext]_sysVars PROVE Moves
<1>1. CASE Switch
  BY <1>1, SwitchMoves
<1>2. CASE CreateCall
  BY <1>2, CreateMoves
<1>3. ASSUME NEW n \in 0..STACK, ForkCall(n) PROVE Moves
  BY <1>3, ForkMoves
<1>4. ASSUME NEW id \in KnownId, DestroyCall(id) \/ DestroyAstrayCall(id) PROVE Moves
  BY <1>4, DestroyMoves, DestroyAstrayMoves
<1>11. ASSUME NEW id \in KnownId, NEW status \in SetStatus, SetStatusCall(id, status)
       PROVE  Moves
  BY <1>11, SetStatusMoves
<1>5. ASSUME NEW id \in KnownId, NEW v \in UserVPN, AllocCall(id, v) \/ UnmapCall(id, v)
      PROVE  Moves
  BY <1>5, AllocMoves, UnmapMoves
<1>6. ASSUME NEW id \in KnownId, NEW value \in Value, SendCall(id, value) PROVE Moves
  BY <1>6, SendMoves
<1>7. ASSUME NEW id \in KnownId, NEW value \in Value, NEW v \in UserVPN,
             SendPageCall(id, value, v)
      PROVE  Moves
  BY <1>7, SendPageMoves
<1>8. ASSUME NEW sid \in KnownId, NEW did \in KnownId, NEW sv \in UserVPN, NEW dv \in UserVPN,
             MapCall(sid, sv, did, dv)
      PROVE  Moves
  BY <1>8, MapMoves
<1>9. ASSUME NEW v \in RecvVPN, RecvCall(v) PROVE Moves
  BY <1>9, RecvMoves
<1>10. CASE UNCHANGED sysVars
  BY <1>10, StutterMoves
<1> QED BY <1>1, <1>2, <1>3, <1>4, <1>5, <1>6, <1>7, <1>8, <1>9, <1>10, <1>11 DEF SysNext

\* main begins with nobody, and a memory that page_init has just set up.
LEMMA SysInitSound == SysInit => SysInv
<1> SUFFICES ASSUME SysInit PROVE SysInv
  OBVIOUS
<1>1. IndInv /\ envs = [s \in Slot |-> FreeEnv] /\ nextId = 0
  BY InitSound DEF SysInit, Init
<1>2. MP!Good(mem)
  BY Constants, MP!GoodInit, SameInit DEF SysInit
<1>3. Waiting
  BY <1>1 DEF Waiting, FreeEnv
<1>4. Agree
  <2>1. \A s \in Slot : s \in FreeSlots
    <3> SUFFICES ASSUME NEW s \in Slot PROVE s \in FreeSlots
      OBVIOUS
    <3>1. s + 1 \in 1..NENV /\ (s + 1) - 1 = s /\ freeList = [i \in 1..NENV |-> i - 1]
      BY NenvAssumption DEF Slot, SysInit, Init
    <3>2. s + 1 \in DOMAIN freeList /\ freeList[s + 1] = s
      BY <3>1
    <3> QED BY <3>2 DEF FreeSlots
  <2>2. ASSUME NEW s \in Slot PROVE mem.word[Mem!DirLoc(s)] = Nil
    <3>1. mem.word = MP!BootWord
      BY SameInit DEF SysInit, MP!PageInit
    <3>2. MP!DirLoc(s) \in MP!Loc /\ MP!DirLoc(s)[1] = "dir"
      BY DEF MP!Loc, MP!DirLocs, MP!DirLoc
    <3>3. MP!DirLoc(s) \notin MP!IdLocs
      BY <3>2 DEF MP!IdLocs, MP!IdLoc
    <3>4. MP!DirLoc(s) \notin MP!BootTables
      BY <3>2 DEF MP!BootTables
    <3>5. MP!BootWord[MP!DirLoc(s)] = Nil
      BY <3>2, <3>3, <3>4 DEF MP!BootWord
    <3> QED BY <3>1, <3>5, SameEntries
  <2> QED BY <2>1, <2>2 DEF Agree
<1>5. 0 <= MaxEnv
  BY BoundAssumption
<1>6. dstva \in [Slot -> UserVPN \union {0}] /\ last.op = "boot"
  BY DEF SysInit
<1> QED BY <1>1, <1>2, <1>3, <1>4, <1>5, <1>6 DEF SysInv

-----------------------------------------------------------------------------
(* The theorems.                                                           *)

\* Whatever programs call, the invariants of the table and of memory hold, and so does what
\* ties them together.
THEOREM SystemInvariant == SysSpec => []SysInv
<1>1. SysInv /\ [SysNext]_sysVars => SysInv'
  BY EveryStep DEF Moves
<1> QED BY <1>1, SysInitSound, PTL DEF SysSpec

\* Every step of the system is a step of Env or none: the outcomes Env leaves open (env_alloc
\* without memory, a page that cannot be sent) are the only ones memory adds to the calls on
\* environments, so that what is proved of Env holds in the composition.
THEOREM TableUnderneath == SysSpec => Spec
<1>1. SysInv /\ [SysNext]_sysVars => [Next]_vars
  BY EveryStep DEF Moves
<1>2. SysInit => Init
  BY DEF SysInit
<1> QED BY <1>1, <1>2, SystemInvariant, PTL DEF SysSpec, Spec

\* A slot has a page directory exactly when env_alloc has given it away, after any sequence of
\* calls, failed ones included: env_free and env_alloc keep env_free_list and env_pgdir in step.
THEOREM SpacesMatch == SysSpec => []SpacesMatchTable
<1>1. SysInv => SpacesMatchTable
  BY DEF SysInv, Agree, SpacesMatchTable
<1> QED BY <1>1, SystemInvariant, PTL

\* What a step does to memory.
LEMMA MemoryMoves ==
    ASSUME SysInv, [SysNext]_sysVars
    PROVE  \/ /\ ~Mem!Astray /\ ~Mem!Astray' /\ ~MP!Astray /\ ~MP!Astray'
              /\ MP!Good(mem) /\ MP!Next /\ Mem!Next
           \/ Stray
           \/ UNCHANGED Mem!vars
<1>1. UNCHANGED MP!vars <=> UNCHANGED Mem!vars
  BY DEF MP!vars, Mem!vars
<1>2. Usual \/ Stray \/ UNCHANGED MP!vars
  BY EveryStep DEF Moves
<1>3. ~Mem!Astray => MP!Good(mem)
  BY DEF SysInv
<1> QED BY <1>1, <1>2, <1>3, SameNext, SameAstray DEF Usual

\* Every step of the system is a call of Memory on a live space, or no call: whatever ids
\* programs pass, envid2env keeps sys_mem_alloc, sys_mem_map, sys_mem_unmap, sys_env_destroy
\* and sys_ipc_can_send from a space that does not exist.
THEOREM MemoryIsImplemented == SysSpec => ImplementsMemory
<1>1. SysInv /\ [SysNext]_sysVars => [Mem!Next]_(Mem!vars)
  BY MemoryMoves DEF Stray
<1>2. SysInit => Mem!Init
  BY DEF SysInit, Mem!Init
<1> QED BY <1>1, <1>2, SystemInvariant, PTL DEF SysSpec, ImplementsMemory, Mem!Spec

\* What Memory remembers of its past.
LEMMA Remembers == SysSpec => []MP!History
<1>1. SysInit => MP!History
  BY DEF SysInit, MP!History
<1>4. \A op, r : Done(op, r) => last'.op = op
  BY DEF Done
<1>2. [SysNext]_sysVars => UNCHANGED last \/ last'.op /= "boot"
  BY <1>4 DEF SysNext, sysVars, Switch, CreateCall, ForkCall, DestroyCall, DestroyAstrayCall,
              SetStatusCall, AllocCall, MapCall, UnmapCall, RecvCall, SendCall, SendPageCall
<1>3. MP!History /\ [SysNext]_sysVars => MP!History'
  BY <1>2 DEF MP!History
<1> QED BY <1>1, <1>3, PTL DEF SysSpec

\* page_alloc never hands out a frame that any space maps, with the calls programs make, until
\* an env_free goes astray.
THEOREM FramesStayFree ==
    ASSUME MP!PagesAboveRAM
    PROVE  SysSpec => []FreeFramesSound
<1>1. ASSUME SysInv PROVE MP!FreeListSound
  BY <1>1, Constants, MP!GoodFrees, SameAstray DEF SysInv, MP!GoodMem
<1>2. MP!FreeListSound => FreeFramesSound
  BY SameLoc
  DEF FreeFramesSound, MP!FreeListSound, Mem!FreeListSound, MP!FreeSet, Mem!FreeSet,
      MP!Orderly, Mem!Orderly, MP!Astray, Mem!Astray,
      MP!Ptrs, Mem!Ptrs, MP!CountedLoc, Mem!CountedLoc, MP!IdLocs, Mem!IdLocs, MP!IdLoc,
      Mem!IdLoc
<1> QED BY <1>1, <1>2, SystemInvariant, PTL

\* sys_env_destroy, with the directory and tables of the environment it names, changes no mapping
\* of another environment, as long as page_remove finds nothing behind a block entry.
THEOREM DestroyKeepsOthers ==
    ASSUME MP!PagesAboveRAM
    PROVE  SysSpec => DestroyIsLocal
<1>1. ASSUME SysInv, MP!History, [SysNext]_sysVars
      PROVE  [(IF last.op = "send" THEN [last EXCEPT !.op = "map"] ELSE last)'.op = "destroy" =>
                \A b \in Slot, v \in UserVPN :
                    mem'.word[Mem!DirLoc(b)] /= Nil =>
                        Mem!PageLookup(mem', b, v) = Mem!PageLookup(mem, b, v)]_(Mem!vars)
  <2> SUFFICES ASSUME ~UNCHANGED Mem!vars,
                      (IF last.op = "send" THEN [last EXCEPT !.op = "map"] ELSE last)'.op = "destroy",
                      NEW b \in Slot, NEW v \in UserVPN, mem'.word[Mem!DirLoc(b)] /= Nil
               PROVE  Mem!PageLookup(mem', b, v) = Mem!PageLookup(mem, b, v)
    OBVIOUS
  <2>1. ~Stray
    BY DEF Stray
  <2>2. MP!Good(mem) /\ MP!Next
    BY <1>1, <2>1, MemoryMoves
  <2>3. mem'.word[MP!DirLoc(b)] /= Nil
    BY SameEntries
  <2>4. MP!PageLookup(mem', b, v) = MP!PageLookup(mem, b, v)
    BY <1>1, <2>2, <2>3, Constants, MP!DestroyStep
  <2> QED BY <2>4, SameLookup
<1> QED BY <1>1, SystemInvariant, Remembers, PTL DEF SysSpec, DestroyIsLocal, Mem!DestroyIsLocal

\* MP and Mem instantiate AddressSpaces in the same way: they see the same spaces.
LEMMA SameSpaces ==
    /\ MP!Live = Mem!Live /\ MP!View(mem) = Mem!View(mem)
    /\ (MP!Live)' = (Mem!Live)' /\ MP!View(mem)' = Mem!View(mem)'
    /\ {v \in UserVPN : MP!PudOf(v) \in MP!SharedPuds}
         = {v \in UserVPN : Mem!PudOf(v) \in Mem!SharedPuds}
<1>1. MP!Live = Mem!Live /\ (MP!Live)' = (Mem!Live)'
  BY SameEntries DEF MP!Live, Mem!Live
<1>2. MP!View(mem) = Mem!View(mem) /\ MP!View(mem)' = Mem!View(mem)'
  BY SameLookup DEF MP!View, Mem!View
<1>3. {v \in UserVPN : MP!PudOf(v) \in MP!SharedPuds}
        = {v \in UserVPN : Mem!PudOf(v) \in Mem!SharedPuds}
  BY SameEntries DEF MP!SharedPuds, Mem!SharedPuds
<1> QED BY <1>1, <1>2, <1>3

\* The effect of a fork on the views V and, after it, W, for frames F and shared pages S.
CopiesShown(c, e, V, W, F, S) ==
    LET Own == UserVPN \ S
        Copied == {v \in Own : W[e, v] /= Nil}
        Seen == {V[p] : p \in Slot \X UserVPN}
    IN  /\ W = [p \in Slot \X UserVPN |-> IF p[1] = e /\ p[2] \in Own THEN W[p] ELSE V[p]]
        /\ \A v \in Copied : W[e, v] \in F /\ V[c, v] /= Nil
        /\ mem'.wrapped \/ \A v \in Copied :
                        /\ W[e, v] \notin Seen
                        /\ \A w \in Copied : W[e, w] = W[e, v] => w = v

\* And the same steps of theirs.
LEMMA SameSpacesStep ==
    /\ MP!Spaces!Init <=> Mem!Spaces!Init
    /\ [MP!Spaces!Next]_(MP!Spaces!vars) <=> [Mem!Spaces!Next]_(Mem!Spaces!vars)
<1>1. \A a, v, f : MP!Spaces!Show(a, v, f) <=> Mem!Spaces!Show(a, v, f)
  BY SameSpaces DEF MP!Spaces!Show, Mem!Spaces!Show
<1>2. \A a, v : MP!Spaces!ShowFresh(a, v) <=> Mem!Spaces!ShowFresh(a, v)
  BY <1>1, SameSpaces, SameLoc
  DEF MP!Spaces!ShowFresh, Mem!Spaces!ShowFresh, MP!Spaces!Shown, Mem!Spaces!Shown
<1>3. \A a : MP!Spaces!New(a) <=> Mem!Spaces!New(a)
  BY SameSpaces DEF MP!Spaces!New, Mem!Spaces!New
<1>4. \A a : MP!Spaces!Create(a) <=> Mem!Spaces!Create(a)
  BY <1>2, <1>3 DEF MP!Spaces!Create, Mem!Spaces!Create
<1>5. \A op : MP!Spaces!Succeeds(op) <=> Mem!Spaces!Succeeds(op)
  BY DEF MP!Spaces!Succeeds, Mem!Spaces!Succeeds
<1>15. \A c, a : MP!Spaces!ShowCopies(c, a) <=> Mem!Spaces!ShowCopies(c, a)
  <2>1. \A c, a : MP!Spaces!ShowCopies(c, a) <=>
            CopiesShown(c, a, MP!View(mem), MP!View(mem)', MP!Frame,
                        {v \in UserVPN : MP!PudOf(v) \in MP!SharedPuds})
    BY DEF MP!Spaces!ShowCopies, MP!Spaces!Shown, CopiesShown
  <2>2. \A c, a : Mem!Spaces!ShowCopies(c, a) <=>
            CopiesShown(c, a, Mem!View(mem), Mem!View(mem)', Mem!Frame,
                        {v \in UserVPN : Mem!PudOf(v) \in Mem!SharedPuds})
    BY DEF Mem!Spaces!ShowCopies, Mem!Spaces!Shown, CopiesShown
  <2> QED BY <2>1, <2>2, SameSpaces, SameLoc
<1>6. \A c, a : MP!Spaces!Fork(c, a) <=> Mem!Spaces!Fork(c, a)
  BY <1>3, <1>15, SameSpaces DEF MP!Spaces!Fork, Mem!Spaces!Fork
<1>7. \A a, v : MP!Spaces!Alloc(a, v) <=> Mem!Spaces!Alloc(a, v)
  BY <1>2, <1>5, SameSpaces DEF MP!Spaces!Alloc, Mem!Spaces!Alloc
<1>8. \A s, sv, d, dv : MP!Spaces!Map(s, sv, d, dv) <=> Mem!Spaces!Map(s, sv, d, dv)
  BY <1>1, <1>5, SameSpaces DEF MP!Spaces!Map, Mem!Spaces!Map
<1>9. \A a, v : MP!Spaces!Unmap(a, v) <=> Mem!Spaces!Unmap(a, v)
  BY <1>1, <1>5, SameSpaces DEF MP!Spaces!Unmap, Mem!Spaces!Unmap
<1>10. \A a : MP!Spaces!Destroy(a) <=> Mem!Spaces!Destroy(a)
  BY <1>5, SameSpaces DEF MP!Spaces!Destroy, Mem!Spaces!Destroy
<1>11. MP!Spaces!Fail <=> Mem!Spaces!Fail
  BY SameSpaces DEF MP!Spaces!Fail, Mem!Spaces!Fail
<1>16. MP!Spaces!Stray <=> Mem!Spaces!Stray
  BY DEF MP!Spaces!Stray, Mem!Spaces!Stray
<1>12. MP!Spaces!Next <=> Mem!Spaces!Next
  BY <1>16, <1>4, <1>6, <1>7, <1>8, <1>9, <1>10, <1>11 DEF MP!Spaces!Next, Mem!Spaces!Next
<1>13. MP!Spaces!Init <=> Mem!Spaces!Init
  BY SameSpaces DEF MP!Spaces!Init, Mem!Spaces!Init
<1>14. UNCHANGED MP!Spaces!vars <=> UNCHANGED Mem!Spaces!vars
  BY SameSpaces DEF MP!Spaces!vars, Mem!Spaces!vars
<1> QED BY <1>12, <1>13, <1>14

\* Whatever ids programs pass and however slots are reused, environments see the frames that
\* the calls, and the pages sent with messages, said they would.
THEOREM SystemSpaces ==
    ASSUME MP!PagesAboveRAM
    PROVE  SysSpec => SpacesImplemented
<1>1. ASSUME SysInv, MP!History, [SysNext]_sysVars
      PROVE  [Mem!Spaces!Next]_(Mem!Spaces!vars)
  <2>1. CASE MP!Good(mem) /\ ~MP!Astray /\ MP!Next
    <3>1. MP!Spaces!Next
      BY <1>1, <2>1, Constants, MP!SpacesNext
    <3> QED BY <3>1, SameSpacesStep
  <2>2. CASE Stray
    BY <2>2 DEF Stray, Mem!Astray, Mem!Spaces!Next, Mem!Spaces!Stray
  <2>3. CASE UNCHANGED Mem!vars
    BY <2>3 DEF Mem!vars, Mem!Spaces!vars, Mem!Live, Mem!View
  <2> QED BY <1>1, <2>1, <2>2, <2>3, MemoryMoves
<1>2. SysInit => Mem!Spaces!Init
  <2>1. SysInit => MP!Init
    BY SameInit DEF SysInit, MP!Init
  <2> QED BY <2>1, SameSpacesStep, Constants, MP!SpacesStart
<1> QED BY <1>1, <1>2, SystemInvariant, Remembers, PTL
        DEF SysSpec, SpacesImplemented, Mem!ImplementsSpaces, Mem!Spaces!Spec

\* Isolation: until an env_free goes astray, what an environment sees at a page of its own is
\* changed only by itself, by its parent, or by a sender while the environment is blocked with
\* its receiving flag set, and then at the one address last given to sys_ipc_recv in its slot.
THEOREM SpacesAreIsolated == SysSpec => SpaceIsolated
<1>1. SysInv /\ [SysNext]_sysVars =>
        [\A s \in Slot, v \in UserVPN :
            ~Mem!Astray' /\ Mem!Space(s, v) = s /\ Sees(mem', s, v) /= Sees(mem, s, v) =>
                \/ s \in FreeSlots
                \/ s = curenv \/ envs[s].parent = envs[curenv].id
                \/ Receiving(s) /\ v = dstva[s] /\ last'.op = "send"]_sysVars
  BY EveryStep DEF Moves, Isolated
<1> QED BY <1>1, SystemInvariant, PTL DEF SysSpec, SpaceIsolated

\* A receiver that wakes with a page finds a frame of the sender at the address it waited with:
\* sys_ipc_can_send maps first, and wakes nobody when page_insert fails.
THEOREM ReceiversGetPages == SysSpec => ReceiverGetsPage
<1>1. SysInv /\ [SysNext]_sysVars =>
        [\A s \in Slot :
            Receiving(s) /\ envs'[s].status = ENV_RUNNABLE /\ mem' /= mem =>
                \E v \in UserVPN :
                    /\ Sees(mem, curenv, v) /= Nil
                    /\ Sees(mem', s, dstva[s]) = Sees(mem, curenv, v)]_sysVars
  BY EveryStep DEF Moves, Gets
<1> QED BY <1>1, SystemInvariant, PTL DEF SysSpec, ReceiverGetsPage
=============================================================================
