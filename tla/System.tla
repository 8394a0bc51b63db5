------------------------------- MODULE System -------------------------------
(***************************************************************************)
(* The kernel as user programs see it: the environments of Env with the    *)
(* address spaces of Memory.  Every system call names environments by id,  *)
(* so that which space it acts on is decided by envid2env, and outcomes    *)
(* that Env chooses are computed here.  A page can be sent with a message. *)
(*                                                                         *)
(* A slot is its own address space: env_pgdir is a field of struct Env.    *)
(***************************************************************************)
EXTENDS Env

CONSTANTS Kernel, NPAGE, FirstFree, FirstDevice, PTES, PMDS, UserVPN, STACK, RefMod,
          PageWord, Nil, Boot, \* see PMap and Memory
          RecvVPN              \* pages passed to sys_ipc_recv

VARIABLES
    mem,    \* see PMap
    dstva,  \* env_ipc_dstva of every slot, a virtual page
    last    \* the last call that used memory, and its result
sysVars == <<vars, mem, dstva, last>>

\* To Memory, a message with a page is a mapping made in the receiver's space.
Mem == INSTANCE Memory WITH
    Envs <- Slot,
    BadEnv <- None,
    phase <- IF last.op = "boot" THEN "boot" ELSE "user",
    last <- IF last.op = "send" THEN [last EXCEPT !.op = "map"] ELSE last

\* The kernel is no environment; the constants of memory are those of PMap and Memory.
ASSUME SpacesAssumption ==
    /\ Kernel \notin Slot
    /\ Nil \notin Mem!Frame /\ Boot \notin Mem!Frame /\ Nil /= Boot
    /\ NPAGE \in Nat /\ FirstFree \in 1..NPAGE /\ FirstDevice \in FirstFree..NPAGE
    /\ PTES \in Nat \ {0} /\ PMDS \in Nat \ {0} /\ NPAGE <= PTES * PMDS
    /\ FirstDevice % PTES = 0 /\ PTES <= PMDS
    /\ \A v \in UserVPN : /\ v < FirstDevice \/ v >= (PMDS + 1) * PTES
                          /\ Mem!PudOf(v) < PMDS
    /\ PageWord \subseteq Mem!Frame \union {Nil, NPAGE}
    /\ RefMod \in Nat /\ RefMod > 3
    /\ IsFiniteSet(UserVPN) /\ UserVPN \subseteq Nat /\ RecvVPN \subseteq UserVPN
    /\ STACK \in UserVPN /\ Mem!PudOf(STACK) >= Mem!FreePud

SysInit ==
    /\ Init
    /\ mem = Mem!PageInit /\ last = [op |-> "boot", ret |-> "ok"]
    /\ dstva = [s \in Slot |-> 0]

\* The kernel has not stopped, and no env_free has gone astray: see Memory.
Going == ~mem.panic /\ ~Mem!Astray

\* A user program runs.
User == mode = "user" /\ Going

Done(op, r) == mem' = r.mem /\ last' = [op |-> op, ret |-> r.ret]

-----------------------------------------------------------------------------
\* Calls that do not touch memory.
Switch == Going /\ (HandleIrq \/ SysYield) /\ UNCHANGED <<mem, dstva, last>>

SetStatusCall(id, status) ==
    /\ Going /\ SysSetEnvStatus(id, status)
    /\ UNCHANGED <<mem, dstva, last>>

CreateCall ==
    /\ Going /\ EnvCreate /\ Len(mem.free) >= 4
    /\ mem' = Mem!CreateEnv(mem, Head(freeList))
    /\ UNCHANGED <<dstva, last>>

\* The parent's stack of n pages is copied.  A fault of the kernel leaves the table as
\* it was.
ForkCall(n) ==
    LET r == Mem!ForkEnv(mem, Head(freeList), n)
    IN  /\ User /\ freeList /= <<>> /\ Mem!Forkable(mem, curenv, n)
        /\ SysEnvAlloc(IF r.mem.panic THEN "panic" ELSE r.ret)
        /\ Done("fork", r)
        /\ UNCHANGED dstva

DestroyCall(id) ==
    LET a == Envid2Env(id, TRUE)
        T == Mem!FreedTables(mem, a)
    IN  /\ User /\ SysEnvDestroy(id) /\ Mem!StaysOnTrack(mem, a)
        /\ \E s \in Mem!ReleaseOrders(mem, T) :
            Done("destroy", [mem |-> Mem!EnvFree(mem, a, T, s), ret |-> "ok"])
        /\ UNCHANGED dstva

\* The same when env_free follows a block entry to a word that is not zero.
DestroyAstrayCall(id) ==
    LET a == Envid2Env(id, TRUE)
    IN  /\ User /\ SysEnvDestroy(id)
        /\ \E found \in Mem!StrayFinds(mem, a) :
            Done("stray", [mem |-> Mem!EnvFreeLoop(mem, a, found), ret |-> "ok"])
        /\ UNCHANGED dstva

AllocCall(id, v) ==
    /\ User /\ Done("alloc", Mem!MemAlloc(mem, Envid2Env(id, TRUE), v, TRUE))
    /\ UNCHANGED <<vars, dstva>>

MapCall(sid, sv, did, dv) ==
    /\ User
    /\ Done("map", Mem!MemMap(mem, Envid2Env(sid, TRUE), sv, Envid2Env(did, TRUE), dv, TRUE))
    /\ UNCHANGED <<vars, dstva>>

UnmapCall(id, v) ==
    /\ User /\ Done("unmap", Mem!MemUnmap(mem, Envid2Env(id, TRUE), v))
    /\ UNCHANGED <<vars, dstva>>

\* sys_ipc_recv; va is the page of its argument.
RecvCall(va) ==
    /\ Going /\ SysIpcRecv
    /\ dstva' = [dstva EXCEPT ![curenv] = va]
    /\ UNCHANGED <<mem, last>>

\* sys_ipc_can_send with srcva zero: no page.
SendCall(id, value) ==
    /\ Going /\ SysIpcCanSend(id, value)
    /\ UNCHANGED <<mem, dstva, last>>

\* Mutant: the receiver is woken even when page_insert failed.
SendPageCallIgnoresFailure(id, value, srcva) ==
    LET e == Envid2Env(id, FALSE)
        r == Mem!MemMap(mem, curenv, srcva, e, dstva[e], TRUE)
    IN  /\ User /\ e /= None /\ Receiving(e)
        /\ SysIpcCanSend(id, value)
        /\ Done("send", r)
        /\ UNCHANGED dstva

\* sys_ipc_can_send with a page: the mapping is made before the message is delivered,
\* and a failure leaves the receiver waiting.  page_insert adds PTE_V to any perm.
SendPageCall(id, value, srcva) ==
    LET e == Envid2Env(id, FALSE)
        r == Mem!MemMap(mem, curenv, srcva, e, dstva[e], TRUE)
    IN  /\ User /\ e /= None /\ Receiving(e)
        /\ IF r.ret = "ok" THEN SysIpcCanSend(id, value) ELSE UNCHANGED vars
        /\ Done("send", r)
        /\ UNCHANGED dstva

\* The id of the present or last owner of each slot: zero names the caller, as its own
\* id does, and any other id is refused like that of an environment that has ended.
KnownId == {envs[s].id : s \in Slot}

SysNext ==
    \/ Switch
    \/ CreateCall
    \/ \E n \in 0..STACK : ForkCall(n)
    \/ \E id \in KnownId :
        \/ DestroyCall(id) \/ DestroyAstrayCall(id)
        \/ \E status \in SetStatus : SetStatusCall(id, status)
        \/ \E v \in UserVPN : AllocCall(id, v) \/ UnmapCall(id, v)
        \/ \E value \in Value : SendCall(id, value)
        \/ \E value \in Value, v \in UserVPN : SendPageCall(id, value, v)
    \/ \E sid, did \in KnownId, sv, dv \in UserVPN : MapCall(sid, sv, did, dv)
    \/ \E v \in RecvVPN : RecvCall(v)

SysSpec == SysInit /\ [][SysNext]_sysVars

-----------------------------------------------------------------------------
Sees(m, s, v) == Mem!PageLookup(m, s, v)

\* The environment table and the page tables agree: a slot has a page directory exactly
\* when env_alloc has given it away.
SpacesMatchTable ==
    mode /= "panic" /\ Going =>
        \A s \in Slot : s \in FreeSlots <=> mem.word[Mem!DirLoc(s)] = Nil

\* Whatever ids programs pass, envid2env only ever hands the memory calls a live
\* address space, and the outcomes Env leaves open are the ones memory produces.
ImplementsMemory == Mem!Spec

\* page_alloc never hands out a frame in use, also with pages below a directory entry
\* that all environments share.
FreeFramesSound == Mem!FreeListSound

\* sys_env_destroy changes no mapping of another environment: the shared tables that
\* env_free walks past stay.
DestroyIsLocal == Mem!DestroyIsLocal

\* The address spaces as programs know them, a page sent with a message being mapped in
\* the receiver's space: see AddressSpaces.
SpacesImplemented == Mem!ImplementsSpaces

\* Nobody changes what another environment sees at a page of its own, as long as no
\* env_free goes astray, but its parent, and a sender: to a blocked environment whose
\* receiving flag is set, at the address last passed to sys_ipc_recv by an owner of the
\* slot.  That is the address the receiver waits with, unless the environment is the
\* child of a failed fork and inherited both from the previous owner.
SpaceIsolated ==
    [][\A s \in Slot, v \in UserVPN :
        ~Mem!Astray' /\ Mem!Space(s, v) = s /\ Sees(mem', s, v) /= Sees(mem, s, v) =>
            \/ s \in FreeSlots
            \/ s = curenv \/ envs[s].parent = envs[curenv].id
            \/ Receiving(s) /\ v = dstva[s] /\ last'.op = "send"]_sysVars

\* A receiver that wakes from sys_ipc_recv with a page finds one of the sender's frames
\* at the address it waited with: a send whose page_insert fails does not wake it.
ReceiverGetsPage ==
    [][\A s \in Slot :
        Receiving(s) /\ envs'[s].status = ENV_RUNNABLE /\ mem' /= mem =>
            \E v \in UserVPN :
                /\ Sees(mem, curenv, v) /= Nil
                /\ Sees(mem', s, dstva[s]) = Sees(mem, curenv, v)]_sysVars
=============================================================================
