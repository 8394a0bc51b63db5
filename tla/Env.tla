-------------------------------- MODULE Env ---------------------------------
(***************************************************************************)
(* The environment table, the round-robin scheduler and the kernel side of *)
(* IPC: lib/env.c, lib/sched.c and the calls of lib/syscall_all.c that act *)
(* on environments.  One processor; a system call or a timer interrupt is  *)
(* handled with interrupts masked, so each is one step, and between two    *)
(* steps user code runs.                                                   *)
(*                                                                         *)
(* What memory does is seen here only as an outcome ("ok", "no_mem",       *)
(* "panic") of the call that needs it; Memory.tla says when each occurs.   *)
(* env_sched_list, env_pri, env_runs and remaining_time are written and    *)
(* never read by the scheduler, and are left out.                          *)
(***************************************************************************)
EXTENDS Integers, Sequences, FiniteSets

CONSTANTS
    NENV,       \* slots of envs, 2^LOG2NENV
    MaxEnv,     \* bound: ids handed out
    BootEnvs,   \* bound: environments main creates before the first interrupt
    Value,      \* values sent by IPC
    SetStatus   \* statuses user code passes to sys_set_env_status

ENV_FREE == 0
ENV_RUNNABLE == 1
ENV_NOT_RUNNABLE == 2
Status == {ENV_FREE, ENV_RUNNABLE, ENV_NOT_RUNNABLE}

ASSUME NenvAssumption == NENV \in Nat \ {0}
ASSUME BoundAssumption == MaxEnv \in Nat /\ BootEnvs \in 1..NENV
ASSUME ArgumentAssumption == Value \subseteq Nat /\ 0 \in Value /\ SetStatus \subseteq Status

Slot == 0..(NENV - 1)
None == -1  \* a null pointer where a slot is expected

VARIABLES
    envs,      \* the array, with the fields that matter here
    freeList,  \* env_free_list, head first
    nextId,    \* next_env_id of mkenvid
    curenv,    \* slot of the running environment, or None
    pos,       \* the static variable of sched_yield
    mode       \* "boot": main; "user"; "spin": sched_yield finds nobody; "panic"
vars == <<envs, freeList, nextId, curenv, pos, mode>>

\* mkenvid: the generation above LOG2NENV + 1 bits, the slot in the low bits.
MkEnvId(n, s) == n * (2 * NENV) + s
ENVX(id) == id % NENV

EnvRecord == [status : Status, id : Nat, parent : Nat,
              recving : {0, 1}, value : Value, from : Nat]

\* envs is allocated cleared; env_init fills the free list, slot 0 first.
FreeEnv == [status |-> ENV_FREE, id |-> 0, parent |-> 0, recving |-> 0, value |-> 0, from |-> 0]

Init ==
    /\ envs = [s \in Slot |-> FreeEnv]
    /\ freeList = [i \in 1..NENV |-> i - 1]
    /\ nextId = 0 /\ curenv = None /\ pos = -1 /\ mode = "boot"

-----------------------------------------------------------------------------
\* Mutants: the status is not looked at; the permission check is left out.
Envid2EnvFreed(id, checkperm) ==
    LET e == ENVX(id)
    IN  IF id = 0 THEN curenv
        ELSE IF envs[e].id /= id THEN None
        ELSE IF checkperm /\ e /= curenv /\ envs[e].parent /= envs[curenv].id THEN None
        ELSE e
Envid2EnvAnyone(id, checkperm) ==
    LET e == ENVX(id)
    IN  IF id = 0 THEN curenv
        ELSE IF envs[e].status = ENV_FREE \/ envs[e].id /= id THEN None
        ELSE e

\* envid2env: the slot an id names, or None.  Zero names the caller, unchecked.
Envid2Env(id, checkperm) ==
    LET e == ENVX(id)
    IN  IF id = 0 THEN curenv
        ELSE IF envs[e].status = ENV_FREE \/ envs[e].id /= id THEN None
        ELSE IF checkperm /\ e /= curenv /\ envs[e].parent /= envs[curenv].id THEN None
        ELSE e

\* Mutant: mkenvid does not advance next_env_id.
EnvAllocSameId(parent, status) ==
    LET e == Head(freeList)
    IN  /\ nextId' = nextId
        /\ freeList' = Tail(freeList)
        /\ envs' = [envs EXCEPT ![e] = [@ EXCEPT
                !.status = status, !.id = MkEnvId(nextId, e), !.parent = parent]]

\* env_alloc, with the status the caller goes on to give the environment.  The
\* other fields keep what the previous owner of the slot left in them.
EnvAlloc(parent, status) ==
    LET e == Head(freeList)
    IN  /\ nextId' = nextId + 1
        /\ freeList' = Tail(freeList)
        /\ envs' = [envs EXCEPT ![e] = [@ EXCEPT
                !.status = status, !.id = MkEnvId(nextId + 1, e), !.parent = parent]]

Runnable(es, s) == es[s].status = ENV_RUNNABLE

\* The frame of curenv is saved only by env_run: while the search goes on, cur stays.
Spin(es, cur) ==
    /\ \A s \in Slot : ~Runnable(es, s)
    /\ curenv' = cur /\ mode' = "spin" /\ UNCHANGED pos

RunNext(s) == curenv' = s /\ pos' = s /\ mode' = "user"

\* Mutants: the search does not wrap around; it always starts at slot zero.
SchedYieldNoWrap(es, cur) ==
    \/ \E k \in 1..NENV :
        /\ Runnable(es, (pos + k) % NENV)
        /\ \A j \in 1..(k - 1) : ~Runnable(es, (pos + j) % NENV)
        /\ RunNext(pos + k)
    \/ Spin(es, cur)
SchedYieldFromZero(es, cur) ==
    \/ \E s \in Slot : Runnable(es, s) /\ (\A t \in 0..(s - 1) : ~Runnable(es, t)) /\ RunNext(s)
    \/ Spin(es, cur)

\* sched_yield: the first runnable slot after pos, in cyclic order; with nobody
\* runnable it searches for ever, interrupts masked.
SchedYield(es, cur) ==
    \/ \E k \in 1..NENV :
        /\ Runnable(es, (pos + k) % NENV)
        /\ \A j \in 1..(k - 1) : ~Runnable(es, (pos + j) % NENV)
        /\ RunNext((pos + k) % NENV)
    \/ Spin(es, cur)

-----------------------------------------------------------------------------
\* main: env_create_priority, parent 0.  It panics on an empty list: main creates
\* far fewer environments than there are slots.
EnvCreate ==
    /\ mode = "boot" /\ nextId < BootEnvs /\ nextId < MaxEnv /\ freeList /= <<>>
    /\ EnvAlloc(0, ENV_RUNNABLE)
    /\ UNCHANGED <<curenv, pos, mode>>

\* The timer interrupt; main has created an environment before it can arrive.
HandleIrq ==
    /\ mode = "user" \/ (mode = "boot" /\ nextId > 0)
    /\ SchedYield(envs, curenv)
    /\ UNCHANGED <<envs, freeList, nextId>>

SysYield ==
    /\ mode = "user"
    /\ SchedYield(envs, curenv)
    /\ UNCHANGED <<envs, freeList, nextId>>

\* sys_env_alloc.  "no_mem" is the failure of page_alloc for the stack: the
\* environment stays allocated.  env_setup_vm panics before anything is written.
SysEnvAlloc(outcome) ==
    /\ mode = "user" /\ freeList /= <<>> /\ nextId < MaxEnv
    /\ \/ /\ outcome = "panic" /\ mode' = "panic"
          /\ UNCHANGED <<envs, freeList, nextId>>
       \/ /\ outcome = "ok" /\ EnvAlloc(envs[curenv].id, ENV_RUNNABLE) /\ UNCHANGED mode
       \/ /\ outcome = "no_mem" /\ EnvAlloc(envs[curenv].id, ENV_NOT_RUNNABLE) /\ UNCHANGED mode
    /\ UNCHANGED <<curenv, pos>>

\* Mutants: curenv still names the destroyed environment when sched_yield is entered;
\* env_free does not queue the slot.
SysEnvDestroyKeepsCurenv(id) ==
    LET e == Envid2Env(id, TRUE)
        es == [envs EXCEPT ![e].status = ENV_FREE]
    IN  /\ mode = "user" /\ e /= None
        /\ envs' = es
        /\ freeList' = <<e>> \o freeList
        /\ IF e = curenv THEN SchedYield(es, curenv) ELSE UNCHANGED <<curenv, pos, mode>>
        /\ UNCHANGED nextId
SysEnvDestroyNotQueued(id) ==
    LET e == Envid2Env(id, TRUE)
        es == [envs EXCEPT ![e].status = ENV_FREE]
    IN  /\ mode = "user" /\ e /= None
        /\ envs' = es
        /\ IF e = curenv THEN SchedYield(es, None) ELSE UNCHANGED <<curenv, pos, mode>>
        /\ UNCHANGED <<freeList, nextId>>

\* sys_env_destroy and env_destroy; env_free puts the slot at the head of the list.
SysEnvDestroy(id) ==
    LET e == Envid2Env(id, TRUE)
        es == [envs EXCEPT ![e].status = ENV_FREE]
    IN  /\ mode = "user" /\ e /= None
        /\ envs' = es
        /\ freeList' = <<e>> \o freeList
        /\ IF e = curenv THEN SchedYield(es, None) ELSE UNCHANGED <<curenv, pos, mode>>
        /\ UNCHANGED nextId

\* sys_set_env_status: any environment may be named, and ENV_FREE does not return
\* the slot to env_free_list.
SysSetEnvStatus(id, status) ==
    LET e == Envid2Env(id, FALSE)
    IN  /\ mode = "user" /\ e /= None
        /\ envs' = [envs EXCEPT ![e].status = status]
        /\ UNCHANGED <<freeList, nextId, curenv, pos, mode>>

\* Mutant: the receiver stays runnable.
SysIpcRecvRunnable ==
    LET es == [envs EXCEPT ![curenv].recving = 1]
    IN  /\ mode = "user"
        /\ envs' = es
        /\ SchedYield(es, curenv)
        /\ UNCHANGED <<freeList, nextId>>

SysIpcRecv ==
    LET es == [envs EXCEPT ![curenv] = [@ EXCEPT !.status = ENV_NOT_RUNNABLE, !.recving = 1]]
    IN  /\ mode = "user"
        /\ envs' = es
        /\ SchedYield(es, curenv)
        /\ UNCHANGED <<freeList, nextId>>

ReceivingAlways(e) == TRUE  \* Mutant: the test is left out
\* The test of sys_ipc_can_send; otherwise it returns -E_IPC_NOT_RECV.
Receiving(e) == envs[e].status = ENV_NOT_RUNNABLE /\ envs[e].recving /= 0

\* Mutants: the receiving flag is not cleared; the receiver is not made runnable.
SysIpcCanSendKeepsFlag(id, value) ==
    LET e == Envid2Env(id, FALSE)
    IN  /\ mode = "user" /\ e /= None /\ Receiving(e)
        /\ envs' = [envs EXCEPT ![e] = [@ EXCEPT
                !.value = value, !.from = envs[curenv].id, !.status = ENV_RUNNABLE]]
        /\ UNCHANGED <<freeList, nextId, curenv, pos, mode>>
SysIpcCanSendNoWake(id, value) ==
    LET e == Envid2Env(id, FALSE)
    IN  /\ mode = "user" /\ e /= None /\ Receiving(e)
        /\ envs' = [envs EXCEPT ![e] = [@ EXCEPT
                !.value = value, !.from = envs[curenv].id, !.recving = 0]]
        /\ UNCHANGED <<freeList, nextId, curenv, pos, mode>>

\* sys_ipc_can_send when it succeeds; its failures change nothing here.
SysIpcCanSend(id, value) ==
    LET e == Envid2Env(id, FALSE)
    IN  /\ mode = "user" /\ e /= None /\ Receiving(e)
        /\ envs' = [envs EXCEPT ![e] = [@ EXCEPT
                !.value = value, !.from = envs[curenv].id,
                !.recving = 0, !.status = ENV_RUNNABLE]]
        /\ UNCHANGED <<freeList, nextId, curenv, pos, mode>>

-----------------------------------------------------------------------------
\* Ids user code can name: zero, those of the past, and one of the future.
Id == {0} \union {MkEnvId(n, s) : n \in 1..(MaxEnv + 1), s \in Slot}
NamedId == {id \in Id : id < MkEnvId(nextId + 2, 0)}

Next ==
    \/ EnvCreate
    \/ HandleIrq
    \/ SysYield
    \/ \E outcome \in {"ok", "no_mem", "panic"} : SysEnvAlloc(outcome)
    \/ \E id \in NamedId : SysEnvDestroy(id)
    \/ \E id \in NamedId, status \in SetStatus : SysSetEnvStatus(id, status)
    \/ SysIpcRecv
    \/ \E id \in NamedId, value \in Value : SysIpcCanSend(id, value)

Spec == Init /\ [][Next]_vars
FairSpec == Spec /\ WF_vars(HandleIrq)

-----------------------------------------------------------------------------
FreeSlots == {freeList[i] : i \in DOMAIN freeList}

\* The table, the free list and the scheduler's variables have their types.
EnvTypeOK ==
    /\ envs \in [Slot -> EnvRecord]
    /\ freeList \in Seq(Slot)
    /\ nextId \in Nat
    /\ curenv \in Slot \union {None} /\ pos \in -1..(NENV - 1)
    /\ mode \in {"boot", "user", "spin", "panic"}

\* env_free_list holds a slot once, only free ones, and never the slot of the running
\* environment: env_alloc never gives a slot away that somebody still owns.
FreeListSound ==
    /\ \A i, j \in DOMAIN freeList : freeList[i] = freeList[j] => i = j
    /\ \A s \in FreeSlots : envs[s].status = ENV_FREE
    /\ curenv \notin FreeSlots
    /\ mode = "user" => curenv /= None

\* Every free slot can be allocated again.  This holds as long as no program passes
\* ENV_FREE to sys_set_env_status, which frees the slot without queueing it.
NoSlotLost == \A s \in Slot : envs[s].status = ENV_FREE => s \in FreeSlots

\* mkenvid gives an environment an id that leads back to its slot, that no other slot
\* carries, and that is larger than its parent's.
IdsSound ==
    \A s \in Slot \ FreeSlots :
        /\ \E n \in 1..nextId : envs[s].id = MkEnvId(n, s)
        /\ envs[s].parent < envs[s].id
        /\ \A t \in Slot : envs[t].id = envs[s].id => t = s

\* Whoever sys_ipc_can_send takes for a receiver, blocked and with env_ipc_recving set, a
\* forked child with the flag of an earlier owner too, stops being one only by its end or
\* by a sender, which leaves its id, clears the flag and lets the receiver run.  This
\* holds as long as no program passes ENV_RUNNABLE to sys_set_env_status.  The value is
\* followed in Ipc.tla.
ReceiverWakesWithMessage ==
    [][\A s \in Slot : Receiving(s) /\ ~Receiving(s)' =>
        \/ envs'[s].status = ENV_FREE
        \/ /\ envs'[s].recving = 0 /\ envs'[s].status = ENV_RUNNABLE
           /\ envs'[s].from = envs[curenv].id]_vars

\* A runnable environment gets the processor, whatever the others call meanwhile.
RunnableRuns ==
    \A s \in Slot : envs[s].status = ENV_RUNNABLE ~>
        curenv = s \/ envs[s].status /= ENV_RUNNABLE \/ mode = "panic"

\* How many slots sched_yield looks at before s when it searches from p.
Ahead(p, s) == (s - p - 1) % NENV

\* Each time the scheduler is entered, every runnable environment gets the processor or
\* comes nearer to its turn, whoever yields, blocks or dies: it waits for fewer than NENV
\* turns of others.
BoundedWait ==
    [][HandleIrq \/ SysYield \/ pos' /= pos =>
        \A s \in Slot : envs'[s].status = ENV_RUNNABLE =>
            curenv' = s \/ Ahead(pos', s) < Ahead(pos, s)]_vars

\* The abstract table: the slots not on the free list are the environments that exist,
\* those with status ENV_FREE the ones whose ids are refused.
Table == INSTANCE EnvTable WITH
    Capacity <- NENV,
    alive <- {[id |-> envs[s].id, parent |-> envs[s].parent] : s \in Slot \ FreeSlots},
    refused <- {envs[s].id : s \in {t \in Slot \ FreeSlots : envs[t].status = ENV_FREE}},
    limit <- MkEnvId(nextId + 1, 0),
    running <- IF curenv = None THEN 0 ELSE envs[curenv].id
ImplementsTable == Table!TableSpec
=============================================================================
