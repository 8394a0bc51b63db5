------------------------------ MODULE EnvProofs -----------------------------
(***************************************************************************)
(* Safety of the environment table for every number of slots and every     *)
(* bound: the free list is sound, ids name one environment for ever, and   *)
(* nobody who can run is passed over.  And Env implements EnvTable: every  *)
(* step of the kernel is a birth, a death, a switch or nothing at all to   *)
(* the one who sees ids only.                                              *)
(***************************************************************************)
EXTENDS Env, ListFacts, FiniteSetTheorems

\* Every id handed out is below Limit.
Limit == MkEnvId(nextId + 1, 0)

\* The id in a slot, used or free, is zero or was made for that slot; parents are ids
\* handed out earlier.
IdsIssued ==
    \A s \in Slot :
        /\ envs[s].id = 0 \/ \E n \in 1..nextId : envs[s].id = MkEnvId(n, s)
        /\ s \notin FreeSlots =>
            /\ \E n \in 1..nextId : envs[s].id = MkEnvId(n, s)
            /\ envs[s].parent < envs[s].id

IndInv == EnvTypeOK /\ FreeListSound /\ IdsIssued

USE NenvAssumption

-----------------------------------------------------------------------------
\* mkenvid keeps the slot in the low bits: envid2env finds it again with ENVX.
LEMMA IdLeadsToSlot ==
    ASSUME NEW n \in Nat, NEW s \in Slot
    PROVE  ENVX(MkEnvId(n, s)) = s
<1>1. (2 * n) * NENV + s = MkEnvId(n, s)
  BY DEF MkEnvId, Slot
<1>2. ((2 * n) * NENV + s) % NENV = s
  BY DEF Slot
<1> QED BY <1>1, <1>2 DEF ENVX

\* A later generation has a larger id, whatever the slots.
LEMMA IdsGrow ==
    ASSUME NEW m \in Nat, NEW n \in Nat, m < n, NEW s \in Slot, NEW t \in Slot
    PROVE  MkEnvId(m, s) < MkEnvId(n, t)
<1> DEFINE w == 2 * NENV
<1>1. w \in Nat /\ s < w /\ t >= 0 /\ s \in Nat /\ t \in Nat
  BY DEF Slot
<1>2. (m + 1) * w <= n * w
  BY <1>1
<1>3. (m + 1) * w = m * w + w
  BY <1>1
<1> QED BY <1>1, <1>2, <1>3 DEF MkEnvId

\* Ids are never zero, the number that names the caller.
LEMMA IdIsPositive ==
    ASSUME NEW n \in Nat \ {0}, NEW s \in Slot
    PROVE  MkEnvId(n, s) \in Nat /\ MkEnvId(n, s) > 0
<1>1. 0 \in Slot /\ MkEnvId(0, 0) = 0 /\ MkEnvId(n, s) \in Nat
  BY DEF Slot, MkEnvId
<1> QED BY <1>1, IdsGrow

\* sched_yield picks a runnable slot or leaves curenv as it was.
LEMMA YieldPicksRunnable ==
    ASSUME NEW es, NEW cur, pos \in -1..(NENV - 1), SchedYield(es, cur)
    PROVE  \/ /\ curenv' \in Slot /\ Runnable(es, curenv')
              /\ pos' = curenv' /\ mode' = "user"
           \/ curenv' = cur /\ pos' = pos /\ mode' = "spin"
<1>1. CASE Spin(es, cur)
  BY <1>1 DEF Spin
<1>2. ASSUME NEW k \in 1..NENV, Runnable(es, (pos + k) % NENV), RunNext((pos + k) % NENV)
      PROVE  curenv' \in Slot /\ Runnable(es, curenv') /\ pos' = curenv' /\ mode' = "user"
  <2>1. (pos + k) % NENV \in Slot
    BY DEF Slot
  <2> QED BY <1>2, <2>1 DEF RunNext
<1> QED BY <1>1, <1>2 DEF SchedYield

\* The environment an id names exists, and is not on the free list.
LEMMA FoundIsUsed ==
    ASSUME IndInv, mode = "user", NEW id \in Nat, NEW checkperm \in BOOLEAN,
           Envid2Env(id, checkperm) /= None
    PROVE  Envid2Env(id, checkperm) \in Slot \ FreeSlots
<1>1. curenv \in Slot \ FreeSlots
  BY DEF IndInv, EnvTypeOK, FreeListSound, None
<1>2. ENVX(id) \in Slot
  BY DEF ENVX, Slot
<1>3. envs[ENVX(id)].status /= ENV_FREE => ENVX(id) \in Slot \ FreeSlots
  BY <1>2 DEF IndInv, FreeListSound
<1> QED BY <1>1, <1>2, <1>3 DEF Envid2Env

-----------------------------------------------------------------------------
(* The parts of the invariant that each kind of change to the table keeps. *)

\* The free list part of IndInv in the words of ListFacts.
LEMMA FreeListIsOnce == FreeListSound => Once(freeList)
BY DEF FreeListSound, Once

\* env_alloc: the slot at the head leaves the list, with a new id.
LEMMA AllocEffect ==
    ASSUME IndInv, freeList /= <<>>, NEW parent \in Nat,
           NEW status \in Status, EnvAlloc(parent, status),
           NEW e, e = Head(freeList)
    PROVE  /\ e \in Slot /\ e \in FreeSlots /\ FreeSlots' = FreeSlots \ {e}
           /\ freeList' \in Seq(Slot) /\ Once(freeList')
           /\ envs' \in [Slot -> EnvRecord] /\ \A s \in Slot : s /= e => envs'[s] = envs[s]
           /\ envs'[e].id = MkEnvId(nextId + 1, e) /\ envs'[e].parent = parent
           /\ nextId \in Nat /\ nextId' = nextId + 1
           /\ MkEnvId(nextId + 1, e) \in Nat /\ MkEnvId(nextId + 1, e) > 0
           /\ Limit \in Nat /\ MkEnvId(nextId + 1, e) >= Limit
<1> DEFINE new == MkEnvId(nextId + 1, e)
<1>1. /\ e \in Slot /\ e \in FreeSlots /\ freeList' \in Seq(Slot) /\ Once(freeList')
      /\ FreeSlots' = FreeSlots \ {e}
  <2>1. freeList \in Seq(Slot) /\ Once(freeList)
    BY FreeListIsOnce DEF IndInv, EnvTypeOK
  <2>2. freeList' = Tail(freeList)
    BY DEF EnvAlloc
  <2>3. FreeSlots = Elements(freeList) /\ FreeSlots' = Elements(freeList')
    BY DEF FreeSlots, Elements
  <2> QED BY <2>1, <2>2, <2>3, TakeHead
<1>2. nextId \in Nat /\ nextId' = nextId + 1 /\ new \in Nat /\ new > 0
      /\ Limit \in Nat /\ new >= Limit
  <2>1. 0 \in Slot /\ nextId \in Nat /\ nextId + 1 \in Nat \ {0}
    BY DEF Slot, IndInv, EnvTypeOK
  <2>2. new >= Limit
    BY <1>1, <2>1 DEF MkEnvId, Limit, Slot
  <2>3. new \in Nat /\ new > 0
    BY <1>1, <2>1, IdIsPositive
  <2>4. Limit \in Nat
    BY <2>1, IdIsPositive DEF Limit
  <2>5. nextId' = nextId + 1
    BY DEF EnvAlloc
  <2> QED BY <2>1, <2>2, <2>3, <2>4, <2>5
<1> DEFINE r == [envs[e] EXCEPT !.status = status, !.id = new, !.parent = parent]
<1>3. envs' = [envs EXCEPT ![e] = r]
  BY DEF EnvAlloc
<1> HIDE DEF new
<1>4. envs \in [Slot -> EnvRecord] /\ envs[e] \in EnvRecord
  BY <1>1 DEF IndInv, EnvTypeOK
<1>5. r \in EnvRecord /\ r.id = new /\ r.parent = parent
  BY <1>2, <1>4 DEF EnvRecord
<1> HIDE DEF r
<1>6. envs' \in [Slot -> EnvRecord] /\ envs'[e] = r /\ \A s \in Slot : s /= e => envs'[s] = envs[s]
  BY <1>1, <1>3, <1>4, <1>5
<1> QED BY <1>1, <1>2, <1>5, <1>6 DEF new

\* An allocation keeps the invariant.
LEMMA AllocKeeps ==
    ASSUME IndInv, freeList /= <<>>, NEW parent \in Nat, parent < Limit,
           NEW status \in Status, EnvAlloc(parent, status),
           curenv' = curenv, pos' = pos, mode' = mode
    PROVE  IndInv'
<1>1. PICK e : e = Head(freeList)
  OBVIOUS
<1> DEFINE new == MkEnvId(nextId + 1, e)
<1>2. /\ e \in Slot /\ e \in FreeSlots /\ FreeSlots' = FreeSlots \ {e}
      /\ freeList' \in Seq(Slot) /\ Once(freeList')
      /\ envs' \in [Slot -> EnvRecord] /\ \A s \in Slot : s /= e => envs'[s] = envs[s]
      /\ envs'[e].id = new /\ envs'[e].parent = parent
      /\ nextId \in Nat /\ nextId' = nextId + 1
      /\ new \in Nat /\ new > 0 /\ Limit \in Nat /\ new >= Limit
  BY <1>1, AllocEffect
<1> HIDE DEF new
<1>3. parent < new
  BY <1>2
<1>4. EnvTypeOK'
  BY <1>2 DEF IndInv, EnvTypeOK
<1>5. FreeListSound'
  <2>1. \A i, j \in DOMAIN freeList' : freeList'[i] = freeList'[j] => i = j
    BY <1>2 DEF Once
  <2>2. \A s \in FreeSlots' : envs'[s].status = ENV_FREE
    <3>1. \A s \in FreeSlots : s \in Slot
      BY DEF FreeSlots, IndInv, EnvTypeOK
    <3> QED BY <1>2, <3>1 DEF IndInv, FreeListSound
  <2> QED BY <1>2, <2>1, <2>2 DEF IndInv, FreeListSound
<1>6. IdsIssued'
  <2> SUFFICES ASSUME NEW s \in Slot
               PROVE  /\ envs'[s].id = 0 \/ \E n \in 1..nextId' : envs'[s].id = MkEnvId(n, s)
                      /\ s \notin FreeSlots' =>
                          /\ \E n \in 1..nextId' : envs'[s].id = MkEnvId(n, s)
                          /\ envs'[s].parent < envs'[s].id
    BY DEF IdsIssued, MkEnvId
  <2>1. CASE s = e
    <3>1. nextId + 1 \in 1..nextId' /\ new = MkEnvId(nextId + 1, s)
      BY <1>2, <2>1 DEF new
    <3> QED BY <1>2, <1>3, <2>1, <3>1
  <2>2. CASE s /= e
    <3>1. 1..nextId \subseteq 1..nextId'
      BY <1>2
    <3>2. s \notin FreeSlots' => s \notin FreeSlots
      BY <1>2, <2>2
    <3> QED BY <1>2, <2>2, <3>1, <3>2 DEF IndInv, IdsIssued
  <2> QED BY <2>1, <2>2
<1> QED BY <1>4, <1>5, <1>6 DEF IndInv

\* Status and message fields of used slots change, nothing else in the table does.
LEMMA FieldsKeep ==
    ASSUME IndInv, freeList' = freeList, nextId' = nextId,
           envs' \in [Slot -> EnvRecord],
           \A s \in Slot : envs'[s].id = envs[s].id /\ envs'[s].parent = envs[s].parent,
           \A s \in FreeSlots : envs'[s].status = envs[s].status,
           curenv' \in Slot \union {None}, curenv' \notin FreeSlots,
           pos' \in -1..(NENV - 1), mode' \in {"boot", "user", "spin", "panic"},
           mode' = "user" => curenv' /= None
    PROVE  IndInv'
<1>1. FreeSlots' = FreeSlots
  BY DEF FreeSlots
<1>2. EnvTypeOK'
  BY DEF IndInv, EnvTypeOK
<1>3. FreeListSound'
  BY <1>1 DEF IndInv, FreeListSound
<1>4. IdsIssued'
  BY <1>1 DEF IndInv, IdsIssued, MkEnvId
<1> QED BY <1>2, <1>3, <1>4 DEF IndInv

\* env_free: the slot of an environment that exists goes to the head of the list.
LEMMA FreeEffect ==
    ASSUME IndInv, NEW e \in Slot \ FreeSlots,
           envs' = [envs EXCEPT ![e].status = ENV_FREE], freeList' = <<e>> \o freeList
    PROVE  /\ freeList' \in Seq(Slot) /\ Once(freeList') /\ FreeSlots' = FreeSlots \union {e}
           /\ envs' \in [Slot -> EnvRecord] /\ envs'[e].status = ENV_FREE
           /\ \A s \in Slot : s /= e => envs'[s] = envs[s]
           /\ \A s \in Slot : envs'[s].id = envs[s].id /\ envs'[s].parent = envs[s].parent
<1>1. freeList' \in Seq(Slot) /\ Once(freeList') /\ FreeSlots' = FreeSlots \union {e}
  <2>1. freeList \in Seq(Slot) /\ Once(freeList)
    BY FreeListIsOnce DEF IndInv, EnvTypeOK
  <2>2. FreeSlots = Elements(freeList) /\ FreeSlots' = Elements(freeList')
    BY DEF FreeSlots, Elements
  <2> QED BY <2>1, <2>2, PushHead
<1>2. envs \in [Slot -> EnvRecord] /\ envs[e] \in EnvRecord
  BY DEF IndInv, EnvTypeOK
<1> DEFINE r == [envs[e] EXCEPT !.status = ENV_FREE]
<1>3. r \in EnvRecord /\ r.status = ENV_FREE /\ r.id = envs[e].id /\ r.parent = envs[e].parent
  BY <1>2 DEF EnvRecord, Status
<1> HIDE DEF r
<1>4. /\ envs' \in [Slot -> EnvRecord] /\ envs'[e] = r
      /\ \A s \in Slot : s /= e => envs'[s] = envs[s]
  BY <1>2, <1>3 DEF r
<1> QED BY <1>1, <1>3, <1>4

\* A destruction keeps the invariant, if the processor is left alone or given to
\* another environment that exists.
LEMMA FreeKeeps ==
    ASSUME IndInv, NEW e \in Slot \ FreeSlots, nextId' = nextId,
           envs' = [envs EXCEPT ![e].status = ENV_FREE], freeList' = <<e>> \o freeList,
           curenv' \in Slot \union {None}, curenv' \notin FreeSlots \union {e},
           pos' \in -1..(NENV - 1), mode' \in {"boot", "user", "spin", "panic"},
           mode' = "user" => curenv' /= None
    PROVE  IndInv'
<1>1. /\ freeList' \in Seq(Slot) /\ Once(freeList') /\ FreeSlots' = FreeSlots \union {e}
      /\ envs' \in [Slot -> EnvRecord] /\ envs'[e].status = ENV_FREE
      /\ \A s \in Slot : s /= e => envs'[s] = envs[s]
      /\ \A s \in Slot : envs'[s].id = envs[s].id /\ envs'[s].parent = envs[s].parent
  BY FreeEffect
<1>2. EnvTypeOK'
  BY <1>1 DEF IndInv, EnvTypeOK
<1>3. FreeListSound'
  <2>1. \A i, j \in DOMAIN freeList' : freeList'[i] = freeList'[j] => i = j
    BY <1>1 DEF Once
  <2>2. \A s \in FreeSlots' : envs'[s].status = ENV_FREE
    <3>1. \A s \in FreeSlots : s \in Slot
      BY DEF FreeSlots, IndInv, EnvTypeOK
    <3> QED BY <1>1, <3>1 DEF IndInv, FreeListSound
  <2> QED BY <1>1, <2>1, <2>2 DEF FreeListSound
<1>4. IdsIssued'
  BY <1>1 DEF IndInv, IdsIssued, MkEnvId
<1> QED BY <1>2, <1>3, <1>4 DEF IndInv

\* A slot that sched_yield may pick is not on the free list, even when some used slot's
\* fields have just changed.
LEMMA PickedIsUsed ==
    ASSUME IndInv, NEW es, \A s \in FreeSlots : es[s].status = envs[s].status,
           NEW cur \in Slot \union {None}, cur \notin FreeSlots, SchedYield(es, cur)
    PROVE  /\ curenv' \in Slot \union {None} /\ curenv' \notin FreeSlots
           /\ pos' \in -1..(NENV - 1) /\ mode' \in {"user", "spin"}
           /\ mode' = "user" => Runnable(es, curenv') /\ curenv' \in Slot
           /\ mode' = "spin" => curenv' = cur
<1>1. pos \in -1..(NENV - 1)
  BY DEF IndInv, EnvTypeOK
<1>2. \A s \in FreeSlots : ~Runnable(es, s)
  BY DEF IndInv, FreeListSound, Runnable, ENV_FREE, ENV_RUNNABLE
<1>3. \A s \in Slot : s \in -1..(NENV - 1)
  BY DEF Slot
<1> QED BY <1>1, <1>2, <1>3, YieldPicksRunnable

\* The status and message fields of one used slot change; sched_yield may follow.
LEMMA UpdateKeeps ==
    ASSUME IndInv, NEW e \in Slot \ FreeSlots, freeList' = freeList, nextId' = nextId,
           NEW r \in EnvRecord, r.id = envs[e].id, r.parent = envs[e].parent,
           envs' = [envs EXCEPT ![e] = r],
           curenv' \in Slot \union {None}, curenv' \notin FreeSlots,
           pos' \in -1..(NENV - 1), mode' \in {"boot", "user", "spin", "panic"},
           mode' = "user" => curenv' /= None
    PROVE  IndInv'
<1>1. envs \in [Slot -> EnvRecord]
  BY DEF IndInv, EnvTypeOK
<1>2. FreeSlots \subseteq Slot
  BY DEF FreeSlots, IndInv, EnvTypeOK
<1>3. /\ envs' \in [Slot -> EnvRecord]
      /\ envs'[e] = r /\ \A s \in Slot : s /= e => envs'[s] = envs[s]
  BY <1>1
<1>4. \A s \in Slot : envs'[s].id = envs[s].id /\ envs'[s].parent = envs[s].parent
  BY <1>3
<1>5. \A s \in FreeSlots : envs'[s].status = envs[s].status
  BY <1>2, <1>3
<1> QED BY <1>3, <1>4, <1>5, FieldsKeep

-----------------------------------------------------------------------------
(* One lemma for each group of actions. *)

\* While user code runs, curenv is a used slot.
LEMMA CallerIsUsed ==
    ASSUME IndInv, mode = "user"
    PROVE  curenv \in Slot \ FreeSlots
BY DEF IndInv, EnvTypeOK, FreeListSound, None

\* The ids that user code names are numbers.
LEMMA NamesAreNumbers == ASSUME NEW id \in NamedId PROVE id \in Nat
<1>1. id = 0 \/ \E n \in 1..(MaxEnv + 1), s \in Slot : id = MkEnvId(n, s)
  BY DEF NamedId, Id
<1>2. \A n \in 1..(MaxEnv + 1) : n \in Nat \ {0}
  BY BoundAssumption
<1> QED BY <1>1, <1>2, IdIsPositive

\* env_init queues every slot once, and all are free.
LEMMA InitSound == Init => IndInv
<1> SUFFICES ASSUME Init PROVE IndInv
  OBVIOUS
<1>1. FreeEnv \in EnvRecord /\ FreeEnv.id = 0 /\ FreeEnv.status = ENV_FREE
  BY ArgumentAssumption DEF FreeEnv, EnvRecord, Status
<1>2. freeList \in Seq(Slot) /\ DOMAIN freeList = 1..NENV /\ \A i \in 1..NENV : freeList[i] = i - 1
  <2>1. \A i \in 1..NENV : i - 1 \in Slot
    BY DEF Slot
  <2>2. freeList = [i \in 1..NENV |-> i - 1] /\ NENV \in Nat
    BY DEF Init
  <2> QED BY <2>1, <2>2
<1>3. envs \in [Slot -> EnvRecord] /\ \A s \in Slot : envs[s] = FreeEnv
  BY <1>1 DEF Init
<1>4. FreeSlots = Slot
  <2>1. \A s \in Slot : s + 1 \in 1..NENV /\ freeList[s + 1] = s
    BY <1>2 DEF Slot
  <2>2. Slot \subseteq FreeSlots
    <3> SUFFICES ASSUME NEW s \in Slot PROVE s \in FreeSlots
      OBVIOUS
    <3> QED BY <1>2, <2>1 DEF FreeSlots
  <2>3. FreeSlots \subseteq Slot
    BY <1>2 DEF FreeSlots
  <2> QED BY <2>2, <2>3
<1>5. EnvTypeOK
  BY <1>2, <1>3 DEF Init, EnvTypeOK, None
<1>6. FreeListSound
  <2>1. \A i, j \in DOMAIN freeList : freeList[i] = freeList[j] => i = j
    BY <1>2
  <2> QED BY <1>1, <1>3, <1>4, <2>1 DEF FreeListSound, Init, None, Slot
<1>7. IdsIssued
  BY <1>1, <1>3, <1>4 DEF IdsIssued
<1> QED BY <1>5, <1>6, <1>7 DEF IndInv

\* env_create_priority, parent 0.
LEMMA CreateSound == IndInv /\ EnvCreate => IndInv'
<1> SUFFICES ASSUME IndInv, EnvCreate PROVE IndInv'
  OBVIOUS
<1>1. 0 < Limit /\ 0 \in Nat /\ ENV_RUNNABLE \in Status
  <2>1. nextId + 1 \in Nat \ {0} /\ 0 \in Slot
    BY DEF IndInv, EnvTypeOK, Slot
  <2> QED BY <2>1, IdIsPositive DEF Limit, Status
<1> QED BY <1>1, AllocKeeps DEF EnvCreate

\* A timer interrupt and sys_yield move curenv only.
LEMMA YieldSound == IndInv /\ (HandleIrq \/ SysYield) => IndInv'
<1> SUFFICES ASSUME IndInv, HandleIrq \/ SysYield PROVE IndInv'
  OBVIOUS
<1>1. SchedYield(envs, curenv) /\ UNCHANGED <<envs, freeList, nextId>>
  BY DEF HandleIrq, SysYield
<1>2. /\ envs \in [Slot -> EnvRecord] /\ curenv \in Slot \union {None}
      /\ curenv \notin FreeSlots
  BY DEF IndInv, EnvTypeOK, FreeListSound
<1>3. /\ curenv' \in Slot \union {None} /\ curenv' \notin FreeSlots
      /\ pos' \in -1..(NENV - 1) /\ mode' \in {"user", "spin"}
      /\ mode' = "user" => curenv' \in Slot
  BY <1>1, <1>2, PickedIsUsed
<1>4. mode' = "user" => curenv' /= None
  BY <1>3 DEF Slot, None
<1> QED BY <1>1, <1>2, <1>3, <1>4, FieldsKeep

\* sys_env_alloc, with each outcome memory may have.
LEMMA ForkSound ==
    ASSUME IndInv, NEW outcome, SysEnvAlloc(outcome)
    PROVE  IndInv'
<1>1. CASE UNCHANGED <<envs, freeList, nextId, curenv, pos>> /\ mode' = "panic"
  <2>1. envs' \in [Slot -> EnvRecord] /\ curenv' \in Slot \union {None}
        /\ curenv' \notin FreeSlots /\ pos' \in -1..(NENV - 1)
    BY <1>1 DEF IndInv, EnvTypeOK, FreeListSound
  <2> QED BY <1>1, <2>1, FieldsKeep
<1>2. ASSUME NEW status \in Status, EnvAlloc(envs[curenv].id, status),
             curenv' = curenv, pos' = pos, mode' = mode
      PROVE  IndInv'
  <2>1. curenv \in Slot \ FreeSlots
    BY CallerIsUsed DEF SysEnvAlloc
  <2>2. PICK n \in 1..nextId : envs[curenv].id = MkEnvId(n, curenv)
    BY <2>1 DEF IndInv, IdsIssued
  <2>3. n \in Nat \ {0} /\ nextId + 1 \in Nat /\ n < nextId + 1 /\ 0 \in Slot
    BY <2>2 DEF IndInv, EnvTypeOK, Slot
  <2>4. envs[curenv].id \in Nat /\ envs[curenv].id < Limit
    BY <2>1, <2>2, <2>3, IdIsPositive, IdsGrow DEF Limit
  <2> QED BY <1>2, <2>4, AllocKeeps DEF SysEnvAlloc
<1>3. ENV_RUNNABLE \in Status /\ ENV_NOT_RUNNABLE \in Status
  BY DEF Status
<1> QED BY <1>1, <1>2, <1>3 DEF SysEnvAlloc

\* sys_env_destroy: of another environment, and of the caller, who is gone when
\* sched_yield searches.
LEMMA DestroySound ==
    ASSUME IndInv, NEW id \in NamedId, SysEnvDestroy(id)
    PROVE  IndInv'
<1> DEFINE e == Envid2Env(id, TRUE)
           es == [envs EXCEPT ![e].status = ENV_FREE]
<1>1. e \in Slot \ FreeSlots
  BY NamesAreNumbers, FoundIsUsed DEF SysEnvDestroy
<1>2. envs' = es /\ freeList' = <<e>> \o freeList /\ nextId' = nextId /\ mode = "user"
  BY DEF SysEnvDestroy
<1>3. CASE e = curenv
  <2>1. SchedYield(es, None)
    BY <1>3 DEF SysEnvDestroy
  <2>2. envs \in [Slot -> EnvRecord] /\ FreeSlots \subseteq Slot
    BY DEF IndInv, EnvTypeOK, FreeSlots
  <2>3. /\ \A s \in FreeSlots : es[s].status = envs[s].status
        /\ es[e].status = ENV_FREE
    <3>1. es[e] = [envs[e] EXCEPT !.status = ENV_FREE] /\ \A s \in Slot : s /= e => es[s] = envs[s]
      BY <1>1, <2>2
    <3>2. [envs[e] EXCEPT !.status = ENV_FREE].status = ENV_FREE
      BY <1>1, <2>2 DEF EnvRecord
    <3> QED BY <1>1, <2>2, <3>1, <3>2
  <2>4. None \notin FreeSlots /\ None \notin Slot
    BY <2>2 DEF None, Slot
  <2> HIDE DEF es
  <2>5. /\ curenv' \in Slot \union {None} /\ curenv' \notin FreeSlots
        /\ pos' \in -1..(NENV - 1) /\ mode' \in {"user", "spin"}
        /\ mode' = "user" => Runnable(es, curenv') /\ curenv' \in Slot
        /\ mode' = "spin" => curenv' = None
    BY <2>1, <2>3, <2>4, PickedIsUsed
  <2> HIDE DEF e
  <2>6. curenv' /= e
    <3>1. CASE mode' = "user"
      <4>1. es[curenv'].status = ENV_RUNNABLE
        BY <2>5, <3>1 DEF Runnable
      <4> QED BY <2>3, <4>1 DEF ENV_FREE, ENV_RUNNABLE
    <3>2. CASE mode' = "spin"
      BY <1>1, <2>4, <2>5, <3>2
    <3> QED BY <2>5, <3>1, <3>2
  <2>7. curenv' \notin FreeSlots \union {e} /\ (mode' = "user" => curenv' /= None)
    BY <2>4, <2>5, <2>6
  <2> QED BY <1>1, <1>2, <2>5, <2>7, FreeKeeps DEF es
<1>4. CASE e /= curenv
  <2>1. UNCHANGED <<curenv, pos, mode>>
    BY <1>4 DEF SysEnvDestroy
  <2>2. /\ curenv \in Slot \union {None} /\ curenv \notin FreeSlots \union {e}
        /\ pos \in -1..(NENV - 1) /\ mode \in {"boot", "user", "spin", "panic"}
        /\ mode = "user" => curenv /= None
    BY <1>4 DEF IndInv, EnvTypeOK, FreeListSound
  <2> QED BY <1>1, <1>2, <2>1, <2>2, FreeKeeps
<1> QED BY <1>3, <1>4

\* sys_set_env_status, ENV_FREE included: the slot is not on the list, and stays off
\* it.
LEMMA SetStatusSound ==
    ASSUME IndInv, NEW id \in NamedId, NEW status \in SetStatus, SysSetEnvStatus(id, status)
    PROVE  IndInv'
<1> DEFINE e == Envid2Env(id, FALSE)
           r == [envs[e] EXCEPT !.status = status]
<1>1. e \in Slot \ FreeSlots
  BY NamesAreNumbers, FoundIsUsed DEF SysSetEnvStatus
<1>2. envs[e] \in EnvRecord /\ status \in Status
  BY <1>1, ArgumentAssumption DEF IndInv, EnvTypeOK
<1>3. envs' = [envs EXCEPT ![e] = r] /\ UNCHANGED <<freeList, nextId, curenv, pos, mode>>
  BY DEF SysSetEnvStatus
<1> HIDE DEF e
<1>4. r \in EnvRecord /\ r.id = envs[e].id /\ r.parent = envs[e].parent
  BY <1>2 DEF EnvRecord
<1> HIDE DEF r
<1>5. /\ curenv' \in Slot \union {None} /\ curenv' \notin FreeSlots
      /\ pos' \in -1..(NENV - 1) /\ mode' \in {"boot", "user", "spin", "panic"}
      /\ mode' = "user" => curenv' /= None
  BY <1>3 DEF IndInv, EnvTypeOK, FreeListSound
<1> QED BY <1>1, <1>3, <1>4, <1>5, UpdateKeeps

\* sys_ipc_recv blocks the caller and searches for another.
LEMMA RecvSound == IndInv /\ SysIpcRecv => IndInv'
<1> SUFFICES ASSUME IndInv, SysIpcRecv PROVE IndInv'
  OBVIOUS
<1> DEFINE r == [envs[curenv] EXCEPT !.status = ENV_NOT_RUNNABLE, !.recving = 1]
           es == [envs EXCEPT ![curenv] = r]
<1>1. curenv \in Slot \ FreeSlots /\ envs \in [Slot -> EnvRecord] /\ FreeSlots \subseteq Slot
  BY CallerIsUsed DEF SysIpcRecv, IndInv, EnvTypeOK, FreeSlots
<1>2. r \in EnvRecord /\ r.id = envs[curenv].id /\ r.parent = envs[curenv].parent
  <2>1. envs[curenv] \in EnvRecord /\ ENV_NOT_RUNNABLE \in Status
    BY <1>1 DEF Status
  <2> QED BY <2>1 DEF EnvRecord
<1>3. envs' = es /\ SchedYield(es, curenv) /\ UNCHANGED <<freeList, nextId>>
  BY DEF SysIpcRecv
<1> HIDE DEF r
<1>4. \A s \in FreeSlots : es[s].status = envs[s].status
  BY <1>1
<1> HIDE DEF es
<1>5. /\ curenv' \in Slot \union {None} /\ curenv' \notin FreeSlots
      /\ pos' \in -1..(NENV - 1) /\ mode' \in {"user", "spin"}
      /\ mode' = "user" => curenv' \in Slot
  BY <1>1, <1>3, <1>4, PickedIsUsed
<1>6. mode' = "user" => curenv' /= None
  BY <1>5 DEF Slot, None
<1> QED BY <1>1, <1>2, <1>3, <1>5, <1>6, UpdateKeeps DEF es

\* sys_ipc_can_send writes to an environment that exists.
LEMMA SendSound ==
    ASSUME IndInv, NEW id \in NamedId, NEW value \in Value, SysIpcCanSend(id, value)
    PROVE  IndInv'
<1> DEFINE e == Envid2Env(id, FALSE)
           r == [envs[e] EXCEPT !.value = value, !.from = envs[curenv].id,
                                !.recving = 0, !.status = ENV_RUNNABLE]
<1>1. e \in Slot \ FreeSlots /\ curenv \in Slot
  BY NamesAreNumbers, FoundIsUsed, CallerIsUsed DEF SysIpcCanSend
<1>2. envs[e] \in EnvRecord /\ ENV_RUNNABLE \in Status /\ envs[curenv].id \in Nat
  BY <1>1 DEF IndInv, EnvTypeOK, EnvRecord, Status
<1>3. envs' = [envs EXCEPT ![e] = r] /\ UNCHANGED <<freeList, nextId, curenv, pos, mode>>
  BY DEF SysIpcCanSend
<1> HIDE DEF e
<1>4. r \in EnvRecord /\ r.id = envs[e].id /\ r.parent = envs[e].parent
  BY <1>2 DEF EnvRecord
<1> HIDE DEF r
<1>5. /\ curenv' \in Slot \union {None} /\ curenv' \notin FreeSlots
      /\ pos' \in -1..(NENV - 1) /\ mode' \in {"boot", "user", "spin", "panic"}
      /\ mode' = "user" => curenv' /= None
  BY <1>3 DEF IndInv, EnvTypeOK, FreeListSound
<1> QED BY <1>1, <1>3, <1>4, <1>5, UpdateKeeps

\* The invariant is about the variables alone.
LEMMA StutterSound == IndInv /\ UNCHANGED vars => IndInv'
<1> SUFFICES ASSUME IndInv, UNCHANGED vars PROVE IndInv'
  OBVIOUS
<1>1. /\ envs' \in [Slot -> EnvRecord] /\ curenv' \in Slot \union {None}
      /\ curenv' \notin FreeSlots /\ pos' \in -1..(NENV - 1)
      /\ mode' \in {"boot", "user", "spin", "panic"}
      /\ mode' = "user" => curenv' /= None
  BY DEF vars, IndInv, EnvTypeOK, FreeListSound
<1> QED BY <1>1, FieldsKeep DEF vars

\* Two slots with one id would be one slot: both ids were made for it.
LEMMA IdsFollow == IndInv => IdsSound
<1> SUFFICES ASSUME IndInv, NEW s \in Slot \ FreeSlots
             PROVE  /\ \E n \in 1..nextId : envs[s].id = MkEnvId(n, s)
                    /\ envs[s].parent < envs[s].id
                    /\ \A t \in Slot : envs[t].id = envs[s].id => t = s
  BY DEF IdsSound
<1>1. PICK n \in 1..nextId : envs[s].id = MkEnvId(n, s)
  BY DEF IndInv, IdsIssued
<1>2. n \in Nat \ {0}
  BY <1>1 DEF IndInv, EnvTypeOK
<1>3. envs[s].parent < envs[s].id
  BY DEF IndInv, IdsIssued
<1>4. ASSUME NEW t \in Slot, envs[t].id = envs[s].id PROVE t = s
  <2>1. envs[t].id > 0
    BY <1>1, <1>2, <1>4, IdIsPositive
  <2>2. PICK m \in 1..nextId : envs[t].id = MkEnvId(m, t)
    BY <2>1 DEF IndInv, IdsIssued
  <2>3. m \in Nat
    BY <2>2 DEF IndInv, EnvTypeOK
  <2>4. ENVX(MkEnvId(n, s)) = s /\ ENVX(MkEnvId(m, t)) = t
    BY <1>2, <2>3, IdLeadsToSlot
  <2> QED BY <1>1, <1>4, <2>2, <2>4
<1> QED BY <1>1, <1>3, <1>4

-----------------------------------------------------------------------------
\* No call and no interrupt breaks the invariant.
LEMMA StepSound == IndInv /\ [Next]_vars => IndInv'
<1> SUFFICES ASSUME IndInv, [Next]_vars PROVE IndInv'
  OBVIOUS
<1>1. CASE EnvCreate
  BY <1>1, CreateSound
<1>2. CASE HandleIrq \/ SysYield
  BY <1>2, YieldSound
<1>3. CASE \E outcome \in {"ok", "no_mem", "panic"} : SysEnvAlloc(outcome)
  BY <1>3, ForkSound
<1>4. CASE \E id \in NamedId : SysEnvDestroy(id)
  BY <1>4, DestroySound
<1>5. CASE \E id \in NamedId, status \in SetStatus : SysSetEnvStatus(id, status)
  BY <1>5, SetStatusSound
<1>6. CASE SysIpcRecv
  BY <1>6, RecvSound
<1>7. CASE \E id \in NamedId, value \in Value : SysIpcCanSend(id, value)
  BY <1>7, SendSound
<1>8. CASE UNCHANGED vars
  BY <1>8, StutterSound
<1> QED BY <1>1, <1>2, <1>3, <1>4, <1>5, <1>6, <1>7, <1>8 DEF Next

\* The invariant holds in every reachable state, whatever the programs call.
THEOREM Invariant == Spec => []IndInv
<1> QED BY InitSound, StepSound, PTL DEF Spec

\* The variables of env.c and sched.c keep their types.
THEOREM TypeCorrect == Spec => []EnvTypeOK
<1>1. IndInv => EnvTypeOK
  BY DEF IndInv
<1> QED BY <1>1, Invariant, PTL

\* env_alloc never gives away a slot that an environment still has: env_free_list
\* holds no slot twice, only free ones, and never that of the running environment.
THEOREM FreeListIsSound == Spec => []FreeListSound
<1>1. IndInv => FreeListSound
  BY DEF IndInv
<1> QED BY <1>1, Invariant, PTL

\* The ids of mkenvid lead back to one slot, are never shared, and grow from parent
\* to child, for every size of the table.
THEOREM IdsAreSound == Spec => []IdsSound
BY IdsFollow, Invariant, PTL

-----------------------------------------------------------------------------
\* Remainders near zero, as the search of sched_yield meets them.
LEMMA Wraps ==
    ASSUME NEW x \in (0 - NENV)..(2 * NENV - 1)
    PROVE  /\ x < 0 => x % NENV = x + NENV
           /\ x \in 0..(NENV - 1) => x % NENV = x
           /\ x >= NENV => x % NENV = x - NENV
BY NenvAssumption

\* The search that ends at one slot has not passed another runnable one.
LEMMA SearchMovesOn ==
    ASSUME pos \in -1..(NENV - 1), NEW es, NEW cur, SchedYield(es, cur),
           NEW s \in Slot, es[s].status = ENV_RUNNABLE
    PROVE  curenv' = s \/ Ahead(pos', s) < Ahead(pos, s)
<1> DEFINE d == Ahead(pos, s)
<1>1. s \in 0..(NENV - 1) /\ NENV \in Nat /\ NENV > 0
  BY DEF Slot
<1>2. d = IF s - pos - 1 < 0 THEN s - pos - 1 + NENV ELSE s - pos - 1
  <2> DEFINE x == s - pos - 1
  <2>1. x \in (0 - NENV)..(2 * NENV - 1) /\ x \in Int /\ x < NENV
    BY <1>1
  <2>2. d = x % NENV
    BY DEF Ahead
  <2> HIDE DEF x, d
  <2>3. d = IF x < 0 THEN x + NENV ELSE x
    BY <1>1, <2>1, <2>2, Wraps
  <2> QED BY <2>3 DEF x
<1>3. d \in 0..(NENV - 1)
  BY <1>1, <1>2
<1>4. (pos + (d + 1)) % NENV = s
  <2> HIDE DEF d
  <2> DEFINE x == pos + (d + 1)
  <2>1. x \in (0 - NENV)..(2 * NENV - 1) /\ x >= 0 /\ (x = s \/ x = s + NENV)
    BY <1>1, <1>2, <1>3
  <2> HIDE DEF x
  <2>2. x % NENV = s
    BY <1>1, <2>1, Wraps
  <2> QED BY <2>2 DEF x
<1> HIDE DEF d
<1>5. PICK k \in 1..NENV : /\ \A j \in 1..(k - 1) : ~Runnable(es, (pos + j) % NENV)
                           /\ RunNext((pos + k) % NENV)
  <2>1. ~Spin(es, cur)
    BY DEF Spin, Runnable
  <2> QED BY <2>1 DEF SchedYield
<1>6. CASE d + 1 < k
  <2>1. d + 1 \in 1..(k - 1)
    BY <1>3, <1>6
  <2> QED BY <1>4, <1>5, <2>1 DEF Runnable
<1>7. CASE d + 1 = k
  BY <1>4, <1>5, <1>7 DEF RunNext
<1>8. CASE d + 1 > k
  <2>1. pos' = IF pos + k < NENV THEN pos + k ELSE pos + k - NENV
    <3> DEFINE x == pos + k
    <3>1. x \in (0 - NENV)..(2 * NENV - 1) /\ x \in Int /\ x >= 0
      BY <1>1
    <3>2. pos' = x % NENV
      BY <1>5 DEF RunNext
    <3> HIDE DEF x
    <3>3. pos' = IF x < NENV THEN x ELSE x - NENV
      BY <1>1, <3>1, <3>2, Wraps
    <3> QED BY <3>3 DEF x
  <2>2. pos' \in 0..(NENV - 1)
    BY <1>1, <2>1
  <2>3. Ahead(pos', s) = IF s - pos' - 1 < 0 THEN s - pos' - 1 + NENV ELSE s - pos' - 1
    <3>1. PICK p \in 0..(NENV - 1) : p = pos'
      BY <2>2
    <3> DEFINE x == s - p - 1
    <3>2. x \in (0 - NENV)..(2 * NENV - 1) /\ x \in Int /\ x < NENV
      BY <1>1
    <3>3. Ahead(pos', s) = x % NENV
      BY <3>1 DEF Ahead
    <3> HIDE DEF x
    <3>4. Ahead(pos', s) = IF x < 0 THEN x + NENV ELSE x
      BY <1>1, <3>2, <3>3, Wraps
    <3> QED BY <3>1, <3>4 DEF x
  <2>4. Ahead(pos', s) < d
    BY <1>1, <1>2, <1>3, <1>8, <2>1, <2>3
  <2> QED BY <2>4 DEF d
<1> QED BY <1>3, <1>6, <1>7, <1>8

\* Round robin is fair, for any number of slots: with every entry of the scheduler a
\* runnable environment runs or comes nearer to its turn (sched_yield).
THEOREM WaitIsBounded == Spec => BoundedWait
<1> DEFINE Nearer == \A s \in Slot : envs'[s].status = ENV_RUNNABLE =>
                        curenv' = s \/ Ahead(pos', s) < Ahead(pos, s)
<1>1. ASSUME IndInv, NEW cur, SchedYield(envs', cur) PROVE Nearer
  BY <1>1, SearchMovesOn DEF IndInv, EnvTypeOK
<1>2. IndInv /\ (HandleIrq \/ SysYield) => Nearer
  <2> SUFFICES ASSUME IndInv, HandleIrq \/ SysYield PROVE Nearer
    OBVIOUS
  <2>1. SchedYield(envs, curenv) /\ envs' = envs
    BY DEF HandleIrq, SysYield
  <2>2. SchedYield(envs', curenv)
    BY <2>1
  <2> QED BY <1>1, <2>2
<1>3. IndInv /\ Next /\ pos' /= pos => Nearer
  <2> SUFFICES ASSUME IndInv, Next, pos' /= pos PROVE Nearer
    OBVIOUS
  <2>1. CASE HandleIrq \/ SysYield
    BY <1>2, <2>1
  <2>2. CASE \E id \in NamedId : SysEnvDestroy(id)
    <3>1. PICK id \in NamedId : SysEnvDestroy(id)
      BY <2>2
    <3>2. SchedYield(envs', None)
      BY <3>1 DEF SysEnvDestroy
    <3> QED BY <1>1, <3>2
  <2>3. CASE SysIpcRecv
    <3>1. SchedYield(envs', curenv)
      BY <2>3 DEF SysIpcRecv
    <3> QED BY <1>1, <3>1
  <2>4. EnvCreate => pos' = pos
    BY DEF EnvCreate
  <2>5. \A outcome \in {"ok", "no_mem", "panic"} : SysEnvAlloc(outcome) => pos' = pos
    BY DEF SysEnvAlloc
  <2>6. \A id \in NamedId, status \in SetStatus : SysSetEnvStatus(id, status) => pos' = pos
    BY DEF SysSetEnvStatus
  <2>7. \A id \in NamedId, value \in Value : SysIpcCanSend(id, value) => pos' = pos
    BY DEF SysIpcCanSend
  <2> QED BY <2>1, <2>2, <2>3, <2>4, <2>5, <2>6, <2>7 DEF Next
<1>4. IndInv /\ [Next]_vars => [HandleIrq \/ SysYield \/ pos' /= pos => Nearer]_vars
  BY <1>2, <1>3 DEF vars
<1> QED BY <1>4, Invariant, PTL DEF Spec, BoundedWait

-----------------------------------------------------------------------------
(* Refinement.                                                             *)

\* The refinement mapping of Env, by name.
Entry(s) == [id |-> envs[s].id, parent |-> envs[s].parent]
Alive == {Entry(s) : s \in Slot \ FreeSlots}
Refused == {envs[s].id : s \in {t \in Slot \ FreeSlots : envs[t].status = ENV_FREE}}
RunningId == IF curenv = None THEN 0 ELSE envs[curenv].id

-----------------------------------------------------------------------------
\* Birth, in the names of the mapping.
LEMMA BirthByName ==
    ASSUME NEW x \in Alive', Cardinality(Alive) < NENV, x.id >= Limit, x.parent = RunningId,
           Alive' = Alive \union {x}, Limit' > x.id, RunningId' = RunningId, Refused' = Refused
    PROVE  Table!Birth
<1> DEFINE table == {[id |-> envs[s].id, parent |-> envs[s].parent] : s \in Slot \ FreeSlots}
           run == IF curenv = None THEN 0 ELSE envs[curenv].id
           stopped == {envs[s].id : s \in {t \in Slot \ FreeSlots : envs[t].status = ENV_FREE}}
<1>1. /\ Cardinality(table) < NENV /\ x \in table'
      /\ x.id >= MkEnvId(nextId + 1, 0) /\ x.parent = run
      /\ table' = table \union {x} /\ MkEnvId(nextId + 1, 0)' > x.id /\ run' = run
      /\ stopped' = stopped
  BY DEF Alive, Entry, RunningId, Limit, Refused
<1> HIDE DEF table, run, stopped
<1>2. /\ Cardinality(table) < NENV
      /\ \E e \in table' : /\ e.id >= MkEnvId(nextId + 1, 0) /\ e.parent = run
                           /\ table' = table \union {e} /\ MkEnvId(nextId + 1, 0)' > e.id
      /\ run' = run /\ stopped' = stopped
  BY <1>1
<1>3. Table!Cardinality(table) = Cardinality(table)
  BY Zenon DEF Table!Cardinality, Cardinality
<1> QED BY <1>2, <1>3 DEF Table!Birth, table, run, stopped

\* Death, in the names of the mapping.
LEMMA DeathByName ==
    ASSUME NEW x \in Alive, RunningId /= 0,
           x.id = RunningId \/ (x.parent = RunningId /\ x.id \notin Refused),
           Alive' = Alive \ {x}, Refused' = Refused \ {x.id},
           RunningId' \in IF x.id = RunningId THEN (Table!Ids(Alive') \ Refused') \union {0}
                          ELSE {RunningId},
           Limit' = Limit
    PROVE  Table!Death
BY DEF Table!Death, Alive, Refused, Entry, RunningId, Limit

\* Refuse, in the names of the mapping.
LEMMA RefuseByName ==
    ASSUME RunningId /= 0, NEW id \in Table!Ids(Alive), Refused' = Refused \union {id},
           Alive' = Alive, Limit' = Limit, RunningId' = RunningId
    PROVE  Table!Refuse
BY DEF Table!Refuse, Alive, Refused, Entry, RunningId, Limit

\* Switch, in the names of the mapping.
LEMMA SwitchByName ==
    ASSUME RunningId' \in (Table!Ids(Alive) \ Refused') \union {RunningId},
           Refused' = Refused \/ Refused' = Refused \ {RunningId},
           Alive' = Alive, Limit' = Limit
    PROVE  Table!Switch
BY DEF Table!Switch, Alive, Refused, Entry, RunningId, Limit

\* Nothing happens, in the names of the mapping.
LEMMA StutterByName ==
    ASSUME RunningId' = RunningId, Alive' = Alive, Refused' = Refused, Limit' = Limit
    PROVE  UNCHANGED Table!tableVars
BY DEF Table!tableVars, Alive, Refused, Entry, RunningId, Limit

\* No two slots in use have the same entry.
LEMMA EntriesDiffer ==
    ASSUME IndInv, NEW s \in Slot \ FreeSlots, NEW t \in Slot \ FreeSlots, Entry(s) = Entry(t)
    PROVE  s = t
<1>1. envs[s].id = envs[t].id
  BY DEF Entry
<1> QED BY <1>1, IdsFollow DEF IdsSound

\* The id of the running environment is that of an entry.
LEMMA RunningIsAlive ==
    ASSUME IndInv, curenv /= None
    PROVE  /\ curenv \in Slot \ FreeSlots /\ RunningId = envs[curenv].id /\ RunningId > 0
           /\ RunningId \in Table!Ids(Alive)
<1>1. curenv \in Slot \ FreeSlots /\ RunningId = envs[curenv].id
  BY DEF IndInv, EnvTypeOK, FreeListSound, RunningId
<1>2. PICK n \in 1..nextId : envs[curenv].id = MkEnvId(n, curenv)
  BY <1>1 DEF IndInv, IdsIssued
<1>3. n \in Nat \ {0}
  BY <1>2 DEF IndInv, EnvTypeOK
<1>4. Entry(curenv) \in Alive /\ Entry(curenv).id = RunningId
  BY <1>1 DEF Alive, Entry
<1> QED BY <1>1, <1>2, <1>3, <1>4, IdIsPositive DEF Table!Ids

\* While a slot is free, fewer than NENV environments exist.
LEMMA RoomLeft ==
    ASSUME IndInv, NEW e \in Slot, e \in FreeSlots
    PROVE  Cardinality(Alive) < NENV
<1> DEFINE used == Slot \ FreeSlots
           f == [s \in used |-> Entry(s)]
<1>1. IsFiniteSet(Slot) /\ Cardinality(Slot) = NENV
  <2>1. 0 \in Int /\ NENV - 1 \in Int /\ ~(0 > NENV - 1) /\ NENV - 1 - 0 + 1 = NENV
    OBVIOUS
  <2> QED BY <2>1, FS_Interval DEF Slot
<1>2. used \in SUBSET Slot /\ used /= Slot
  OBVIOUS
<1> HIDE DEF used
<1>3. IsFiniteSet(used) /\ Cardinality(used) <= NENV /\ Cardinality(used) /= NENV
  BY <1>1, <1>2, FS_Subset
<1>4. f \in Surjection(used, Alive)
  BY DEF Surjection, Alive, used
<1>5. IsFiniteSet(Alive) /\ Cardinality(Alive) <= Cardinality(used)
  BY <1>3, <1>4, FS_Surjection
<1>6. Cardinality(Alive) \in Nat /\ Cardinality(used) \in Nat
  BY <1>3, <1>5, FS_CardinalityType
<1> QED BY <1>3, <1>5, <1>6

\* The table looks the same when ids, parents and the free list do.
LEMMA TableUnchanged ==
    ASSUME FreeSlots' = FreeSlots, nextId' = nextId,
           \A s \in Slot : envs'[s].id = envs[s].id /\ envs'[s].parent = envs[s].parent
    PROVE  Alive' = Alive /\ Limit' = Limit
<1>1. \A s \in Slot : Entry(s)' = Entry(s)
  BY DEF Entry
<1> QED BY <1>1 DEF Alive, Limit, MkEnvId

\* What a change of one status does to the refused ids.
LEMMA RefusedFollows ==
    ASSUME IndInv, FreeSlots' = FreeSlots, NEW x \in Slot \ FreeSlots,
           \A s \in Slot : envs'[s].id = envs[s].id,
           \A s \in Slot : s /= x => envs'[s].status = envs[s].status
    PROVE  Refused' = IF envs'[x].status = ENV_FREE THEN Refused \union {envs[x].id}
                      ELSE Refused \ {envs[x].id}
<1> DEFINE Stopped == {t \in Slot \ FreeSlots : envs[t].status = ENV_FREE}
           After == IF envs'[x].status = ENV_FREE THEN Stopped \union {x} ELSE Stopped \ {x}
<1>1. Refused = {envs[s].id : s \in Stopped}
  BY DEF Refused
<1>2. Refused' = {envs'[s].id : s \in {t \in Slot \ FreeSlots : envs'[t].status = ENV_FREE}}
  BY DEF Refused, Slot, ENV_FREE
<1>3. {t \in Slot \ FreeSlots : envs'[t].status = ENV_FREE} = After
  OBVIOUS
<1>4. Refused' = {envs[s].id : s \in After}
  BY <1>2, <1>3
<1>5. \A s \in Stopped : envs[s].id = envs[x].id => s = x
  BY IdsFollow DEF IdsSound
<1> QED BY <1>1, <1>4, <1>5

\* Whoever may run has an id that is not refused.
LEMMA NamedAfter ==
    ASSUME IndInv, \A s \in Slot : envs'[s].id = envs[s].id,
           FreeSlots \subseteq FreeSlots',
           NEW t \in Slot \ FreeSlots', envs'[t].status /= ENV_FREE
    PROVE  envs'[t].id \in Table!Ids(Alive') \ Refused'
<1>1. Entry(t)' \in Alive' /\ Entry(t)'.id = envs'[t].id
  BY DEF Alive, Entry, Slot
<1>2. envs'[t].id \notin Refused'
  <2>1. \A s \in Slot \ FreeSlots' : envs'[s].id = envs'[t].id => s = t
    BY IdsFollow DEF IdsSound
  <2>2. Refused' = {envs'[s].id : s \in {u \in Slot \ FreeSlots' : envs'[u].status = ENV_FREE}}
    BY DEF Refused, Slot, ENV_FREE
  <2> QED BY <2>1, <2>2
<1> QED BY <1>1, <1>2 DEF Table!Ids

-----------------------------------------------------------------------------
\* env_alloc under its two callers is a birth.
LEMMA AllocIsBirth ==
    ASSUME IndInv, IndInv', freeList /= <<>>, NEW status \in Status,
           EnvAlloc(RunningId, status), RunningId \in Nat, curenv' = curenv, status /= ENV_FREE
    PROVE  Table!Birth
<1>1. PICK e : e = Head(freeList)
  OBVIOUS
<1> DEFINE new == MkEnvId(nextId + 1, e)
<1>2. /\ e \in Slot /\ e \in FreeSlots /\ FreeSlots' = FreeSlots \ {e}
      /\ \A s \in Slot : s /= e => envs'[s] = envs[s]
      /\ envs'[e].id = new /\ envs'[e].parent = RunningId
      /\ nextId \in Nat /\ nextId' = nextId + 1 /\ Limit \in Nat /\ new \in Nat /\ new >= Limit
  BY <1>1, AllocEffect
<1>3. FreeSlots \subseteq Slot
  BY DEF FreeSlots, IndInv, EnvTypeOK
<1>4. Alive' = Alive \union {Entry(e)'}
  <2>1. Slot \ FreeSlots' = (Slot \ FreeSlots) \union {e}
    BY <1>2, <1>3
  <2>2. \A s \in Slot \ FreeSlots : Entry(s)' = Entry(s)
    BY <1>2 DEF Entry
  <2>3. Alive' = {Entry(s)' : s \in Slot \ FreeSlots'}
    BY DEF Alive, Slot
  <2>4. Alive = {Entry(s) : s \in Slot \ FreeSlots}
    BY DEF Alive
  <2>5. \A x : x \in Alive' <=> x \in Alive \/ x = Entry(e)'
    BY <2>1, <2>2, <2>3, <2>4
  <2> QED BY <2>5
<1>5. Entry(e)'.id = new /\ Entry(e)'.parent = RunningId /\ Entry(e)' \in Alive'
  BY <1>2, <1>4 DEF Entry
<1>6. Limit' > new
  <2>1. e \in Slot /\ 0 \in Slot /\ nextId + 1 \in Nat /\ nextId + 2 \in Nat /\ nextId + 1 < nextId + 2
    BY <1>2 DEF Slot
  <2>2. new < MkEnvId(nextId + 2, 0)
    BY <2>1, IdsGrow
  <2>3. Limit' = MkEnvId(nextId + 2, 0)
    BY <1>2 DEF Limit, MkEnvId
  <2>4. MkEnvId(nextId + 2, 0) \in Nat
    BY <2>1, IdIsPositive
  <2> QED BY <1>2, <2>2, <2>3, <2>4
<1>7. RunningId' = RunningId
  <2>1. CASE curenv = None
    BY <2>1 DEF RunningId
  <2>2. CASE curenv /= None
    <3>1. curenv \in Slot /\ curenv /= e
      BY <1>2, <2>2, RunningIsAlive
    <3> QED BY <1>2, <3>1 DEF RunningId
  <2> QED BY <2>1, <2>2
<1>8. Cardinality(Alive) < NENV
  BY <1>2, RoomLeft
<1>10. Refused' = Refused
  <2>1. envs'[e].status = status
    <3>1. envs[e] \in EnvRecord /\ envs \in [Slot -> EnvRecord]
      BY <1>2 DEF IndInv, EnvTypeOK
    <3>2. envs'[e] = [envs[e] EXCEPT !.status = status, !.id = MkEnvId(nextId + 1, e),
                                     !.parent = RunningId]
      BY <1>1, <1>2, <3>1 DEF EnvAlloc
    <3> QED BY <3>1, <3>2 DEF EnvRecord
  <2>2. {t \in Slot \ FreeSlots' : envs'[t].status = ENV_FREE}
          = {t \in Slot \ FreeSlots : envs[t].status = ENV_FREE}
    BY <1>2, <2>1
  <2>3. Refused' = {envs'[s].id : s \in {t \in Slot \ FreeSlots' : envs'[t].status = ENV_FREE}}
    BY DEF Refused, Slot, ENV_FREE
  <2>4. \A t \in Slot \ FreeSlots : envs'[t].id = envs[t].id
    BY <1>2
  <2> QED BY <2>2, <2>3, <2>4 DEF Refused
<1> HIDE DEF new
<1> DEFINE x == Entry(e)'
<1> HIDE DEF x
<1>9. x.id = new /\ x.parent = RunningId /\ x \in Alive' /\ Alive' = Alive \union {x}
  BY <1>4, <1>5 DEF x
<1> QED BY <1>2, <1>6, <1>7, <1>8, <1>9, <1>10, BirthByName

\* The table may look the same to a switch: the one that runs may have returned, and
\* sched_yield only picks an environment that can be named.
LEMMA YieldIsSwitch ==
    ASSUME IndInv, IndInv', FreeSlots' = FreeSlots, nextId' = nextId,
           \A s \in Slot : envs'[s].id = envs[s].id /\ envs'[s].parent = envs[s].parent,
           (curenv' /= None /\ envs'[curenv'].status /= ENV_FREE) \/ curenv' = curenv,
           Refused' = Refused \/ Refused' = Refused \ {RunningId}
    PROVE  Table!Switch
<1>1. Alive' = Alive /\ Limit' = Limit
  BY TableUnchanged
<1>2. RunningId' \in (Table!Ids(Alive) \ Refused') \union {RunningId}
  <2>1. CASE curenv' /= None /\ envs'[curenv'].status /= ENV_FREE
    <3>1. PICK t : t = curenv'
      OBVIOUS
    <3>2. t \in Slot \ FreeSlots'
      BY <2>1, <3>1 DEF IndInv, EnvTypeOK, FreeListSound, Slot, None
    <3>3. RunningId' = envs'[t].id
      BY <2>1, <3>1 DEF RunningId, None
    <3> QED BY <1>1, <2>1, <3>1, <3>2, <3>3, NamedAfter
  <2>2. CASE curenv' = curenv
    <3>1. curenv = None \/ envs'[curenv].id = envs[curenv].id
      BY DEF IndInv, EnvTypeOK
    <3> QED BY <2>2, <3>1 DEF RunningId, None
  <2> QED BY <2>1, <2>2
<1> QED BY <1>1, <1>2, SwitchByName

\* What sched_yield does to curenv.
LEMMA YieldKeepsOrPicks ==
    ASSUME IndInv, NEW es, NEW cur, SchedYield(es, cur)
    PROVE  (curenv' /= None /\ Runnable(es, curenv')) \/ curenv' = cur
<1>1. pos \in -1..(NENV - 1)
  BY DEF IndInv, EnvTypeOK
<1> QED BY <1>1, YieldPicksRunnable DEF Slot, None

\* sys_env_destroy is a death: envid2env let the caller name itself or its own child.
LEMMA DestroyIsDeath ==
    ASSUME IndInv, IndInv', NEW id \in NamedId, SysEnvDestroy(id)
    PROVE  Table!Death
<1>1. PICK e : e = Envid2Env(id, TRUE)
  OBVIOUS
<1>2. /\ e \in Slot \ FreeSlots /\ mode = "user" /\ curenv \in Slot \ FreeSlots
      /\ e = curenv \/ (envs[e].parent = envs[curenv].id /\ envs[e].status /= ENV_FREE)
  <2>1. e \in Slot \ FreeSlots /\ mode = "user"
    BY <1>1, NamesAreNumbers, FoundIsUsed DEF SysEnvDestroy
  <2>2. e = curenv \/ (envs[e].parent = envs[curenv].id /\ envs[e].status /= ENV_FREE)
    BY <1>1 DEF SysEnvDestroy, Envid2Env
  <2> QED BY <2>1, <2>2, CallerIsUsed
<1>3. /\ envs' = [envs EXCEPT ![e].status = ENV_FREE]
      /\ freeList' = <<e>> \o freeList /\ nextId' = nextId
  BY <1>1 DEF SysEnvDestroy
<1>4. /\ FreeSlots' = FreeSlots \union {e}
      /\ \A s \in Slot : envs'[s].id = envs[s].id /\ envs'[s].parent = envs[s].parent
  BY <1>2, <1>3, FreeEffect
<1>5. Alive' = Alive \ {Entry(e)}
  <2>1. Slot \ FreeSlots' = (Slot \ FreeSlots) \ {e}
    BY <1>4
  <2>2. \A s \in Slot : Entry(s)' = Entry(s)
    BY <1>4 DEF Entry
  <2>3. Alive' = {Entry(s)' : s \in Slot \ FreeSlots'}
    BY DEF Alive, Slot
  <2>4. \A s \in Slot \ FreeSlots : s /= e => Entry(s) /= Entry(e)
    BY <1>2, EntriesDiffer
  <2>5. \A x : x \in Alive' <=> x \in Alive /\ x /= Entry(e)
    BY <1>2, <2>1, <2>2, <2>3, <2>4 DEF Alive
  <2> QED BY <2>5
<1>6. RunningId = envs[curenv].id /\ RunningId /= 0
  BY <1>2, RunningIsAlive DEF Slot, None
<1>7. Entry(e) \in Alive /\ Entry(e).id = envs[e].id /\ Entry(e).parent = envs[e].parent
  BY <1>2 DEF Alive, Entry
<1>8. Limit' = Limit
  BY <1>3 DEF Limit, MkEnvId
<1>11. Refused' = Refused \ {envs[e].id}
  <2>1. {t \in Slot \ FreeSlots' : envs'[t].status = ENV_FREE}
          = {t \in Slot \ FreeSlots : envs[t].status = ENV_FREE} \ {e}
    <3>1. \A t \in Slot : t /= e => envs'[t] = envs[t]
      BY <1>3 DEF IndInv, EnvTypeOK
    <3> QED BY <1>4, <3>1
  <2>2. Refused' = {envs'[s].id : s \in {t \in Slot \ FreeSlots' : envs'[t].status = ENV_FREE}}
    BY DEF Refused, Slot, ENV_FREE
  <2>3. \A s \in Slot \ FreeSlots : envs[s].id = envs[e].id => s = e
    BY <1>2, IdsFollow DEF IdsSound
  <2> QED BY <1>4, <2>1, <2>2, <2>3 DEF Refused
<1>9. RunningId' \in IF Entry(e).id = RunningId THEN (Table!Ids(Alive') \ Refused') \union {0}
                    ELSE {RunningId}
  <2>1. CASE e = curenv
    <3>1. curenv' = None \/ RunningId' \in Table!Ids(Alive') \ Refused'
      <4> SUFFICES ASSUME curenv' /= None PROVE RunningId' \in Table!Ids(Alive') \ Refused'
        OBVIOUS
      <4>1. PICK t : t = curenv'
        OBVIOUS
      <4>2. t \in Slot \ FreeSlots' /\ RunningId' = envs'[t].id
        BY <4>1 DEF IndInv, EnvTypeOK, FreeListSound, RunningId, Slot, None
      <4>3. envs'[t].status /= ENV_FREE
        <5>1. SchedYield(envs', None)
          BY <1>1, <1>3, <2>1 DEF SysEnvDestroy
        <5>2. Runnable(envs', t)
          BY <4>1, <5>1, YieldKeepsOrPicks
        <5> QED BY <5>2 DEF Runnable, ENV_RUNNABLE, ENV_FREE
      <4> QED BY <1>4, <4>2, <4>3, NamedAfter
    <3>2. curenv' = None => RunningId' = 0
      BY DEF RunningId, None
    <3> QED BY <1>6, <1>7, <2>1, <3>1, <3>2
  <2>2. CASE e /= curenv
    <3>1. curenv' = curenv
      BY <1>1, <2>2 DEF SysEnvDestroy
    <3>2. RunningId' = RunningId
      BY <1>2, <1>4, <3>1 DEF RunningId
    <3>3. Entry(e).id /= RunningId
      BY <1>2, <1>6, <1>7, <2>2, IdsFollow DEF IdsSound
    <3> QED BY <3>2, <3>3
  <2> QED BY <2>1, <2>2
<1>10. Entry(e).id = RunningId \/ (Entry(e).parent = RunningId /\ Entry(e).id \notin Refused)
  <2>1. envs[e].status /= ENV_FREE => envs[e].id \notin Refused
    BY <1>2, IdsFollow DEF IdsSound, Refused
  <2> QED BY <1>2, <1>6, <1>7, <2>1
<1>12. Refused' = Refused \ {Entry(e).id}
  BY <1>7, <1>11
<1> QED BY <1>5, <1>6, <1>7, <1>8, <1>9, <1>10, <1>12, DeathByName

\* The calls that change fields of one environment, or none, before sched_yield.
LEMMA FieldsAreHidden ==
    ASSUME IndInv, NEW e \in Slot, NEW r, r.id = envs[e].id, r.parent = envs[e].parent,
           envs' = [envs EXCEPT ![e] = r]
    PROVE  \A s \in Slot : envs'[s].id = envs[s].id /\ envs'[s].parent = envs[s].parent
BY DEF IndInv, EnvTypeOK

\* While main runs there is no current environment.
BootIdle == mode = "boot" => curenv = None

\* curenv is NULL until the first interrupt.
LEMMA BootIsIdle == Spec => []BootIdle
<1>1. Init => BootIdle
  BY DEF Init, BootIdle
<1>2. BootIdle /\ [Next]_vars => BootIdle'
  <2>1. ASSUME NEW es, NEW cur, SchedYield(es, cur) PROVE mode' /= "boot"
    BY <2>1 DEF SchedYield, Spin, RunNext
  <2> QED BY <2>1 DEF BootIdle, Next, vars, EnvCreate, HandleIrq, SysYield, SysEnvAlloc,
                      SysEnvDestroy, SysSetEnvStatus, SysIpcRecv, SysIpcCanSend
<1> QED BY <1>1, <1>2, PTL DEF Spec

\* Every step of Env is one of EnvTable, or none.
LEMMA StepRefines ==
    ASSUME IndInv, IndInv', BootIdle, [Next]_vars
    PROVE  [Table!TableNext]_(Table!tableVars)
<1>1. CASE EnvCreate
  <2>1. RunningId = 0 /\ 0 \in Nat /\ ENV_RUNNABLE \in Status /\ ENV_RUNNABLE /= ENV_FREE
    BY <1>1 DEF EnvCreate, BootIdle, RunningId, Status, ENV_RUNNABLE, ENV_FREE
  <2> QED BY <1>1, <2>1, AllocIsBirth DEF EnvCreate, Table!TableNext
<1>2. CASE HandleIrq \/ SysYield
  <2>1. SchedYield(envs, curenv) /\ UNCHANGED <<envs, freeList, nextId>>
    BY <1>2 DEF HandleIrq, SysYield
  <2>2. FreeSlots' = FreeSlots /\ Refused' = Refused
    BY <2>1 DEF FreeSlots, Refused
  <2>3. (curenv' /= None /\ envs'[curenv'].status /= ENV_FREE) \/ curenv' = curenv
    BY <2>1, YieldKeepsOrPicks DEF Runnable, ENV_RUNNABLE, ENV_FREE
  <2> QED BY <2>1, <2>2, <2>3, YieldIsSwitch DEF Table!TableNext
<1>3. ASSUME NEW outcome, SysEnvAlloc(outcome) PROVE [Table!TableNext]_(Table!tableVars)
  <2>1. curenv \in Slot \ FreeSlots /\ curenv /= None /\ curenv' = curenv
    BY <1>3, CallerIsUsed DEF SysEnvAlloc, Slot, None
  <2>2. CASE UNCHANGED <<envs, freeList, nextId, curenv>>
    <3>1. RunningId' = RunningId /\ Alive' = Alive /\ Limit' = Limit /\ Refused' = Refused
      BY <2>2, TableUnchanged DEF RunningId, FreeSlots, Refused
    <3> QED BY <3>1, StutterByName
  <2>3. ASSUME NEW status \in Status, EnvAlloc(envs[curenv].id, status), status /= ENV_FREE
        PROVE  Table!Birth
    <3>1. RunningId = envs[curenv].id /\ RunningId \in Nat
      BY <2>1, RunningIsAlive DEF IndInv, EnvTypeOK, EnvRecord
    <3> QED BY <1>3, <2>1, <2>3, <3>1, AllocIsBirth DEF SysEnvAlloc
  <2>4. /\ ENV_RUNNABLE \in Status /\ ENV_NOT_RUNNABLE \in Status
        /\ ENV_RUNNABLE /= ENV_FREE /\ ENV_NOT_RUNNABLE /= ENV_FREE
    BY DEF Status, ENV_RUNNABLE, ENV_NOT_RUNNABLE, ENV_FREE
  <2> QED BY <1>3, <2>2, <2>3, <2>4 DEF SysEnvAlloc, Table!TableNext
<1>4. ASSUME NEW id \in NamedId, SysEnvDestroy(id) PROVE [Table!TableNext]_(Table!tableVars)
  BY <1>4, DestroyIsDeath DEF Table!TableNext
<1>5. ASSUME NEW e \in Slot \ FreeSlots, NEW r \in EnvRecord,
             r.id = envs[e].id, r.parent = envs[e].parent,
             envs' = [envs EXCEPT ![e] = r], UNCHANGED <<freeList, nextId>>,
             r.status = ENV_FREE => curenv' = curenv /\ curenv /= None,
             r.status /= ENV_FREE => e = curenv \/ envs[e].status /= ENV_FREE,
             (curenv' /= None /\ envs'[curenv'].status /= ENV_FREE) \/ curenv' = curenv
      PROVE  [Table!TableNext]_(Table!tableVars)
  <2>1. FreeSlots' = FreeSlots /\ nextId' = nextId
    BY <1>5 DEF FreeSlots
  <2>2. \A s \in Slot : envs'[s].id = envs[s].id /\ envs'[s].parent = envs[s].parent
    BY <1>5, FieldsAreHidden
  <2>3. \A s \in Slot : s /= e => envs'[s].status = envs[s].status
    BY <1>5 DEF IndInv, EnvTypeOK
  <2>4. envs'[e].status = r.status
    BY <1>5 DEF IndInv, EnvTypeOK
  <2>5. Refused' = IF r.status = ENV_FREE THEN Refused \union {envs[e].id}
                   ELSE Refused \ {envs[e].id}
    BY <1>5, <2>1, <2>2, <2>3, <2>4, RefusedFollows
  <2>6. CASE r.status = ENV_FREE
    <3>1. RunningId /= 0 /\ curenv \in Slot
      BY <1>5, <2>6, RunningIsAlive
    <3>2. envs[e].id \in Table!Ids(Alive)
      <4>1. Entry(e) \in Alive /\ Entry(e).id = envs[e].id
        BY <1>5 DEF Alive, Entry
      <4> QED BY <4>1 DEF Table!Ids
    <3>3. RunningId' = RunningId
      BY <1>5, <2>2, <2>6, <3>1 DEF RunningId
    <3>4. Alive' = Alive /\ Limit' = Limit
      BY <2>1, <2>2, TableUnchanged
    <3>5. Table!Refuse
      BY <2>5, <2>6, <3>1, <3>2, <3>3, <3>4, RefuseByName
    <3> QED BY <3>5 DEF Table!TableNext
  <2>7. CASE r.status /= ENV_FREE
    <3>1. Refused' = Refused \/ Refused' = Refused \ {RunningId}
      <4>1. CASE e = curenv
        BY <1>5, <2>5, <2>7, <4>1 DEF RunningId, Slot, None
      <4>2. CASE envs[e].status /= ENV_FREE
        <5>1. envs[e].id \notin Refused
          BY <1>5, <4>2, IdsFollow DEF IdsSound, Refused
        <5> QED BY <2>5, <2>7, <5>1
      <4> QED BY <1>5, <2>7, <4>1, <4>2
    <3> QED BY <1>5, <2>1, <2>2, <3>1, YieldIsSwitch DEF Table!TableNext
  <2> QED BY <2>6, <2>7
<1>6. ASSUME NEW id \in NamedId, NEW status \in SetStatus, SysSetEnvStatus(id, status)
      PROVE  [Table!TableNext]_(Table!tableVars)
  <2>1. PICK e : e = Envid2Env(id, FALSE)
    OBVIOUS
  <2>2. e \in Slot \ FreeSlots /\ envs[e] \in EnvRecord /\ status \in Status
    BY <1>6, <2>1, NamesAreNumbers, FoundIsUsed, ArgumentAssumption
       DEF SysSetEnvStatus, IndInv, EnvTypeOK
  <2>5. curenv /= None /\ (e = curenv \/ envs[e].status /= ENV_FREE)
    <3>1. curenv \in Slot
      BY <1>6, CallerIsUsed DEF SysSetEnvStatus
    <3> QED BY <1>6, <2>1, <3>1 DEF SysSetEnvStatus, Envid2Env, Slot, None
  <2> DEFINE r == [envs[e] EXCEPT !.status = status]
  <2>3. /\ envs' = [envs EXCEPT ![e] = r]
        /\ UNCHANGED <<freeList, nextId>> /\ curenv' = curenv
    BY <1>6, <2>1 DEF SysSetEnvStatus
  <2>4. r \in EnvRecord /\ r.id = envs[e].id /\ r.parent = envs[e].parent
    BY <2>2 DEF EnvRecord
  <2> HIDE DEF r
  <2> QED BY <1>5, <2>2, <2>3, <2>4, <2>5
<1>7. CASE SysIpcRecv
  <2>1. /\ curenv \in Slot \ FreeSlots /\ envs[curenv] \in EnvRecord
        /\ ENV_NOT_RUNNABLE \in Status
    BY <1>7, CallerIsUsed DEF SysIpcRecv, IndInv, EnvTypeOK, Status
  <2> DEFINE r == [envs[curenv] EXCEPT !.status = ENV_NOT_RUNNABLE, !.recving = 1]
  <2>2. /\ envs' = [envs EXCEPT ![curenv] = r]
        /\ UNCHANGED <<freeList, nextId>> /\ SchedYield(envs', curenv)
    BY <1>7 DEF SysIpcRecv
  <2>3. r \in EnvRecord /\ r.id = envs[curenv].id /\ r.parent = envs[curenv].parent
    BY <2>1 DEF EnvRecord
  <2>6. r.status /= ENV_FREE
    <3>1. r.status = ENV_NOT_RUNNABLE
      BY <2>1 DEF EnvRecord
    <3> QED BY <3>1 DEF ENV_NOT_RUNNABLE, ENV_FREE
  <2>4. (curenv' /= None /\ envs'[curenv'].status /= ENV_FREE) \/ curenv' = curenv
    <3>1. (curenv' /= None /\ Runnable(envs', curenv')) \/ curenv' = curenv
      BY <2>2, YieldKeepsOrPicks
    <3> QED BY <3>1 DEF Runnable, ENV_RUNNABLE, ENV_FREE
  <2> HIDE DEF r
  <2> QED BY <1>5, <2>1, <2>2, <2>3, <2>4, <2>6
<1>8. ASSUME NEW id \in NamedId, NEW value \in Value, SysIpcCanSend(id, value)
      PROVE  [Table!TableNext]_(Table!tableVars)
  <2>1. PICK e : e = Envid2Env(id, FALSE)
    OBVIOUS
  <2>2. /\ e \in Slot \ FreeSlots /\ envs[e] \in EnvRecord
        /\ ENV_RUNNABLE \in Status /\ envs[curenv].id \in Nat
    <3>1. e \in Slot \ FreeSlots /\ curenv \in Slot
      BY <1>8, <2>1, NamesAreNumbers, FoundIsUsed, CallerIsUsed DEF SysIpcCanSend
    <3> QED BY <3>1 DEF IndInv, EnvTypeOK, EnvRecord, Status
  <2> DEFINE r == [envs[e] EXCEPT !.value = value, !.from = envs[curenv].id,
                                  !.recving = 0, !.status = ENV_RUNNABLE]
  <2>3. /\ envs' = [envs EXCEPT ![e] = r]
        /\ UNCHANGED <<freeList, nextId>> /\ curenv' = curenv
    BY <1>8, <2>1 DEF SysIpcCanSend
  <2>4. r \in EnvRecord /\ r.id = envs[e].id /\ r.parent = envs[e].parent
    BY <1>8, <2>2 DEF EnvRecord
  <2>5. r.status /= ENV_FREE
    <3>1. r.status = ENV_RUNNABLE
      BY <2>2 DEF EnvRecord
    <3> QED BY <3>1 DEF ENV_RUNNABLE, ENV_FREE
  <2>6. envs[e].status /= ENV_FREE
    <3>1. Receiving(e)
      BY <1>8, <2>1 DEF SysIpcCanSend
    <3> QED BY <3>1 DEF Receiving, ENV_NOT_RUNNABLE, ENV_FREE
  <2> HIDE DEF r
  <2> QED BY <1>5, <2>2, <2>3, <2>4, <2>5, <2>6
<1>9. CASE UNCHANGED vars
  <2>1. RunningId' = RunningId /\ Alive' = Alive /\ Limit' = Limit /\ Refused' = Refused
    BY <1>9, TableUnchanged DEF RunningId, FreeSlots, Refused, vars
  <2> QED BY <2>1, StutterByName
<1> QED BY <1>1, <1>2, <1>3, <1>4, <1>6, <1>7, <1>8, <1>9 DEF Next

\* Main starts with an empty table.
LEMMA InitRefines == Init => Table!TableInit
<1> SUFFICES ASSUME Init PROVE Table!TableInit
  OBVIOUS
<1>1. FreeSlots = Slot
  <2>1. \A s \in Slot : s + 1 \in DOMAIN freeList /\ freeList[s + 1] = s
    BY DEF Init, Slot
  <2>2. \A i \in DOMAIN freeList : freeList[i] \in Slot
    BY DEF Init, Slot
  <2>3. \A s : s \in FreeSlots <=> s \in Slot
    BY <2>1, <2>2 DEF FreeSlots
  <2> QED BY <2>3
<1>2. Slot \ FreeSlots = {} /\ curenv = None
  BY <1>1 DEF Init
<1>3. MkEnvId(nextId + 1, 0) > 0
  BY DEF Init, MkEnvId
<1> QED BY <1>2, <1>3 DEF Table!TableInit

\* The environment table of the kernel keeps the promises of EnvTable, whatever the
\* environments call and whatever memory does: an id is never given out again, and a slot
\* comes back only by the call of its environment or of the parent of it.  It also says
\* what is not promised: anybody can have an id refused (sys_set_env_status), and stop
\* the environment that has it.
THEOREM TableIsImplemented == Spec => ImplementsTable
<1>1. IndInv /\ IndInv' /\ BootIdle /\ [Next]_vars => [Table!TableNext]_(Table!tableVars)
  BY StepRefines
<1> QED BY <1>1, InitRefines, Invariant, BootIsIdle, PTL DEF Spec, ImplementsTable, Table!TableSpec
=============================================================================
