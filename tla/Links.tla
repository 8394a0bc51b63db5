-------------------------------- MODULE Links --------------------------------
(***************************************************************************)
(* The two intrusive lists that run through envs, at the level of the      *)
(* pointers include/queue.h writes: env_free_list through env_link and     *)
(* env_sched_list through env_sched_link.  A list is a record              *)
(*                                                                         *)
(*   first  lh_first                                                       *)
(*   next   le_next of every slot                                          *)
(*   prev   le_prev of every slot: the slot whose le_next it points to,    *)
(*          AtHead when it points to lh_first, None when it is null        *)
(*                                                                         *)
(* cur_sched stays zero, so the second list of env_sched_list is unused.   *)
(***************************************************************************)
EXTENDS Env

AtHead == NENV

VARIABLES
    free,    \* env_free_list
    sched,   \* env_sched_list[0]
    queued,  \* history: the slots inserted in sched and not removed since
    misused  \* history: the first slot removed when absent or inserted when present
listVars == <<free, sched, queued, misused>>

\* A cleared array and LIST_INIT.
EmptyList == [first |-> None, next |-> [s \in Slot |-> None], prev |-> [s \in Slot |-> None]]

\* LIST_INSERT_HEAD
InsertHead(l, e) ==
    LET linked == [l EXCEPT !.next[e] = l.first]
        pushed == IF l.first = None THEN linked ELSE [linked EXCEPT !.prev[l.first] = e]
    IN  [pushed EXCEPT !.first = e, !.prev[e] = AtHead]

\* Mutant: the successor keeps its le_prev.
RemoveKeepsPrev(l, e) ==
    CASE l.prev[e] = AtHead -> [l EXCEPT !.first = l.next[e]]
      [] l.prev[e] \in Slot -> [l EXCEPT !.next[l.prev[e]] = l.next[e]]
      [] OTHER -> l

\* LIST_REMOVE.  Through a null le_prev it writes to address zero, outside the list.
Remove(l, e) ==
    LET n == l.next[e]
        p == l.prev[e]
        freed == IF n = None THEN l ELSE [l EXCEPT !.prev[n] = p]
    IN  CASE p = AtHead -> [freed EXCEPT !.first = n]
          [] p \in Slot -> [freed EXCEPT !.next[p] = n]
          [] OTHER -> freed

\* env_init inserts every slot at the head, the last one first.
EnvInit ==
    [first |-> 0,
     next |-> [s \in Slot |-> IF s = NENV - 1 THEN None ELSE s + 1],
     prev |-> [s \in Slot |-> IF s = 0 THEN AtHead ELSE s - 1]]

LinksInit ==
    /\ Init
    /\ free = EnvInit /\ sched = EmptyList
    /\ queued = {} /\ misused = None

\* The uses of LIST_INSERT_HEAD and LIST_REMOVE on env_sched_link, with their history.
Enqueue(e) ==
    /\ sched' = InsertHead(sched, e)
    /\ queued' = queued \union {e}
    /\ misused' = IF misused = None /\ e \in queued THEN e ELSE misused
Dequeue(e) ==
    /\ sched' = Remove(sched, e)
    /\ queued' = queued \ {e}
    /\ misused' = IF misused = None /\ e \notin queued THEN e ELSE misused

-----------------------------------------------------------------------------
\* env_create_priority, and env_alloc within it.
CreatePriority ==
    /\ EnvCreate
    /\ free' = Remove(free, free.first)
    /\ Enqueue(free.first)

\* sys_env_alloc takes a slot from env_free_list and does not insert it in the other list.
ForkSlot(outcome) ==
    /\ SysEnvAlloc(outcome)
    /\ free' = IF outcome = "panic" THEN free ELSE Remove(free, free.first)
    /\ UNCHANGED <<sched, queued, misused>>

\* Mutant: the slot is not inserted.
FreeSlotUnlinked(id) == SysEnvDestroy(id) /\ Dequeue(Envid2Env(id, TRUE)) /\ UNCHANGED free

\* env_free inserts in one list and removes from the other, whatever the state was.
FreeSlot(id) ==
    LET e == Envid2Env(id, TRUE)
    IN  /\ SysEnvDestroy(id)
        /\ free' = InsertHead(free, e)
        /\ Dequeue(e)

\* sys_set_env_status removes only when the status changes, and inserts always.
SetStatusLinks(id, status) ==
    LET e == Envid2Env(id, FALSE)
    IN  /\ SysSetEnvStatus(id, status)
        /\ CASE status = ENV_RUNNABLE -> Enqueue(e)
             [] status /= ENV_RUNNABLE /\ envs[e].status /= status -> Dequeue(e)
             [] OTHER -> UNCHANGED <<sched, queued, misused>>
        /\ UNCHANGED free

\* Mutant: the receiver is not removed.
RecvLinksStay == SysIpcRecv /\ UNCHANGED listVars

RecvLinks == SysIpcRecv /\ Dequeue(curenv) /\ UNCHANGED free

\* Mutant: the receiver is not inserted.
SendLinksForgotten(id, value) == SysIpcCanSend(id, value) /\ UNCHANGED listVars

SendLinks(id, value) ==
    /\ SysIpcCanSend(id, value)
    /\ Enqueue(Envid2Env(id, FALSE))
    /\ UNCHANGED free

LinksNext ==
    \/ CreatePriority
    \/ (HandleIrq \/ SysYield) /\ UNCHANGED listVars
    \/ \E outcome \in {"ok", "no_mem", "panic"} : ForkSlot(outcome)
    \/ \E id \in NamedId :
        \/ FreeSlot(id)
        \/ \E status \in SetStatus : SetStatusLinks(id, status)
        \/ \E value \in Value : SendLinks(id, value)
    \/ RecvLinks

LinksSpec == LinksInit /\ [][LinksNext]_<<vars, listVars>>

-----------------------------------------------------------------------------
\* The pointers of l are those of a list that holds q.
Holds(l, q) ==
    /\ q = <<>> => l.first = None
    /\ q /= <<>> => l.first = q[1] /\ l.prev[q[1]] = AtHead /\ l.next[q[Len(q)]] = None
    /\ \A i \in 1..(Len(q) - 1) : l.next[q[i]] = q[i + 1] /\ l.prev[q[i + 1]] = q[i]

\* env_free_list, walked from its head or unlinked from its middle, is the sequence of
\* free slots: its elements are only ever removed while first and inserted while absent.
FreeLinksSound == Holds(free, freeList)

\* env_sched_list too is a well-formed list of the slots put in it (queue.h:65-67, "le_prev
\* points at the pointer to the structure containing this very LIST_ENTRY") as long as
\* no slot has been removed twice or inserted twice.
SchedLinksSound ==
    misused = None =>
        \E q \in [1..Cardinality(queued) -> queued] :
            {q[i] : i \in DOMAIN q} = queued /\ Holds(sched, q)

\* Until then it holds runnable environments, and all of those that main created.
SchedListHoldsRunnable ==
    misused = None =>
        /\ \A s \in queued : envs[s].status = ENV_RUNNABLE
        /\ \A s \in Slot :
            envs[s].status = ENV_RUNNABLE /\ envs[s].parent = 0 => s \in queued

\* A misuse starts with a forked environment, which was never inserted, or with one that
\* sys_set_env_status marked not runnable and that runs on to its next call.
MisuseStartsWithFork ==
    [][misused' /= misused =>
        LET e == misused'
        IN  \/ envs[e].parent /= 0
            \/ e = curenv /\ envs[e].status = ENV_NOT_RUNNABLE]_<<vars, listVars>>
=============================================================================
