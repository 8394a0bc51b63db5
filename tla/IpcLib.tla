------------------------------- MODULE IpcLib -------------------------------
(***************************************************************************)
(* ipc_send and ipc_recv of user/ipc.c, run by programs on the kernel of   *)
(* Env.tla.  A step of user code is a step of the environment curenv names *)
(* and timer interrupts come between any two of them.                      *)
(***************************************************************************)
EXTENDS Env

VARIABLE lib  \* per slot: where the library code is, and its arguments and results

LibAt == {"user", "send", "yield", "take", "takeValue", "panic"}

LibClear == [at |-> "user", whom |-> 0, val |-> 0, who |-> 0, got |-> 0]

\* What env_create_priority leaves when it is called once for every slot of S, the first
\* ones: slot s has id MkEnvId(s+1, s).  Main calls it once; a main that starts the
\* programs of these games calls it for each of them.
BootedEnvs(S) ==
    /\ envs = [s \in Slot |-> IF s \in S
               THEN [FreeEnv EXCEPT !.status = ENV_RUNNABLE, !.id = MkEnvId(s + 1, s)]
               ELSE FreeEnv]
    /\ freeList = [i \in 1..(NENV - Cardinality(S)) |-> Cardinality(S) + i - 1]
    /\ nextId = Cardinality(S) /\ curenv = None /\ pos = -1 /\ mode = "boot"
    /\ lib = [s \in Slot |-> LibClear]

Running(c, at) == mode = "user" /\ curenv = c /\ lib[c].at = at

CallSend(c, whom, val) ==
    /\ Running(c, "user")
    /\ lib' = [lib EXCEPT ![c].at = "send", ![c].whom = whom, ![c].val = val]
    /\ UNCHANGED vars

\* syscall_ipc_can_send: delivered, told to retry, or failed (panic in user code).
SendTry(c) ==
    LET e == Envid2Env(lib[c].whom, FALSE)
    IN  /\ Running(c, "send")
        /\ \/ /\ e = None
              /\ lib' = [lib EXCEPT ![c].at = "panic"]
              /\ UNCHANGED vars
           \/ /\ e /= None /\ ~Receiving(e)
              /\ lib' = [lib EXCEPT ![c].at = "yield"]
              /\ UNCHANGED vars
           \/ /\ SysIpcCanSend(lib[c].whom, lib[c].val)
              /\ lib' = [lib EXCEPT ![c].at = "user"]

SendYield(c) ==
    /\ Running(c, "yield")
    /\ SysYield
    /\ lib' = [lib EXCEPT ![c].at = "send"]

\* syscall_ipc_recv; the environment goes on from here when it is next scheduled.
CallRecv(c) ==
    /\ Running(c, "user")
    /\ SysIpcRecv
    /\ lib' = [lib EXCEPT ![c].at = "take"]

TakeWho(c) ==
    /\ Running(c, "take")
    /\ lib' = [lib EXCEPT ![c].who = envs[c].from, ![c].at = "takeValue"]
    /\ UNCHANGED vars

TakeValue(c) ==
    /\ Running(c, "takeValue")
    /\ lib' = [lib EXCEPT ![c].got = envs[c].value, ![c].at = "user"]
    /\ UNCHANGED vars

LibStep(c) == SendTry(c) \/ SendYield(c) \/ TakeWho(c)

Tick == HandleIrq /\ UNCHANGED lib
=============================================================================
