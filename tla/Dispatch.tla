------------------------------ MODULE Dispatch -------------------------------
(***************************************************************************)
(* The way of a system call: a wrapper of user/syscall_lib.c loads the     *)
(* number and the arguments into registers, svc enters el0_sync, and that  *)
(* jumps through sys_call_table.  A number is its distance from            *)
(* __SYSCALL_BASE, an argument the name of its parameter.                  *)
(***************************************************************************)
EXTENDS Integers, Sequences

CONSTANT RawNumber  \* numbers that code without the wrappers passes

\* Mutant: the literal in entry.S does not follow __SYSCALL_BASE.
EntryBaseMoved == 1
\* The 9527 of entry.S, relative to the one of syscall_lib.h.
EntryBase == 0
Bound == 20  \* of entry.S; __NR_SYSCALLS

Wrapper(name, number, args) == [name |-> name, number |-> number, args |-> args]
Wrappers == {
    Wrapper("putchar", 0, <<"ch">>), Wrapper("getenvid", 1, <<>>), Wrapper("yield", 2, <<>>),
    Wrapper("env_destroy", 3, <<"envid">>),
    Wrapper("set_pgfault_handler", 4, <<"envid", "func", "xstacktop">>),
    Wrapper("mem_alloc", 5, <<"envid", "va", "perm">>),
    Wrapper("mem_map", 6, <<"srcid", "srcva", "dstid", "dstva", "perm">>),
    Wrapper("mem_unmap", 7, <<"envid", "va">>), Wrapper("env_alloc", 8, <<>>),
    Wrapper("set_env_status", 9, <<"envid", "status">>),
    Wrapper("ipc_can_send", 12, <<"envid", "value", "srcva", "perm">>),
    Wrapper("ipc_recv", 13, <<"dstva">>), Wrapper("cgetc", 14, <<>>)}

\* sys_call_table: the handlers and their parameters after the first, sysno.
Handler(name, params) == [name |-> name, params |-> params]
SysCallTable == <<
    Handler("putchar", <<"ch">>), Handler("getenvid", <<>>), Handler("yield", <<>>),
    Handler("env_destroy", <<"envid">>),
    Handler("set_pgfault_handler", <<"envid", "func", "xstacktop">>),
    Handler("mem_alloc", <<"envid", "va", "perm">>),
    Handler("mem_map", <<"srcid", "srcva", "dstid", "dstva", "perm">>),
    Handler("mem_unmap", <<"envid", "va">>), Handler("env_alloc", <<>>),
    Handler("set_env_status", <<"envid", "status">>),
    Handler("set_trapframe", <<"envid", "tf">>), Handler("panic", <<"msg">>),
    Handler("ipc_can_send", <<"envid", "value", "srcva", "perm">>),
    Handler("ipc_recv", <<"dstva">>)>>

VARIABLES
    caller,  \* the wrapper that was called, or "raw"
    regs,    \* x0, then the argument registers
    landed   \* "user", "svc", a handler's name, "invalid_syscall" or "stray"
dispatchVars == <<caller, regs, landed>>

DispatchInit == caller = "none" /\ regs = [x0 |-> 0, args |-> <<>>] /\ landed = "user"

\* A wrapper and msyscall; the remaining argument registers are zero.
CallWrapper(w) ==
    /\ landed = "user"
    /\ caller' = w.name /\ regs' = [x0 |-> w.number, args |-> w.args]
    /\ landed' = "svc"

\* Any other exception of a user program enters el0_sync too, with any value in x0.
RawCall(n) ==
    /\ landed = "user"
    /\ caller' = "raw" /\ regs' = [x0 |-> n, args |-> <<>>]
    /\ landed' = "svc"

\* el0_sync: the comparison is signed, and the table is shorter than the bound.
El0Sync ==
    LET n == regs.x0 - EntryBase
    IN  /\ landed = "svc"
        /\ landed' = IF n >= Bound THEN "invalid_syscall"
                     ELSE IF n + 1 \in DOMAIN SysCallTable THEN SysCallTable[n + 1].name
                     ELSE "stray"
        /\ UNCHANGED <<caller, regs>>

DispatchNext == (\E w \in Wrappers : CallWrapper(w)) \/ (\E n \in RawNumber : RawCall(n)) \/ El0Sync

DispatchSpec == DispatchInit /\ [][DispatchNext]_dispatchVars

-----------------------------------------------------------------------------
\* A system call made through its wrapper arrives at its own handler, each parameter of
\* which finds the argument of the same name.  cgetc, whose number lies behind the end of
\* the table, is the one that does not.
CallsReachHandlers ==
    landed \notin {"user", "svc"} /\ caller \notin {"raw", "cgetc"} =>
        /\ landed = caller
        /\ \E n \in DOMAIN SysCallTable :
            SysCallTable[n].name = landed /\ SysCallTable[n].params = regs.args
=============================================================================
