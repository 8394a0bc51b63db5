------------------------------ MODULE Context -------------------------------
(***************************************************************************)
(* The registers of a program across traps: saveall and the two entries    *)
(* el0_irq and el0_sync of lib/entry.S, the frames at TIMESTACK and        *)
(* KERNEL_SP, env_run and env_pop_tf, and the system calls that copy       *)
(* frames.  Which runnable environment is chosen, and why one is runnable, *)
(* is left to Env.tla: here any environment that waits may be resumed.     *)
(*                                                                         *)
(* A register holds a value <<s, n>> environment s computed, a result of   *)
(* the kernel, or Junk the kernel left.  "xs" stands for x1 to x15 and x18 *)
(* to x30, which every path treats alike.                                  *)
(***************************************************************************)
EXTENDS Naturals

CONSTANTS
    Slots,     \* slots of envs
    Versions,  \* bound: the values an environment tells apart
    None       \* no environment

ASSUME ContextAssumption == None \notin Slots /\ Versions /= {} /\ Versions \subseteq Nat

Reg == {"x0", "xs", "x16", "x17", "sp", "spsr", "pc"}
\* struct Trapframe: the program counter is stored twice.
FrameField == Reg \union {"elr"}

\* Values of the kernel: what it leaves in a register it does not restore, zero (which
\* fork gives the child), and the result of a system call.
Junk == <<None, 0>>
Zero == <<None, 1>>
Ret == <<None, 2>>
RegVal == (Slots \X Versions) \union {Junk, Zero, Ret}
Frame == [FrameField -> RegVal]
\* The array envs is cleared when it is allocated.
ClearFrame == [f \in FrameField |-> Zero]
JunkFrame == [f \in FrameField |-> Junk]

VARIABLES
    regs,       \* the registers user code sees
    curenv,
    tf,         \* env_tf of each slot
    timestack,  \* the frame below TIMESTACK
    status,     \* of each slot
    seen        \* history: the registers each environment expects to find
vars == <<regs, curenv, tf, timestack, status, seen>>

\* An environment has status ENV_RUNNABLE, ENV_NOT_RUNNABLE, or the ENV_FREE of
\* sys_set_env_status, which leaves its slot off env_free_list; the rest are on the list.
Living == {"ready", "blocked", "lost"}
SlotStatus == Living \union {"free"}

User == curenv /= None  \* user code runs: the system can trap

\* saveall, after the entry code has loaded the new stack pointer into x16.
SaveAll == [f \in FrameField |-> IF f = "x16" THEN Junk
                                 ELSE IF f = "elr" THEN regs["pc"] ELSE regs[f]]

\* The frame el0_sync saves below KERNEL_SP; no call reads the frame of an earlier one.
KernelSp == SaveAll

\* The end of el0_sync: x0 keeps the result, and x16 carries the last value moved to a
\* system register; x17 is loaded from the frame.
SyscallExit(frame, x0) ==
    [r \in Reg |-> IF r = "x0" THEN x0 ELSE IF r = "x16" THEN Junk ELSE frame[r]]

\* env_pop_tf: x16 holds the frame's address, x17 the program counter.
EnvPopTf(frame) == [r \in Reg |-> IF r \in {"x16", "x17"} THEN Junk ELSE frame[r]]

\* Mutant: curenv is replaced before the frame is saved.
EnvRunSavesLate(e, cur, stack) ==
    LET saved == [stack EXCEPT !["pc"] = stack["elr"]]
    IN  /\ tf' = IF cur = None THEN tf ELSE [tf EXCEPT ![e] = saved]
        /\ curenv' = e
        /\ regs' = EnvPopTf(tf'[e])
        /\ timestack' = stack

\* env_run: the frame at TIMESTACK belongs to curenv, unless it is NULL.
EnvRun(e, cur, stack) ==
    LET saved == [stack EXCEPT !["pc"] = stack["elr"]]
    IN  /\ tf' = IF cur = None THEN tf ELSE [tf EXCEPT ![cur] = saved]
        /\ curenv' = e
        /\ regs' = EnvPopTf(tf'[e])
        /\ timestack' = stack

-----------------------------------------------------------------------------
\* env_create_priority: the entry point and an empty stack.
StartFrame(s) ==
    LET v == CHOOSE v \in Versions : TRUE
    IN  [ClearFrame EXCEPT !["pc"] = <<s, v>>, !["sp"] = <<s, v>>]

Init ==
    /\ regs = [r \in Reg |-> Junk] /\ curenv = None
    /\ timestack = ClearFrame
    /\ \E boot \in (SUBSET Slots) \ {{}} :
        /\ status = [s \in Slots |-> IF s \in boot THEN "ready" ELSE "free"]
        /\ tf = [s \in Slots |-> IF s \in boot THEN StartFrame(s) ELSE ClearFrame]
        /\ seen = [s \in Slots |-> EnvPopTf(tf[s])]

\* The first interrupt finds main running, with curenv NULL.
FirstIrq(e) ==
    /\ ~User /\ status[e] = "ready"
    /\ EnvRun(e, None, JunkFrame)
    /\ UNCHANGED <<status, seen>>

\* User code computes: every register takes a new value.
Compute(v) ==
    LET r == [x \in Reg |-> <<curenv, v>>]
    IN  /\ User
        /\ regs' = r
        /\ seen' = [seen EXCEPT ![curenv] = r]
        /\ UNCHANGED <<curenv, tf, timestack, status>>

\* el0_irq, handle_irq, sched_yield, env_run; the same environment may come next.
HandleIrq(e) ==
    /\ User /\ status[e] = "ready"
    /\ EnvRun(e, curenv, SaveAll)
    /\ UNCHANGED <<status, seen>>

\* Mutant: the frame is not copied from KERNEL_SP to TIMESTACK.
SysSwitchNoCopy(e, mine) ==
    /\ User
    /\ mine \in {status[curenv], "blocked"}
    /\ status' = [status EXCEPT ![curenv] = mine]
    /\ status'[e] = "ready"
    /\ EnvRun(e, curenv, timestack)
    /\ UNCHANGED seen

\* sys_yield, which leaves the caller's status alone, and sys_ipc_recv, which blocks it:
\* the frame is copied to TIMESTACK.  There is no result: the caller finds in x0 what it
\* called with.
SysSwitch(e, mine) ==
    /\ User
    /\ mine \in {status[curenv], "blocked"}
    /\ status' = [status EXCEPT ![curenv] = mine]
    /\ status'[e] = "ready"
    /\ EnvRun(e, curenv, KernelSp)
    /\ UNCHANGED seen

\* sys_env_destroy of the caller: curenv is NULL when env_run is entered.
SysEnvDestroySelf(e) ==
    /\ User
    /\ status' = [status EXCEPT ![curenv] = "free"]
    /\ status'[e] = "ready"
    /\ EnvRun(e, None, KernelSp)
    /\ UNCHANGED seen

\* A call that returns through el0_sync to its caller.
Return ==
    /\ User
    /\ regs' = SyscallExit(KernelSp, Ret)
    /\ UNCHANGED <<curenv, timestack>>

\* The calls that change no frame, and at most the status of one environment that
\* envid2env accepts: sys_ipc_can_send makes a receiver ready, sys_env_destroy ends
\* another one, and sys_set_env_status gives any, the caller too, any status.
SysReturn(e, st) ==
    /\ Return
    /\ \/ st = status[e]
       \/ e = curenv /\ st \in Living
       \/ e /= curenv /\ status[e] \in {"ready", "blocked"} /\ st \in SlotStatus
    /\ status' = [status EXCEPT ![e] = st]
    /\ seen' = [seen EXCEPT ![curenv]["x0"] = Ret]
    /\ UNCHANGED tf

\* sys_env_alloc: the child's frame is the caller's with x0 = 0.  The child stays
\* "blocked" when memory runs out while the stack is copied; its frame is written then.
SysEnvAlloc(child, st) ==
    /\ Return
    /\ status[child] = "free"
    /\ status' = [status EXCEPT ![child] = st]
    /\ tf' = [tf EXCEPT ![child] = [KernelSp EXCEPT !["x0"] = Zero]]
    /\ seen' = [seen EXCEPT ![child] = [seen[curenv] EXCEPT !["x0"] = Zero],
                            ![curenv]["x0"] = Ret]

Next ==
    \/ \E e \in Slots : FirstIrq(e)
    \/ \E v \in Versions : Compute(v)
    \/ \E e \in Slots : HandleIrq(e)
    \/ \E e \in Slots, mine \in Living : SysSwitch(e, mine)
    \/ \E e \in Slots : SysEnvDestroySelf(e)
    \/ \E e \in Slots, st \in SlotStatus : SysReturn(e, st)
    \/ \E child \in Slots, st \in {"ready", "blocked"} : SysEnvAlloc(child, st)

Spec == Init /\ [][Next]_vars

-----------------------------------------------------------------------------
\* Register files and frames hold register values.
ContextTypeOK ==
    /\ regs \in [Reg -> RegVal] /\ seen \in [Slots -> [Reg -> RegVal]]
    /\ tf \in [Slots -> Frame] /\ timestack \in Frame
    /\ curenv \in Slots \union {None}
    /\ status \in [Slots -> SlotStatus]

Kept == Reg \ {"x16", "x17"}

\* Whatever happened since an environment was last on the processor (interrupts, other
\* environments using both frames, messages, forks, destructions), it continues with
\* the registers it had, a call's result in x0, and in a fork the child has the
\* parent's registers with zero in x0.  x16 and x17 are excepted.
ResumesIntact == User => \A r \in Kept : regs[r] = seen[curenv][r]

\* The same for an environment that is not running: its frame is complete while the
\* stack page it was saved from is reused.
WaitsIntact ==
    \A s \in Slots \ {curenv} : status[s] /= "free" =>
        \A r \in Kept : tf[s][r] = seen[s][r]

\* include/trapframe.h:4, of the saved registers: "register X0-30".  The entry code
\* overwrites x16 before saveall, and env_pop_tf uses x16 and x17 to load the others.
AllRegistersResume == User => \A r \in Reg : regs[r] = seen[curenv][r]
=============================================================================
