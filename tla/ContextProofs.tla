---------------------------- MODULE ContextProofs ---------------------------
(***************************************************************************)
(* An environment finds its registers again, for any number of             *)
(* environments and any values in them.                                    *)
(***************************************************************************)
EXTENDS Context, TLAPS

\* The slot of the caller is not on the free list, whatever its status: fork must not take it.
RunningHasSlot == User => status[curenv] \in Living

IndInv ==
    /\ ContextTypeOK
    /\ RunningHasSlot
    /\ ResumesIntact
    /\ WaitsIntact

\* A frame as saveall leaves it for registers r: the counter is in elr.
Saves(stack, r) == stack["elr"] = r["pc"] /\ \A x \in Kept \ {"pc"} : stack[x] = r[x]

USE ContextAssumption

-----------------------------------------------------------------------------
\* saveall writes a frame that holds what the program had.
LEMMA SaveAllSaves ==
    ASSUME IndInv, User
    PROVE  SaveAll \in Frame /\ Saves(SaveAll, seen[curenv])
<1>1. regs \in [Reg -> RegVal] /\ Junk \in RegVal
  BY DEF IndInv, ContextTypeOK, RegVal
<1>2. SaveAll \in Frame
  BY <1>1 DEF SaveAll, Frame, FrameField, Reg
<1>3. SaveAll["elr"] = regs["pc"] /\ \A x \in Kept : SaveAll[x] = regs[x]
  BY DEF SaveAll, FrameField, Kept, Reg
<1>4. \A x \in Kept : regs[x] = seen[curenv][x]
  BY DEF IndInv, ResumesIntact
<1> QED BY <1>2, <1>3, <1>4 DEF Saves, Kept, Reg

\* env_run keeps the invariant when the frame it is given is that of cur, or there is
\* no cur, and e waits with a frame of its own.
LEMMA EnvRunSound ==
    ASSUME NEW e \in Slots, NEW cur \in Slots \union {None}, NEW stack \in Frame,
           tf \in [Slots -> Frame], seen \in [Slots -> [Reg -> RegVal]], seen' = seen,
           status' \in [Slots -> SlotStatus], status'[e] = "ready",
           cur /= None => Saves(stack, seen[cur]),
           \A s \in Slots \ {cur} : status'[s] /= "free" =>
               \A r \in Kept : tf[s][r] = seen[s][r],
           EnvRun(e, cur, stack)
    PROVE  IndInv'
<1> DEFINE saved == [stack EXCEPT !["pc"] = stack["elr"]]
<1>1. saved \in Frame /\ saved["pc"] = stack["elr"] /\ \A x \in Kept \ {"pc"} : saved[x] = stack[x]
  BY DEF Frame, FrameField, Kept, Reg
<1>2. /\ tf' = IF cur = None THEN tf ELSE [tf EXCEPT ![cur] = saved]
      /\ curenv' = e /\ regs' = EnvPopTf(tf'[e]) /\ timestack' = stack
  BY DEF EnvRun
<1> HIDE DEF saved
<1>3. cur /= None => \A x \in Kept : saved[x] = seen[cur][x]
  BY <1>1 DEF Saves
<1>4. tf' \in [Slots -> Frame]
  BY <1>1, <1>2
<1>5. \A s \in Slots : status'[s] /= "free" => \A r \in Kept : tf'[s][r] = seen[s][r]
  BY <1>2, <1>3
<1>6. regs' \in [Reg -> RegVal] /\ \A r \in Kept : regs'[r] = tf'[e][r]
  <2>1. tf'[e] \in Frame /\ Junk \in RegVal
    BY <1>4 DEF RegVal
  <2> QED BY <1>2, <2>1 DEF EnvPopTf, Frame, FrameField, Kept, Reg
<1>7. ContextTypeOK'
  BY <1>2, <1>4, <1>6 DEF ContextTypeOK
<1>8. ResumesIntact' /\ WaitsIntact'
  <2>1. curenv' = e /\ status'[e] /= "free"
    BY <1>2
  <2>2. \A r \in Kept : regs'[r] = seen'[e][r]
    BY <1>5, <1>6, <2>1
  <2>3. \A s \in Slots : status'[s] /= "free" => \A r \in Kept : tf'[s][r] = seen'[s][r]
    BY <1>5
  <2>4. ResumesIntact'
    BY ONLY <2>1, <2>2 DEF ResumesIntact
  <2>5. WaitsIntact'
    BY ONLY <2>3 DEF WaitsIntact
  <2> QED BY ONLY <2>4, <2>5
<1>9. RunningHasSlot'
  BY <1>2 DEF RunningHasSlot, Living
<1> QED BY <1>7, <1>8, <1>9 DEF IndInv

-----------------------------------------------------------------------------
\* main has prepared the frames of the environments it created; nobody runs yet.
LEMMA InitSound == Init => IndInv
<1> SUFFICES ASSUME Init PROVE IndInv
  OBVIOUS
<1>1. {Junk, Zero} \subseteq RegVal /\ ClearFrame \in Frame
  BY DEF RegVal, ClearFrame, Frame
<1>2. ASSUME NEW s \in Slots PROVE StartFrame(s) \in Frame
  <2> DEFINE v == CHOOSE v \in Versions : TRUE
  <2>1. v \in Versions
    OBVIOUS
  <2>2. <<s, v>> \in RegVal
    BY <2>1 DEF RegVal
  <2> HIDE DEF v
  <2>3. [ClearFrame EXCEPT !["pc"] = <<s, v>>, !["sp"] = <<s, v>>] \in Frame
    BY <1>1, <2>2 DEF Frame
  <2> QED BY <2>3 DEF StartFrame, v
<1>3. tf \in [Slots -> Frame] /\ status \in [Slots -> SlotStatus]
  BY <1>1, <1>2 DEF Init, SlotStatus, Living
<1>4. \A f \in Frame : EnvPopTf(f) \in [Reg -> RegVal] /\ \A r \in Kept : EnvPopTf(f)[r] = f[r]
  BY <1>1 DEF EnvPopTf, Frame, FrameField, Kept, Reg
<1>5. seen = [s \in Slots |-> EnvPopTf(tf[s])]
  BY DEF Init
<1>6. seen \in [Slots -> [Reg -> RegVal]] /\ \A s \in Slots, r \in Kept : tf[s][r] = seen[s][r]
  BY <1>3, <1>4, <1>5
<1>7. regs \in [Reg -> RegVal] /\ timestack \in Frame /\ curenv = None
  BY <1>1 DEF Init
<1> QED BY <1>3, <1>6, <1>7
      DEF IndInv, ContextTypeOK, RunningHasSlot, ResumesIntact, WaitsIntact, User

\* The frames of environments that do not run are untouched by what happens to the
\* status of others.
LEMMA OthersWait ==
    ASSUME IndInv, NEW s \in Slots, s /= curenv, status[s] /= "free", NEW r \in Kept
    PROVE  tf[s][r] = seen[s][r]
BY DEF IndInv, WaitsIntact

\* The first interrupt saves nothing, for curenv is NULL.
LEMMA FirstIrqSound == ASSUME IndInv, NEW e \in Slots, FirstIrq(e) PROVE IndInv'
<1>1. JunkFrame \in Frame
  BY DEF JunkFrame, Frame, RegVal
<1>2. curenv = None /\ EnvRun(e, None, JunkFrame) /\ UNCHANGED <<status, seen>>
  BY DEF FirstIrq, User
<1>3. \A s \in Slots : status'[s] /= "free" => \A r \in Kept : tf[s][r] = seen[s][r]
  BY <1>2, OthersWait
<1>4. /\ tf \in [Slots -> Frame] /\ seen \in [Slots -> [Reg -> RegVal]]
      /\ status' \in [Slots -> SlotStatus] /\ status'[e] = "ready"
  BY <1>2 DEF FirstIrq, IndInv, ContextTypeOK
<1> QED BY <1>1, <1>2, <1>3, <1>4, EnvRunSound

\* A program that computes disturbs its own registers only.
LEMMA ComputeSound == ASSUME IndInv, NEW v \in Versions, Compute(v) PROVE IndInv'
<1> DEFINE r == [x \in Reg |-> <<curenv, v>>]
<1>1. /\ curenv \in Slots /\ regs' = r /\ seen' = [seen EXCEPT ![curenv] = r]
      /\ UNCHANGED <<curenv, tf, timestack, status>>
  BY DEF Compute, User, IndInv, ContextTypeOK
<1>2. r \in [Reg -> RegVal]
  BY <1>1 DEF RegVal
<1> HIDE DEF r
<1>3. /\ seen' \in [Slots -> [Reg -> RegVal]] /\ seen'[curenv] = r
      /\ \A s \in Slots \ {curenv} : seen'[s] = seen[s]
  BY <1>1, <1>2 DEF IndInv, ContextTypeOK
<1>4. ContextTypeOK'
  BY <1>1, <1>2, <1>3 DEF IndInv, ContextTypeOK
<1>5. ResumesIntact' /\ WaitsIntact'
  BY <1>1, <1>3 DEF IndInv, ResumesIntact, WaitsIntact
<1> QED BY <1>1, <1>4, <1>5 DEF IndInv, RunningHasSlot, User

\* An interrupt or a call that gives the processor away, self-destruction included.
LEMMA SwitchSound ==
    ASSUME IndInv, User, NEW e \in Slots, NEW cur \in {curenv, None},
           NEW st \in SlotStatus, cur = None => st = "free",
           status' = [status EXCEPT ![curenv] = st], status'[e] = "ready",
           EnvRun(e, cur, SaveAll), seen' = seen
    PROVE  IndInv'
<1>1. curenv \in Slots /\ SaveAll \in Frame /\ Saves(SaveAll, seen[curenv])
  BY SaveAllSaves DEF User, IndInv, ContextTypeOK
<1>2. /\ tf \in [Slots -> Frame] /\ seen \in [Slots -> [Reg -> RegVal]]
      /\ status' \in [Slots -> SlotStatus]
      /\ status'[curenv] = st /\ \A s \in Slots \ {curenv} : status'[s] = status[s]
  BY <1>1 DEF IndInv, ContextTypeOK
<1>3. \A s \in Slots \ {cur} : status'[s] /= "free" => \A r \in Kept : tf[s][r] = seen[s][r]
  BY <1>1, <1>2, OthersWait
<1> QED BY <1>1, <1>2, <1>3, EnvRunSound

\* A timer interrupt, whoever comes next.
LEMMA HandleIrqSound == ASSUME IndInv, NEW e \in Slots, HandleIrq(e) PROVE IndInv'
<1>1. status[curenv] \in SlotStatus /\ curenv \in Slots /\ curenv /= None
  BY DEF HandleIrq, User, IndInv, ContextTypeOK
<1>2. status' = [status EXCEPT ![curenv] = status[curenv]] /\ status'[e] = "ready"
  BY <1>1 DEF HandleIrq, IndInv, ContextTypeOK
<1>3. User /\ curenv \in {curenv, None} /\ EnvRun(e, curenv, SaveAll) /\ seen' = seen
  BY DEF HandleIrq
<1> QED BY <1>1, <1>2, <1>3, SwitchSound

\* sys_yield and sys_ipc_recv.
LEMMA SysSwitchSound ==
    ASSUME IndInv, NEW e \in Slots, NEW mine \in Living, SysSwitch(e, mine)
    PROVE  IndInv'
<1>1. curenv /= None
  BY DEF SysSwitch, User
<1> QED BY <1>1, SwitchSound DEF SysSwitch, KernelSp, SlotStatus

\* An environment that ends leaves no frame behind to save.
LEMMA DestroySelfSound == ASSUME IndInv, NEW e \in Slots, SysEnvDestroySelf(e) PROVE IndInv'
<1>1. EnvRun(e, None, SaveAll) /\ seen' = seen
  BY DEF SysEnvDestroySelf, KernelSp
<1> QED BY <1>1, SwitchSound DEF SysEnvDestroySelf, SlotStatus

\* The end of el0_sync gives the caller its registers back, and the result in x0.
LEMMA ReturnSound ==
    ASSUME IndInv, Return
    PROVE  /\ curenv \in Slots /\ KernelSp \in Frame /\ regs' \in [Reg -> RegVal]
           /\ regs'["x0"] = Ret /\ \A r \in Kept \ {"x0"} : regs'[r] = seen[curenv][r]
           /\ UNCHANGED <<curenv, timestack>>
<1>1. curenv \in Slots /\ KernelSp \in Frame /\ UNCHANGED <<curenv, timestack>>
  BY SaveAllSaves DEF Return, User, IndInv, ContextTypeOK, KernelSp
<1>2. regs' = SyscallExit(KernelSp, Ret) /\ Junk \in RegVal /\ Ret \in RegVal
  BY DEF Return, RegVal
<1>3. \A r \in Reg \ {"x0", "x16"} : regs'[r] = regs[r]
  BY <1>2 DEF SyscallExit, KernelSp, SaveAll, Reg, FrameField
<1>4. regs' \in [Reg -> RegVal] /\ regs'["x0"] = Ret
  BY <1>1, <1>2 DEF SyscallExit, Frame, Reg, FrameField
<1> QED BY <1>1, <1>3, <1>4 DEF Kept, IndInv, ResumesIntact, Return

\* The calls that return to their caller and change at most a status.
LEMMA SysReturnSound ==
    ASSUME IndInv, NEW e \in Slots, NEW st \in SlotStatus, SysReturn(e, st)
    PROVE  IndInv'
<1>1. /\ curenv \in Slots /\ regs' \in [Reg -> RegVal]
      /\ regs'["x0"] = Ret /\ \A r \in Kept \ {"x0"} : regs'[r] = seen[curenv][r]
      /\ UNCHANGED <<curenv, timestack>>
  BY ReturnSound DEF SysReturn
<1>2. tf' = tf /\ status' = [status EXCEPT ![e] = st] /\ seen' = [seen EXCEPT ![curenv]["x0"] = Ret]
  BY DEF SysReturn
<1>3. /\ status \in [Slots -> SlotStatus] /\ status[curenv] \in Living
      /\ st /= "free" => status[e] /= "free"
      /\ e = curenv => st \in Living
  BY DEF SysReturn, Return, IndInv, RunningHasSlot, ContextTypeOK, Living
<1>4. Ret \in RegVal /\ "x0" \in Reg
  BY DEF RegVal, Reg
<1>5. /\ seen' \in [Slots -> [Reg -> RegVal]] /\ seen'[curenv]["x0"] = Ret
      /\ \A r \in Reg \ {"x0"} : seen'[curenv][r] = seen[curenv][r]
      /\ \A s \in Slots \ {curenv} : seen'[s] = seen[s]
  BY <1>1, <1>2, <1>4 DEF IndInv, ContextTypeOK
<1>6. ContextTypeOK'
  BY <1>1, <1>2, <1>5 DEF IndInv, ContextTypeOK
<1>7. RunningHasSlot'
  <2>1. status'[curenv] \in Living
    BY <1>1, <1>2, <1>3
  <2> QED BY <1>1, <2>1 DEF RunningHasSlot
<1>8. ResumesIntact'
  BY <1>1, <1>5 DEF ResumesIntact, Kept
<1>9. WaitsIntact'
  <2> SUFFICES ASSUME NEW s \in Slots \ {curenv}, status'[s] /= "free", NEW r \in Kept
               PROVE  tf[s][r] = seen[s][r]
    BY <1>1, <1>2, <1>5 DEF WaitsIntact
  <2>1. status[s] /= "free"
    BY <1>2, <1>3 DEF IndInv, ContextTypeOK
  <2> QED BY <2>1, OthersWait
<1> QED BY <1>1, <1>6, <1>7, <1>8, <1>9 DEF IndInv

\* The child is a slot that was free, and so not the caller's.
LEMMA ForkSound ==
    ASSUME IndInv, NEW child \in Slots, NEW st \in {"ready", "blocked"}, SysEnvAlloc(child, st)
    PROVE  IndInv'
<1> DEFINE frame == [KernelSp EXCEPT !["x0"] = Zero]
           expect == [seen[curenv] EXCEPT !["x0"] = Zero]
<1>1. /\ curenv \in Slots /\ KernelSp \in Frame /\ regs' \in [Reg -> RegVal]
      /\ regs'["x0"] = Ret /\ \A r \in Kept \ {"x0"} : regs'[r] = seen[curenv][r]
      /\ UNCHANGED <<curenv, timestack>>
  BY ReturnSound DEF SysEnvAlloc
<1>2. status[curenv] \in Living /\ status[child] = "free" /\ st \in Living /\ child /= curenv
  BY DEF SysEnvAlloc, Return, IndInv, RunningHasSlot, Living
<1>3. /\ status' = [status EXCEPT ![child] = st] /\ tf' = [tf EXCEPT ![child] = frame]
      /\ seen' = [seen EXCEPT ![child] = expect, ![curenv]["x0"] = Ret]
  BY DEF SysEnvAlloc
<1>4. /\ Zero \in RegVal /\ Ret \in RegVal /\ "x0" \in Reg /\ "x0" \in FrameField
      /\ seen[curenv] \in [Reg -> RegVal]
  BY <1>1 DEF RegVal, Reg, FrameField, IndInv, ContextTypeOK
<1>5. frame \in Frame /\ expect \in [Reg -> RegVal] /\ \A r \in Kept : frame[r] = expect[r]
  <2>1. frame \in Frame /\ expect \in [Reg -> RegVal]
    BY <1>1, <1>4 DEF Frame
  <2>2. frame["x0"] = Zero /\ expect["x0"] = Zero
    BY <1>1, <1>4 DEF Frame
  <2>3. \A r \in Kept \ {"x0"} : frame[r] = KernelSp[r] /\ expect[r] = seen[curenv][r]
    BY <1>1, <1>4 DEF Frame, Kept, Reg, FrameField
  <2>4. \A r \in Kept : KernelSp[r] = seen[curenv][r]
    BY DEF KernelSp, SaveAll, Kept, Reg, FrameField, SysEnvAlloc, Return, IndInv, ResumesIntact
  <2> QED BY <2>1, <2>2, <2>3, <2>4
<1> HIDE DEF frame, expect
<1>6. /\ seen' \in [Slots -> [Reg -> RegVal]] /\ seen'[child] = expect
      /\ seen'[curenv]["x0"] = Ret
      /\ \A r \in Reg \ {"x0"} : seen'[curenv][r] = seen[curenv][r]
      /\ \A s \in Slots \ {curenv, child} : seen'[s] = seen[s]
  BY <1>1, <1>2, <1>3, <1>4, <1>5 DEF IndInv, ContextTypeOK
<1>7. ContextTypeOK'
  BY <1>1, <1>2, <1>3, <1>5, <1>6 DEF IndInv, ContextTypeOK, SlotStatus
<1>8. RunningHasSlot'
  BY <1>1, <1>2, <1>3 DEF RunningHasSlot, IndInv, ContextTypeOK
<1>9. ResumesIntact'
  BY <1>1, <1>6 DEF ResumesIntact, Kept
<1>10. WaitsIntact'
  <2> SUFFICES ASSUME NEW s \in Slots \ {curenv}, status'[s] /= "free", NEW r \in Kept
               PROVE  tf'[s][r] = seen'[s][r]
    BY <1>1 DEF WaitsIntact
  <2>1. CASE s = child
    BY <1>3, <1>5, <1>6, <2>1 DEF IndInv, ContextTypeOK
  <2>2. CASE s /= child
    <3>1. tf'[s] = tf[s] /\ seen'[s] = seen[s] /\ status'[s] = status[s]
      BY <1>3, <1>6, <2>2 DEF IndInv, ContextTypeOK
    <3> QED BY <3>1, OthersWait
  <2> QED BY <2>1, <2>2
<1> QED BY <1>1, <1>7, <1>8, <1>9, <1>10 DEF IndInv

\* The invariant is about the variables alone.
LEMMA StutterSound == IndInv /\ UNCHANGED vars => IndInv'
BY DEF IndInv, vars, ContextTypeOK, RunningHasSlot, User, ResumesIntact, WaitsIntact

-----------------------------------------------------------------------------
\* The invariant holds whatever programs run and whenever they are interrupted.
THEOREM Invariant == Spec => []IndInv
<1>1. IndInv /\ [Next]_vars => IndInv'
  <2> SUFFICES ASSUME IndInv, [Next]_vars PROVE IndInv'
    OBVIOUS
  <2>1. CASE \E e \in Slots : FirstIrq(e)
    BY <2>1, FirstIrqSound
  <2>2. CASE \E v \in Versions : Compute(v)
    BY <2>2, ComputeSound
  <2>3. CASE \E e \in Slots : HandleIrq(e)
    BY <2>3, HandleIrqSound
  <2>4. CASE \E e \in Slots, mine \in Living : SysSwitch(e, mine)
    BY <2>4, SysSwitchSound
  <2>5. CASE \E e \in Slots : SysEnvDestroySelf(e)
    BY <2>5, DestroySelfSound
  <2>6. CASE \E e \in Slots, st \in SlotStatus : SysReturn(e, st)
    BY <2>6, SysReturnSound
  <2>7. CASE \E child \in Slots, st \in {"ready", "blocked"} : SysEnvAlloc(child, st)
    BY <2>7, ForkSound
  <2>8. CASE UNCHANGED vars
    BY <2>8, StutterSound
  <2> QED BY <2>1, <2>2, <2>3, <2>4, <2>5, <2>6, <2>7, <2>8 DEF Next
<1> QED BY InitSound, <1>1, PTL DEF Spec

\* Register files and frames keep their types.
THEOREM TypeCorrect == Spec => []ContextTypeOK
<1>1. IndInv => ContextTypeOK
  BY DEF IndInv
<1> QED BY <1>1, Invariant, PTL

\* A program continues after a trap with the registers it had, x16 and x17 excepted.
THEOREM ProgramsResume == Spec => []ResumesIntact
<1>1. IndInv => ResumesIntact
  BY DEF IndInv
<1> QED BY <1>1, Invariant, PTL

\* The frame of every environment that waits is complete, whoever runs meanwhile.
THEOREM FramesWait == Spec => []WaitsIntact
<1>1. IndInv => WaitsIntact
  BY DEF IndInv
<1> QED BY <1>1, Invariant, PTL
=============================================================================
