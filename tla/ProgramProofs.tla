---------------------------- MODULE ProgramProofs ---------------------------
(***************************************************************************)
(* The programs of user/ on the kernel: messages arrive exactly once and   *)
(* in order, for every number of senders and messages, and the two players *)
(* of user_main_pingpong take turns.                                       *)
(***************************************************************************)
EXTENDS Ipc, PingPong, EnvProofs

-----------------------------------------------------------------------------
(* What both programs rely on: the library and the processor.              *)

\* The types of the table and of the library's variables.
LibRecord == [at : LibAt, whom : Nat, val : Nat, who : Nat, got : Nat]
TableTypes ==
    envs \in [Slot -> [status : Status, id : Nat, parent : Nat,
                       recving : {0, 1}, value : Nat, from : Nat]]
LibTypes ==
    /\ TableTypes
    /\ lib \in [Slot -> LibRecord]
    /\ pos \in -1..(NENV - 1)

\* In user mode the running environment is runnable: a program that waits takes no step.
ProcessorInv == mode = "user" => curenv \in Slot /\ Runnable(envs, curenv)

\* The boot loop makes the id of slot s from s + 1.
LEMMA BootIds ==
    ASSUME NEW c \in Slot
    PROVE  Me(c) \in Nat /\ Me(c) > 0 /\ ENVX(Me(c)) = c
<1>1. c + 1 \in Nat \ {0}
  BY DEF Slot
<1> QED BY <1>1, IdIsPositive, IdLeadsToSlot DEF Me

\* Different slots have different ids.
LEMMA BootIdsDiffer ==
    ASSUME NEW c \in Slot, NEW d \in Slot, Me(c) = Me(d)
    PROVE  c = d
BY BootIds

\* What env_create leaves in a slot.
LEMMA BootRecord ==
    ASSUME NEW r, NEW i
    PROVE  [FreeEnv EXCEPT !.status = r, !.id = i]
           = [status |-> r, id |-> i, parent |-> 0, recving |-> 0, value |-> 0, from |-> 0]
<1>1. [FreeEnv EXCEPT !.status = r, !.id = i] = [[FreeEnv EXCEPT !.status = r] EXCEPT !.id = i]
  BY DEF FreeEnv
<1>2. [FreeEnv EXCEPT !.status = r]
      = [status |-> r, id |-> 0, parent |-> 0, recving |-> 0, value |-> 0, from |-> 0]
  BY DEF FreeEnv
<1>3. [[status |-> r, id |-> 0, parent |-> 0, recving |-> 0, value |-> 0, from |-> 0]
          EXCEPT !.id = i]
      = [status |-> r, id |-> i, parent |-> 0, recving |-> 0, value |-> 0, from |-> 0]
  OBVIOUS
<1>4. [[FreeEnv EXCEPT !.status = r] EXCEPT !.id = i]
      = [[status |-> r, id |-> 0, parent |-> 0, recving |-> 0, value |-> 0, from |-> 0]
          EXCEPT !.id = i]
  BY <1>2, Zenon
<1> QED BY <1>1, <1>3, <1>4, Zenon

\* envid2env on an id of the boot loop.
LEMMA FindsSlot ==
    ASSUME NEW c \in Slot, envs[c].id = Me(c)
    PROVE  Envid2Env(Me(c), FALSE) = IF envs[c].status = ENV_FREE THEN None ELSE c
BY BootIds DEF Envid2Env

\* A rescheduling, by the timer or by a call, of a table es that becomes envs'.
LEMMA Reschedules ==
    ASSUME NEW es, NEW cur, pos \in -1..(NENV - 1), SchedYield(es, cur), es = envs'
    PROVE  ProcessorInv' /\ pos' \in -1..(NENV - 1)
<1>1. \A s \in Slot : s \in -1..(NENV - 1)
  BY DEF Slot
<1> QED BY <1>1, YieldPicksRunnable DEF ProcessorInv, Runnable

\* sys_ipc_can_send to e, by an environment that goes on running.
LEMMA SendTakes ==
    ASSUME LibTypes, ProcessorInv, NEW e \in Slot, NEW id, Envid2Env(id, FALSE) = e,
           NEW value \in Nat, SysIpcCanSend(id, value)
    PROVE  /\ TableTypes' /\ ProcessorInv' /\ pos' = pos /\ Receiving(e)
           /\ envs'[e].value = value /\ envs'[e].from = envs[curenv].id
           /\ envs'[e].recving = 0 /\ envs'[e].status = ENV_RUNNABLE
           /\ envs'[e].id = envs[e].id
           /\ \A s \in Slot : s /= e => envs'[s] = envs[s]
<1>1. /\ envs' = [envs EXCEPT ![e] = [@ EXCEPT
             !.value = value, !.from = envs[curenv].id, !.recving = 0, !.status = ENV_RUNNABLE]]
      /\ UNCHANGED <<curenv, pos, mode>> /\ mode = "user" /\ Receiving(e)
  BY DEF SysIpcCanSend
<1>2. envs[curenv].id \in Nat /\ ENV_RUNNABLE \in Status
  BY <1>1 DEF ProcessorInv, LibTypes, TableTypes, Status
<1>3. TableTypes'
  <2>1. PICK R : R = [status : Status, id : Nat, parent : Nat, recving : {0, 1}, value : Nat, from : Nat]
    OBVIOUS
  <2>2. envs \in [Slot -> R] /\ envs[e] \in R
    BY <2>1 DEF LibTypes, TableTypes
  <2>3. PICK r : r = [envs[e] EXCEPT !.value = value, !.from = envs[curenv].id,
                                     !.recving = 0, !.status = ENV_RUNNABLE]
    OBVIOUS
  <2>4. r \in R
    BY ONLY <1>2, <2>1, <2>2, <2>3, value \in Nat
  <2>5. envs' = [envs EXCEPT ![e] = r]
    BY ONLY <1>1, <2>3
  <2>6. envs' \in [Slot -> R]
    BY ONLY <2>2, <2>4, <2>5
  <2> QED BY ONLY <2>1, <2>6 DEF TableTypes
<1>4. /\ envs'[e].value = value /\ envs'[e].from = envs[curenv].id
      /\ envs'[e].recving = 0 /\ envs'[e].status = ENV_RUNNABLE
      /\ envs'[e].id = envs[e].id
      /\ \A s \in Slot : s /= e => envs'[s] = envs[s]
  BY <1>1 DEF LibTypes, TableTypes
<1>5. ProcessorInv'
  BY <1>1, <1>4 DEF ProcessorInv, Runnable
<1> QED BY <1>1, <1>3, <1>4, <1>5

\* sys_ipc_recv: the caller waits, somebody else runs.
LEMMA RecvWaits ==
    ASSUME LibTypes, ProcessorInv, SysIpcRecv
    PROVE  /\ TableTypes' /\ ProcessorInv' /\ pos' \in -1..(NENV - 1)
           /\ envs'[curenv].recving = 1 /\ envs'[curenv].status = ENV_NOT_RUNNABLE
           /\ envs'[curenv].id = envs[curenv].id
           /\ \A s \in Slot : s /= curenv => envs'[s] = envs[s]
<1> DEFINE es == [envs EXCEPT ![curenv] = [@ EXCEPT !.status = ENV_NOT_RUNNABLE, !.recving = 1]]
<1>1. envs' = es /\ SchedYield(es, curenv) /\ curenv \in Slot
  BY DEF SysIpcRecv, ProcessorInv
<1>2. TableTypes'
  BY <1>1 DEF LibTypes, TableTypes, Status, ENV_NOT_RUNNABLE
<1>3. ProcessorInv' /\ pos' \in -1..(NENV - 1)
  BY <1>1, Reschedules DEF LibTypes
<1> QED BY <1>1, <1>2, <1>3 DEF LibTypes, TableTypes

-----------------------------------------------------------------------------
(* Ipc: the inductive invariant.                                           *)

\* How many messages of a sender ipc_recv has returned.
Arrived(c) == Cardinality(From(c))

SenderInv ==
    \A c \in Senders :
        /\ envs[c].status = ENV_RUNNABLE
        /\ lib[c].at \in {"user", "send", "yield"} /\ lib[c].val \in 0..Count
        /\ lib[c].at /= "user" => lib[c].whom = Me(Receiver) /\ lib[c].val >= 1

\* The receiver sleeps in sys_ipc_recv, or it is awake and its receiving flag is clear.
ReceiverInv ==
    \/ /\ lib[Receiver].at = "take"
       /\ envs[Receiver].status = ENV_NOT_RUNNABLE /\ envs[Receiver].recving = 1
    \/ /\ lib[Receiver].at \in {"user", "take", "takeValue"}
       /\ envs[Receiver].status = ENV_RUNNABLE /\ envs[Receiver].recving = 0

\* The message in flight is the last one its sender sent, all the others have arrived.
FlightInv ==
    IF InBox
    THEN \E c \in Senders :
            /\ envs[Receiver].from = Me(c) /\ envs[Receiver].value = Sent(c)
            /\ lib[Receiver].at = "takeValue" => lib[Receiver].who = Me(c)
            /\ Arrived(c) = Sent(c) - 1
            /\ \A d \in Senders \ {c} : Arrived(d) = Sent(d)
    ELSE \A c \in Senders : Arrived(c) = Sent(c)

\* What has arrived came from a sender, each message in its turn.
HistoryInv ==
    /\ received \in Seq([who : Nat, val : Nat])
    /\ \A i \in DOMAIN received : \E c \in Senders :
        /\ received[i].who = Me(c)
        /\ received[i].val = Cardinality({j \in From(c) : j <= i})

IpcInv ==
    /\ LibTypes /\ ProcessorInv /\ \A s \in Slot : envs[s].id = Me(s)
    /\ SenderInv /\ ReceiverInv /\ FlightInv /\ HistoryInv

\* The invariant looks at the history, at the messages the senders believe sent, and at
\* the receiver.
LEMMA FlightKept ==
    ASSUME FlightInv, HistoryInv, received' = received,
           \A c \in Senders : Sent(c)' = Sent(c),
           envs'[Receiver] = envs[Receiver], lib'[Receiver] = lib[Receiver]
    PROVE  FlightInv' /\ HistoryInv'
<1>1. \A c \in Senders : From(c)' = From(c) /\ Arrived(c)' = Arrived(c)
  BY DEF From, Arrived
<1>2. InBox' = InBox
  BY DEF InBox, Receiving
<1>3. HistoryInv'
  BY <1>1 DEF HistoryInv
<1>4. FlightInv'
  BY <1>1, <1>2 DEF FlightInv
<1> QED BY <1>3, <1>4

\* The timer.
LEMMA IpcTickSound == ASSUME IpcInv, IpcTick PROVE IpcInv'
<1>1. UNCHANGED <<envs, lib, received>> /\ SchedYield(envs, curenv)
  BY DEF IpcTick, Tick, HandleIrq
<1>2. ProcessorInv' /\ pos' \in -1..(NENV - 1)
  BY <1>1, Reschedules DEF IpcInv, LibTypes
<1>3. FlightInv' /\ HistoryInv'
  BY <1>1, FlightKept DEF IpcInv, Sent
<1> QED BY <1>1, <1>2, <1>3 DEF IpcInv, LibTypes, TableTypes, SenderInv, ReceiverInv

\* A sender calls ipc_send.
LEMMA SenderStepSound ==
    ASSUME IpcInv, NEW c \in Senders, SenderStep(c) PROVE IpcInv'
<1>1. /\ lib[c].at = "user" /\ lib[c].val < Count
      /\ lib' = [lib EXCEPT ![c].at = "send", ![c].whom = Me(Receiver), ![c].val = lib[c].val + 1]
      /\ UNCHANGED <<envs, curenv, pos, mode, received>>
  BY DEF SenderStep, CallSend, Running, vars
<1>2. c \in Slot /\ c /= Receiver /\ Receiver \in Slot /\ Count \in Nat
  BY IpcAssumption DEF Senders
<1>3. Me(Receiver) \in Nat /\ lib[c].val \in 0..Count
  BY <1>2, BootIds DEF IpcInv, SenderInv
<1>4. /\ lib' \in [Slot -> LibRecord] /\ \A d \in Slot \ {c} : lib'[d] = lib[d]
      /\ lib'[c].at = "send" /\ lib'[c].whom = Me(Receiver) /\ lib'[c].val = lib[c].val + 1
  BY <1>1, <1>2, <1>3 DEF IpcInv, LibTypes, LibRecord, LibAt
<1>5. \A d \in Senders : Sent(d)' = Sent(d)
  BY <1>1, <1>3, <1>4 DEF Sent, Senders
<1>6. FlightInv' /\ HistoryInv'
  BY <1>1, <1>2, <1>4, <1>5, FlightKept DEF IpcInv
<1>7. SenderInv'
  BY <1>1, <1>3, <1>4, <1>2 DEF IpcInv, SenderInv, Senders
<1> QED BY <1>1, <1>2, <1>4, <1>6, <1>7 DEF IpcInv, LibTypes, TableTypes, ReceiverInv, ProcessorInv

\* A sender in ipc_send: the receiver is awake, or the message is delivered.
LEMMA SendTrySound ==
    ASSUME IpcInv, NEW c \in Slot, SendTry(c), received' = received PROVE IpcInv'
<1>1. /\ mode = "user" /\ curenv = c /\ lib[c].at = "send" /\ Receiver \in Slot
      /\ c \in Senders /\ c /= Receiver
      /\ lib[c].whom = Me(Receiver) /\ lib[c].val \in 1..Count /\ Count \in Nat
  BY IpcAssumption DEF SendTry, Running, IpcInv, ReceiverInv, SenderInv, Senders
<1>2. Envid2Env(lib[c].whom, FALSE) = Receiver /\ Receiver /= None
  <2>1. envs[Receiver].id = Me(Receiver) /\ envs[Receiver].status /= ENV_FREE
    BY <1>1 DEF IpcInv, ReceiverInv, ENV_FREE, ENV_RUNNABLE, ENV_NOT_RUNNABLE
  <2>2. Envid2Env(Me(Receiver), FALSE) = Receiver
    BY <1>1, <2>1, FindsSlot
  <2>3. Receiver /= None
    BY <1>1 DEF Slot, None
  <2> QED BY <1>1, <2>2, <2>3
<1>3. CASE lib' = [lib EXCEPT ![c].at = "yield"] /\ UNCHANGED vars
  <2>1. /\ lib' \in [Slot -> LibRecord] /\ \A d \in Slot \ {c} : lib'[d] = lib[d]
        /\ lib'[c] = [lib[c] EXCEPT !.at = "yield"]
    BY <1>3 DEF IpcInv, LibTypes, LibRecord, LibAt
  <2>2. \A d \in Senders : Sent(d)' = Sent(d)
    BY <1>1, <2>1 DEF Sent, Senders, IpcInv, LibTypes, LibRecord
  <2>3. FlightInv' /\ HistoryInv'
    BY <1>1, <1>3, <2>1, <2>2, FlightKept DEF IpcInv, vars
  <2>4. SenderInv'
    BY <1>1, <1>3, <2>1 DEF IpcInv, SenderInv, Senders, LibTypes, LibRecord, vars
  <2> QED BY <1>1, <1>3, <2>1, <2>3, <2>4
          DEF IpcInv, LibTypes, TableTypes, ReceiverInv, ProcessorInv, vars
<1>4. CASE SysIpcCanSend(lib[c].whom, lib[c].val) /\ lib' = [lib EXCEPT ![c].at = "user"]
  <2>1. /\ lib' \in [Slot -> LibRecord] /\ \A d \in Slot \ {c} : lib'[d] = lib[d]
        /\ lib'[c] = [lib[c] EXCEPT !.at = "user"]
    BY <1>4 DEF IpcInv, LibTypes, LibRecord, LibAt
  <2>2. /\ TableTypes' /\ ProcessorInv' /\ pos' = pos /\ Receiving(Receiver)
        /\ envs'[Receiver].value = lib[c].val /\ envs'[Receiver].from = Me(c)
        /\ envs'[Receiver].recving = 0 /\ envs'[Receiver].status = ENV_RUNNABLE
        /\ \A s \in Slot : envs'[s].id = Me(s) /\ (s /= Receiver => envs'[s] = envs[s])
    <3>1. PICK id, value : id = lib[c].whom /\ value = lib[c].val
      OBVIOUS
    <3>2. value \in Nat
      BY <1>1, <3>1
    <3>3. Envid2Env(id, FALSE) = Receiver /\ SysIpcCanSend(id, value)
      BY <1>2, <1>4, <3>1
    <3> QED BY <1>1, <3>1, <3>2, <3>3, SendTakes DEF IpcInv
  <2>3. ~InBox /\ InBox' /\ lib[Receiver].at = "take"
    BY <1>1, <2>1, <2>2
    DEF InBox, Receiving, IpcInv, ReceiverInv, ENV_RUNNABLE, ENV_NOT_RUNNABLE
  <2>4. /\ Sent(c)' = lib[c].val /\ Sent(c) = lib[c].val - 1
        /\ \A d \in Senders \ {c} : Sent(d)' = Sent(d)
    BY <1>1, <2>1 DEF Sent, Senders, IpcInv, LibTypes, LibRecord
  <2>5. HistoryInv' /\ \A d \in Senders : Arrived(d)' = Arrived(d)
    BY DEF IpcInv, HistoryInv, Arrived, From
  <2>6. \A d \in Senders : Arrived(d) = Sent(d)
    BY <2>3 DEF IpcInv, FlightInv
  <2>7. FlightInv'
    <3>1. lib'[Receiver].at /= "takeValue"
      BY <1>1, <2>1, <2>3
    <3>2. /\ envs'[Receiver].from = Me(c) /\ envs'[Receiver].value = Sent(c)'
          /\ Arrived(c)' = Sent(c)' - 1
          /\ \A d \in Senders \ {c} : Arrived(d)' = Sent(d)'
      BY <1>1, <2>2, <2>4, <2>5, <2>6
    <3> QED BY <1>1, <2>3, <3>1, <3>2 DEF FlightInv
  <2>8. SenderInv'
    BY <1>1, <2>1, <2>2 DEF IpcInv, SenderInv, Senders, LibTypes, LibRecord
  <2>9. ReceiverInv'
    BY <1>1, <2>1, <2>2, <2>3 DEF ReceiverInv
  <2> QED BY <2>1, <2>2, <2>5, <2>7, <2>8, <2>9 DEF IpcInv, LibTypes
<1> QED BY <1>2, <1>3, <1>4 DEF SendTry

\* ipc_send gives up its slice when the receiver is not ready.
LEMMA SendYieldSound ==
    ASSUME IpcInv, NEW c \in Slot, SendYield(c), received' = received PROVE IpcInv'
<1>1. /\ lib[c].at = "yield" /\ Receiver \in Slot /\ c \in Senders /\ c /= Receiver
      /\ lib' = [lib EXCEPT ![c].at = "send"]
      /\ UNCHANGED envs /\ SchedYield(envs, curenv)
  BY IpcAssumption DEF SendYield, SysYield, Running, IpcInv, ReceiverInv, Senders
<1>2. /\ lib' \in [Slot -> LibRecord] /\ \A d \in Slot \ {c} : lib'[d] = lib[d]
      /\ lib'[c] = [lib[c] EXCEPT !.at = "send"]
  BY <1>1 DEF IpcInv, LibTypes, LibRecord, LibAt
<1>3. \A d \in Senders : Sent(d)' = Sent(d)
  BY <1>1, <1>2 DEF Sent, Senders, IpcInv, LibTypes, LibRecord
<1>4. FlightInv' /\ HistoryInv'
  BY <1>1, <1>2, <1>3, FlightKept DEF IpcInv
<1>5. SenderInv'
  BY <1>1, <1>2 DEF IpcInv, SenderInv, Senders, LibTypes, LibRecord
<1>6. ProcessorInv' /\ pos' \in -1..(NENV - 1)
  BY <1>1, Reschedules DEF IpcInv, LibTypes
<1> QED BY <1>1, <1>2, <1>4, <1>5, <1>6 DEF IpcInv, LibTypes, TableTypes, ReceiverInv

\* The receiver calls ipc_recv.
LEMMA CallRecvSound ==
    ASSUME IpcInv, CallRecv(Receiver), received' = received PROVE IpcInv'
<1>1. /\ lib[Receiver].at = "user" /\ Receiver \in Slot /\ curenv = Receiver
      /\ lib' = [lib EXCEPT ![Receiver].at = "take"] /\ SysIpcRecv
  BY IpcAssumption DEF CallRecv, Running
<1>2. /\ lib' \in [Slot -> LibRecord] /\ \A d \in Slot \ {Receiver} : lib'[d] = lib[d]
      /\ lib'[Receiver].at = "take"
  BY <1>1 DEF IpcInv, LibTypes, LibRecord, LibAt
<1>3. /\ TableTypes' /\ ProcessorInv' /\ pos' \in -1..(NENV - 1)
      /\ envs'[Receiver].recving = 1 /\ envs'[Receiver].status = ENV_NOT_RUNNABLE
      /\ \A s \in Slot : envs'[s].id = Me(s) /\ (s /= Receiver => envs'[s] = envs[s])
  BY <1>1, RecvWaits DEF IpcInv
<1>4. ~InBox /\ ~InBox'
  BY <1>1, <1>3 DEF InBox, Receiving
<1>5. \A d \in Senders : Sent(d)' = Sent(d) /\ Arrived(d)' = Arrived(d)
  BY <1>2 DEF Sent, Senders, Arrived, From
<1>6. FlightInv'
  BY <1>4, <1>5 DEF IpcInv, FlightInv
<1>7. HistoryInv'
  <2>1. HistoryInv
    BY DEF IpcInv
  <2>2. \A d \in Senders : From(d)' = From(d)
    BY DEF From
  <2> QED BY ONLY <2>1, <2>2, received' = received DEF HistoryInv
<1>8. SenderInv' /\ ReceiverInv'
  BY <1>1, <1>2, <1>3 DEF IpcInv, SenderInv, ReceiverInv, Senders
<1> QED BY <1>2, <1>3, <1>6, <1>7, <1>8 DEF IpcInv, LibTypes

\* ipc_recv, awake again, reads who sent.
LEMMA TakeWhoSound ==
    ASSUME IpcInv, NEW c \in Slot, TakeWho(c), received' = received PROVE IpcInv'
<1>1. /\ lib[c].at = "take" /\ c = Receiver /\ curenv = Receiver /\ mode = "user"
      /\ lib' = [lib EXCEPT ![c].who = envs[c].from, ![c].at = "takeValue"] /\ UNCHANGED vars
  BY DEF TakeWho, Running, IpcInv, SenderInv, Senders
<1>2. /\ envs[Receiver].status = ENV_RUNNABLE /\ envs[Receiver].recving = 0
      /\ ~Receiving(Receiver) /\ InBox
  BY <1>1 DEF IpcInv, ProcessorInv, Runnable, ReceiverInv, InBox, Receiving,
              ENV_RUNNABLE, ENV_NOT_RUNNABLE
<1>3. /\ lib' \in [Slot -> LibRecord] /\ \A d \in Slot \ {c} : lib'[d] = lib[d]
      /\ lib'[c].at = "takeValue" /\ lib'[c].who = envs[c].from
  BY <1>1 DEF IpcInv, LibTypes, TableTypes, LibRecord, LibAt
<1>4. InBox'
  BY <1>1, <1>2, <1>3 DEF InBox, Receiving, vars
<1>5. \A d \in Senders : Sent(d)' = Sent(d) /\ Arrived(d)' = Arrived(d)
  BY <1>1, <1>3 DEF Sent, Senders, Arrived, From
<1>6. FlightInv'
  BY <1>1, <1>2, <1>3, <1>4, <1>5 DEF IpcInv, FlightInv, vars
<1>7. HistoryInv'
  <2>1. HistoryInv
    BY DEF IpcInv
  <2>2. \A d \in Senders : From(d)' = From(d)
    BY DEF From
  <2> QED BY ONLY <2>1, <2>2, received' = received DEF HistoryInv
<1>8. SenderInv' /\ ReceiverInv'
  BY <1>1, <1>2, <1>3 DEF IpcInv, SenderInv, ReceiverInv, Senders, vars
<1> QED BY <1>1, <1>3, <1>6, <1>7, <1>8 DEF IpcInv, LibTypes, TableTypes, ProcessorInv, vars

\* The places of a sender's messages are finitely many.
LEMMA PlacesFinite ==
    ASSUME HistoryInv, NEW d
    PROVE  /\ From(d) \subseteq 1..Len(received) /\ IsFiniteSet(From(d))
           /\ Arrived(d) \in Nat
<1>1. Len(received) \in Nat /\ DOMAIN received = 1..Len(received)
  BY DEF HistoryInv
<1>2. From(d) \subseteq 1..Len(received) /\ IsFiniteSet(1..Len(received))
  BY <1>1, FS_Interval DEF From
<1> QED BY <1>2, FS_Subset, FS_CardinalityType DEF Arrived

\* A message at the end of the history.
LEMMA HistoryGrows ==
    ASSUME HistoryInv, NEW c \in Senders, Receiver \in Slot, NEW m \in [who : Nat, val : Nat],
           m.who = Me(c), received' = Append(received, m), m.val = Arrived(c) + 1
    PROVE  /\ HistoryInv' /\ Arrived(c)' = Arrived(c) + 1
           /\ \A d \in Senders \ {c} : Arrived(d)' = Arrived(d)
<1> DEFINE n == Len(received)
<1>1. /\ n \in Nat /\ DOMAIN received = 1..n /\ DOMAIN received' = 1..(n + 1)
      /\ received' \in Seq([who : Nat, val : Nat]) /\ received'[n + 1] = m
      /\ \A i \in 1..n : received'[i] = received[i]
  BY DEF HistoryInv
<1> HIDE DEF n
<1>2. From(c)' = From(c) \union {n + 1} /\ n + 1 \notin From(c)
  BY <1>1 DEF From
<1>3. ASSUME NEW d \in Senders, d /= c PROVE From(d)' = From(d)
  <2>1. Me(d) /= Me(c)
    BY <1>3, BootIdsDiffer DEF Senders
  <2> QED BY <1>1, <2>1 DEF From
<1>4. Arrived(c)' = Arrived(c) + 1
  BY <1>2, PlacesFinite, FS_AddElement DEF Arrived
<1>5. ASSUME NEW d \in Senders, NEW i \in 1..n
      PROVE  {j \in From(d)' : j <= i} = {j \in From(d) : j <= i}
  <2>1. PICK now, old : now = From(d)' /\ old = From(d)
    OBVIOUS
  <2>2. now = old \/ now = old \union {n + 1}
    BY <1>2, <1>3, <2>1
  <2>3. {j \in now : j <= i} = {j \in old : j <= i}
    BY <1>1, <2>2
  <2> QED BY <2>1, <2>3
<1>6. {j \in From(c)' : j <= n + 1} = From(c)'
  BY <1>1 DEF From
<1>7. \A i \in DOMAIN received' : \E d \in Senders :
        /\ received'[i].who = Me(d)
        /\ received'[i].val = Cardinality({j \in From(d)' : j <= i})
  <2> SUFFICES ASSUME NEW i \in 1..(n + 1)
               PROVE  \E d \in Senders :
                        /\ received'[i].who = Me(d)
                        /\ received'[i].val = Cardinality({j \in From(d)' : j <= i})
    BY <1>1
  <2>1. CASE i = n + 1
    BY <1>1, <1>4, <1>6, <2>1 DEF Arrived
  <2>2. CASE i \in 1..n
    <3>1. PICK b \in Senders : /\ received[i].who = Me(b)
                               /\ received[i].val = Cardinality({j \in From(b) : j <= i})
      BY <1>1, <2>2 DEF HistoryInv
    <3>2. {j \in From(b)' : j <= i} = {j \in From(b) : j <= i}
      BY <1>5, <2>2
    <3>3. received'[i].who = Me(b) /\ received'[i].val = Cardinality({j \in From(b)' : j <= i})
      BY <1>1, <2>2, <3>1, <3>2
    <3> QED BY <3>3
  <2>3. i = n + 1 \/ i \in 1..n
    BY <1>1
  <2> QED BY <2>1, <2>2, <2>3
<1>8. HistoryInv'
  BY <1>1, <1>7 DEF HistoryInv
<1> QED BY <1>3, <1>4, <1>8 DEF Arrived

\* ipc_recv reads the value and returns.
LEMMA ReturnSound == ASSUME IpcInv, Return PROVE IpcInv'
<1>1. /\ lib[Receiver].at = "takeValue" /\ Receiver \in Slot
      /\ lib' = [lib EXCEPT ![Receiver].got = envs[Receiver].value, ![Receiver].at = "user"]
      /\ UNCHANGED vars
  BY IpcAssumption DEF Return, TakeValue, Running
<1>2. /\ lib' \in [Slot -> LibRecord] /\ \A d \in Slot \ {Receiver} : lib'[d] = lib[d]
      /\ lib'[Receiver].at = "user" /\ lib'[Receiver].who = lib[Receiver].who
      /\ lib'[Receiver].got = envs[Receiver].value
  BY <1>1 DEF IpcInv, LibTypes, TableTypes, LibRecord, LibAt
<1>3. /\ envs[Receiver].status = ENV_RUNNABLE /\ envs[Receiver].recving = 0
      /\ InBox /\ ~InBox'
  BY <1>1, <1>2 DEF IpcInv, ReceiverInv, InBox, Receiving, ENV_RUNNABLE, ENV_NOT_RUNNABLE
<1>4. PICK c \in Senders :
        /\ envs[Receiver].value = Sent(c) /\ lib[Receiver].who = Me(c)
        /\ Arrived(c) = Sent(c) - 1 /\ \A d \in Senders \ {c} : Arrived(d) = Sent(d)
  BY <1>1, <1>3 DEF IpcInv, FlightInv
<1>5. PICK m : m = [who |-> lib'[Receiver].who, val |-> lib'[Receiver].got]
  OBVIOUS
<1>6. /\ received' = Append(received, m) /\ m \in [who : Nat, val : Nat]
      /\ m.who = Me(c) /\ m.val = Arrived(c) + 1
  <2>1. Arrived(c) \in Nat
    BY PlacesFinite DEF IpcInv
  <2>2. received' = Append(received, m) /\ m.who = Me(c) /\ m.val = Sent(c)
    BY <1>2, <1>4, <1>5 DEF Return
  <2>3. Me(c) \in Nat
    BY BootIds DEF Senders
  <2>4. Sent(c) \in Nat
    BY <1>1, <1>4 DEF IpcInv, LibTypes, TableTypes
  <2>5. Sent(c) = Arrived(c) + 1
    BY <1>4, <2>1, <2>4
  <2> QED BY <1>5, <2>2, <2>3, <2>4, <2>5
<1>7. /\ HistoryInv' /\ Arrived(c)' = Arrived(c) + 1
      /\ \A d \in Senders \ {c} : Arrived(d)' = Arrived(d)
  BY <1>1, <1>6, HistoryGrows DEF IpcInv
<1>8. \A d \in Senders : Sent(d)' = Sent(d)
  BY <1>2 DEF Sent, Senders
<1>9. FlightInv'
  <2>1. Arrived(c)' = Sent(c)'
    <3>1. Arrived(c) \in Nat /\ Sent(c) \in Nat
      BY <1>1, <1>4, PlacesFinite DEF IpcInv, LibTypes, TableTypes
    <3> QED BY <1>4, <1>7, <1>8, <3>1
  <2>2. ASSUME NEW d \in Senders, d /= c PROVE Arrived(d)' = Sent(d)'
    BY <1>4, <1>7, <1>8, <2>2
  <2> QED BY <1>3, <2>1, <2>2 DEF FlightInv
<1>10. SenderInv' /\ ReceiverInv'
  BY <1>1, <1>2, <1>3 DEF IpcInv, SenderInv, ReceiverInv, Senders, vars
<1> QED BY <1>1, <1>2, <1>7, <1>9, <1>10 DEF IpcInv, LibTypes, TableTypes, ProcessorInv, vars

\* Nothing happens.
LEMMA IpcStutterSound == ASSUME IpcInv, UNCHANGED ipcVars PROVE IpcInv'
<1>1. UNCHANGED vars /\ lib' = lib /\ received' = received
  BY DEF ipcVars
<1>2. FlightInv' /\ HistoryInv'
  BY <1>1, FlightKept DEF IpcInv, Sent, vars
<1> QED BY <1>1, <1>2
        DEF IpcInv, LibTypes, TableTypes, ProcessorInv, SenderInv, ReceiverInv, vars

\* Every step of the programs.
LEMMA IpcStepSound == IpcInv /\ [IpcNext]_ipcVars => IpcInv'
<1> SUFFICES ASSUME IpcInv, [IpcNext]_ipcVars PROVE IpcInv'
  OBVIOUS
<1>1. ASSUME NEW c \in Slot, LibStep(c), received' = received PROVE IpcInv'
  BY <1>1, SendTrySound, SendYieldSound, TakeWhoSound DEF LibStep
<1>2. ASSUME NEW c \in Senders, SenderStep(c) PROVE IpcInv'
  BY <1>2, SenderStepSound
<1>3. ASSUME CallRecv(Receiver), received' = received PROVE IpcInv'
  BY <1>3, CallRecvSound
<1>4. CASE Return
  BY <1>4, ReturnSound
<1>5. CASE IpcTick
  BY <1>5, IpcTickSound
<1>6. CASE UNCHANGED ipcVars
  BY <1>6, IpcStutterSound
<1> QED BY <1>1, <1>2, <1>3, <1>4, <1>5, <1>6 DEF IpcNext, IpcStep

\* main has created the environments; nobody has called anything.
LEMMA IpcInitSound == IpcInit => IpcInv
<1> SUFFICES ASSUME IpcInit PROVE IpcInv
  OBVIOUS
<1>1. Receiver \in Slot /\ Count \in Nat /\ pos = -1 /\ mode = "boot" /\ received = <<>>
  BY IpcAssumption DEF IpcInit, BootedEnvs
<1>2. /\ envs = [s \in Slot |-> [status |-> ENV_RUNNABLE, id |-> Me(s), parent |-> 0,
                                recving |-> 0, value |-> 0, from |-> 0]]
      /\ lib = [s \in Slot |-> [at |-> "user", whom |-> 0, val |-> 0, who |-> 0, got |-> 0]]
  <2>2. envs = [s \in Slot |-> [FreeEnv EXCEPT !.status = ENV_RUNNABLE,
                                              !.id = MkEnvId(s + 1, s)]]
    BY DEF IpcInit, BootedEnvs
  <2>3. lib = [s \in Slot |-> LibClear]
    BY DEF IpcInit, BootedEnvs
  <2>4. ENV_RUNNABLE \in Nat /\ \A s \in Slot : Me(s) \in Nat /\ Me(s) = MkEnvId(s + 1, s)
    BY BootIds DEF Me, ENV_RUNNABLE
  <2> QED BY <2>2, <2>3, <2>4, BootRecord DEF LibClear
<1>3. LibTypes
  <2>1. ENV_RUNNABLE \in Status /\ "user" \in LibAt /\ \A s \in Slot : Me(s) \in Nat
    BY BootIds DEF Status, LibAt
  <2>2. TableTypes
    BY <1>2, <2>1 DEF TableTypes
  <2>3. lib \in [Slot -> LibRecord]
    BY <1>2, <2>1 DEF LibRecord
  <2>4. -1 \in -1..(NENV - 1)
    BY NenvAssumption
  <2> QED BY <1>1, <2>2, <2>3, <2>4 DEF LibTypes
<1>4. SenderInv /\ ReceiverInv
  BY <1>1, <1>2 DEF SenderInv, ReceiverInv, Senders
<1>5. HistoryInv /\ \A c \in Senders : From(c) = {}
  BY <1>1 DEF HistoryInv, From
<1>6. \A c \in Senders : Arrived(c) = 0 /\ Sent(c) = 0
  BY <1>2, <1>5, FS_EmptySet DEF Arrived, Sent, Senders
<1>7. FlightInv
  BY <1>1, <1>2, <1>6 DEF FlightInv, InBox
<1> QED BY <1>1, <1>2, <1>3, <1>4, <1>5, <1>7 DEF IpcInv, ProcessorInv

-----------------------------------------------------------------------------
(* Ipc: the theorems.                                                      *)

\* The invariant of the senders and the receiver.
THEOREM IpcInvariant == IpcSpec => []IpcInv
<1> QED BY IpcInitSound, IpcStepSound, PTL DEF IpcSpec

\* The messages of a sender carry the numbers 1 to Sent, and as many have arrived but perhaps
\* the last.
LEMMA SentBounds ==
    ASSUME IpcInv, NEW c \in Senders
    PROVE  /\ Sent(c) \in 0..Count /\ Arrived(c) \in {Sent(c) - 1, Sent(c)}
           /\ Arrived(c) \in 0..Count
<1>1. lib[c].val \in 0..Count /\ (lib[c].at /= "user" => lib[c].val >= 1) /\ Count \in Nat
  BY IpcAssumption DEF IpcInv, SenderInv
<1>2. Sent(c) \in 0..Count
  BY <1>1 DEF Sent
<1>3. Arrived(c) \in {Sent(c) - 1, Sent(c)}
  BY DEF IpcInv, FlightInv
<1>4. Arrived(c) \in Nat
  BY PlacesFinite DEF IpcInv
<1> QED BY <1>1, <1>2, <1>3, <1>4

\* The size of an interval that begins with 1.
LEMMA UpToN == ASSUME NEW n \in Nat PROVE IsFiniteSet(1..n) /\ Cardinality(1..n) = n
<1>1. 1 \in Int /\ n \in Int
  OBVIOUS
<1>2. IsFiniteSet(1..n) /\ Cardinality(1..n) = IF 1 > n THEN 0 ELSE n - 1 + 1
  BY <1>1, FS_Interval
<1> QED BY <1>2

\* There is room in the history for Count messages of each sender only.
LEMMA HistoryBounded == IpcInv => Len(received) <= Cardinality(Senders) * Count
<1> SUFFICES ASSUME IpcInv PROVE Len(received) <= Cardinality(Senders) * Count
  OBVIOUS
<1> DEFINE upTo(c, i) == {j \in From(c) : j <= i}
           f == [i \in DOMAIN received |->
                    <<CHOOSE c \in Senders : received[i].who = Me(c), received[i].val>>]
<1>1. Len(received) \in Nat /\ DOMAIN received = 1..Len(received) /\ Count \in Nat
  BY IpcAssumption DEF IpcInv, HistoryInv
<1>2. ASSUME NEW i \in DOMAIN received
      PROVE  /\ f[i][1] \in Senders /\ received[i].who = Me(f[i][1])
             /\ f[i][2] = received[i].val /\ f[i][2] = Cardinality(upTo(f[i][1], i))
  <2>1. PICK c \in Senders : received[i].who = Me(c) /\ received[i].val = Cardinality(upTo(c, i))
    BY DEF IpcInv, HistoryInv
  <2>2. PICK d : d = CHOOSE x \in Senders : received[i].who = Me(x)
    OBVIOUS
  <2>3. d \in Senders /\ received[i].who = Me(d)
    BY <2>1, <2>2
  <2>4. d = c
    BY <2>1, <2>3, BootIdsDiffer DEF Senders
  <2>5. f[i] = <<d, received[i].val>>
    BY <2>2
  <2> QED BY <2>1, <2>3, <2>4, <2>5
<1> HIDE DEF f
<1>3. \A c : IsFiniteSet(From(c)) /\ From(c) \subseteq 1..Len(received)
  BY PlacesFinite DEF IpcInv
<1>4. ASSUME NEW c \in Senders, NEW i \in From(c)
      PROVE  Cardinality(upTo(c, i)) \in 1..Count
  <2>1. upTo(c, i) \in SUBSET From(c) /\ i \in upTo(c, i)
    BY <1>3
  <2>2. /\ IsFiniteSet(upTo(c, i)) /\ Cardinality(upTo(c, i)) <= Arrived(c)
        /\ Cardinality(upTo(c, i)) \in Nat /\ Cardinality(upTo(c, i)) /= 0
    BY <1>3, <2>1, FS_Subset, FS_CardinalityType, FS_EmptySet DEF Arrived
  <2>3. Arrived(c) \in 0..Count
    BY SentBounds
  <2> QED BY <1>1, <2>2, <2>3
<1>5. ASSUME NEW c \in Senders, NEW i \in From(c), NEW j \in From(c), i < j
      PROVE  Cardinality(upTo(c, i)) < Cardinality(upTo(c, j))
  <2>1. upTo(c, i) \in SUBSET upTo(c, j) /\ j \in upTo(c, j) /\ j \notin upTo(c, i)
    BY <1>3, <1>5
  <2>2. IsFiniteSet(upTo(c, j)) /\ Cardinality(upTo(c, j)) \in Nat
    BY <1>3, FS_Subset, FS_CardinalityType
  <2>3. IsFiniteSet(upTo(c, i)) /\ Cardinality(upTo(c, i)) \in Nat
    BY <1>3, FS_Subset, FS_CardinalityType
  <2>4. /\ Cardinality(upTo(c, i)) <= Cardinality(upTo(c, j))
        /\ Cardinality(upTo(c, i)) /= Cardinality(upTo(c, j))
    BY <2>1, <2>2, FS_Subset
  <2> QED BY <2>2, <2>3, <2>4
<1> HIDE DEF upTo
<1>6. \A i \in DOMAIN received : i \in From(f[i][1])
  BY <1>2 DEF From
<1>7. f \in [1..Len(received) -> Senders \X (1..Count)]
  <2>1. \A i \in DOMAIN received : f[i] = <<f[i][1], f[i][2]>>
    BY DEF f
  <2>2. ASSUME NEW i \in DOMAIN received PROVE f[i] \in Senders \X (1..Count)
    <3>1. PICK c : c = f[i][1]
      OBVIOUS
    <3>2. c \in Senders /\ i \in From(c) /\ f[i][2] = Cardinality(upTo(c, i))
      BY <1>2, <1>6, <3>1
    <3>3. f[i][2] \in 1..Count
      BY <1>4, <3>2
    <3> QED BY <2>1, <3>1, <3>2, <3>3
  <2>3. f = [i \in 1..Len(received) |-> f[i]]
    BY <1>1 DEF f
  <2> QED BY <1>1, <2>2, <2>3
<1>8. ASSUME NEW i \in 1..Len(received), NEW j \in 1..Len(received), f[i] = f[j]
      PROVE  i = j
  <2>1. PICK c : c = f[i][1]
    OBVIOUS
  <2>2. /\ c \in Senders /\ i \in From(c) /\ j \in From(c)
        /\ Cardinality(upTo(c, i)) = Cardinality(upTo(c, j))
    BY <1>1, <1>2, <1>6, <1>8, <2>1
  <2>3. Cardinality(upTo(c, i)) \in 1..Count
    BY <1>4, <2>2
  <2>4. ~(i < j) /\ ~(j < i)
    BY <1>5, <2>2, <2>3
  <2> QED BY <2>4, i \in Int, j \in Int
<1>9. /\ IsFiniteSet(Senders \X (1..Count))
      /\ Cardinality(Senders \X (1..Count)) = Cardinality(Senders) * Count
  <2>1. IsFiniteSet(Slot)
    BY NenvAssumption, FS_Interval DEF Slot
  <2>2. IsFiniteSet(Senders)
    BY <2>1, FS_Difference DEF Senders
  <2>3. IsFiniteSet(1..Count) /\ Cardinality(1..Count) = Count
    BY <1>1, UpToN
  <2> QED BY <2>2, <2>3, FS_Product
<1>10. Cardinality(1..Len(received)) = Len(received)
  BY <1>1, UpToN
<1>11. f \in Injection(1..Len(received), Senders \X (1..Count))
  BY <1>7, <1>8 DEF Injection, IsInjective
<1> QED BY <1>9, <1>10, <1>11, FS_Injection

\* ipc_send and ipc_recv deliver: from each sender the receiver gets 1, 2, 3, ... without gap,
\* repetition or exchange, whatever the interrupts do and however many senders compete.
THEOREM MessagesArriveOnce == IpcSpec => []ExactlyOnceInOrder
<1>1. IpcInv => ExactlyOnceInOrder
  <2> SUFFICES ASSUME IpcInv PROVE ExactlyOnceInOrder
    OBVIOUS
  <2>1. ASSUME NEW c \in Senders, NEW i \in From(c)
        PROVE  received[i].val = Cardinality({j \in From(c) : j <= i})
    <3>1. i \in DOMAIN received /\ received[i].who = Me(c)
      BY DEF From
    <3>2. PICK d \in Senders : /\ received[i].who = Me(d)
                               /\ received[i].val = Cardinality({j \in From(d) : j <= i})
      BY <3>1 DEF IpcInv, HistoryInv
    <3>3. d = c
      BY <3>1, <3>2, BootIdsDiffer DEF Senders
    <3> QED BY <3>2, <3>3
  <2>2. \A i \in 1..Len(received) : \E c \in Senders : received[i].who = Me(c)
    <3>1. DOMAIN received = 1..Len(received)
      BY DEF IpcInv, HistoryInv
    <3> QED BY <3>1 DEF IpcInv, HistoryInv
  <2>3. \A c \in Senders : Cardinality(From(c)) \in {Sent(c) - 1, Sent(c)}
    BY SentBounds DEF Arrived
  <2> QED BY <2>1, <2>2, <2>3, HistoryBounded DEF ExactlyOnceInOrder
<1> QED BY <1>1, IpcInvariant, PTL

\* One message at a time: sys_ipc_can_send clears env_ipc_recving, so that a second sender
\* is told to retry until ipc_recv has returned the first message and been called again.
THEOREM OneMessageInFlight == IpcSpec => []OneInFlight
<1>1. IpcInv => OneInFlight
  <2> SUFFICES ASSUME IpcInv PROVE OneInFlight
    OBVIOUS
  <2> DEFINE pending == {c \in Senders : Sent(c) > Cardinality(From(c))}
  <2>1. \A c \in Senders : Sent(c) \in Int /\ Arrived(c) \in Int
    BY SentBounds
  <2>2. CASE InBox
    <3>1. PICK c \in Senders : \A d \in Senders \ {c} : Arrived(d) = Sent(d)
      BY <2>2 DEF IpcInv, FlightInv
    <3>2. pending \in SUBSET {c}
      BY <2>1, <3>1 DEF Arrived
    <3>3. Cardinality(pending) <= 1
      <4>1. IsFiniteSet({c}) /\ Cardinality({c}) = 1
        BY FS_Singleton
      <4>2. Cardinality(pending) <= Cardinality({c})
        BY <3>2, <4>1, FS_Subset
      <4> QED BY <4>1, <4>2
    <3> QED BY <2>2, <3>3 DEF OneInFlight, InBox
  <2>3. CASE ~InBox
    <3>1. pending = {}
      BY <2>1, <2>3 DEF IpcInv, FlightInv, Arrived
    <3>2. Cardinality(pending) = 0
      BY <3>1, FS_EmptySet
    <3> QED BY <3>1, <3>2 DEF OneInFlight
  <2> QED BY <2>2, <2>3
<1> QED BY <1>1, IpcInvariant, PTL

-----------------------------------------------------------------------------
(* Ipc: the mailbox.                                                       *)

\* The variables of the mailbox.
Names == {Me(c) : c \in Senders}
Counts == [s \in Names |-> Sent(ENVX(s))]
Box == IF InBox THEN [who |-> envs[Receiver].from, val |-> envs[Receiver].value] ELSE EmptyBox

\* The mailbox shows a message only if there is one: no sender has the id 0.
LEMMA BoxOf ==
    ASSUME IpcInv
    PROVE  /\ InBox <=> Box /= EmptyBox
           /\ InBox => /\ Box.who = envs[Receiver].from /\ Box.val = envs[Receiver].value
                       /\ Box \in [who : Nat, val : Nat]
<1>1. Receiver \in Slot
  BY IpcAssumption
<1>2. CASE InBox
  <2>1. Box = [who |-> envs[Receiver].from, val |-> envs[Receiver].value]
    BY <1>2 DEF Box
  <2>2. envs[Receiver].from \in Nat /\ envs[Receiver].value \in Nat
    BY <1>1 DEF IpcInv, LibTypes, TableTypes
  <2>3. PICK c \in Senders : envs[Receiver].from = Me(c)
    BY <1>2 DEF IpcInv, FlightInv
  <2>4. Me(c) > 0 /\ Me(c) \in Nat
    BY BootIds DEF Senders
  <2>5. Box /= EmptyBox
    BY <2>1, <2>3, <2>4 DEF EmptyBox
  <2> QED BY <1>2, <2>1, <2>2, <2>5
<1>3. CASE ~InBox
  BY <1>3 DEF Box
<1> QED BY <1>2, <1>3

\* The count of a sender is kept under its id.
LEMMA CountOf == ASSUME NEW c \in Senders PROVE Me(c) \in Names /\ Counts[Me(c)] = Sent(c)
<1>1. ENVX(Me(c)) = c
  BY BootIds DEF Senders
<1> QED BY <1>1 DEF Names, Counts

\* What no sender and no receiver can see leaves the mailbox alone.
LEMMA MailQuiet ==
    ASSUME received' = received, Box' = Box, \A c \in Senders : Sent(c)' = Sent(c)
    PROVE  UNCHANGED Mail!vars
<1>1. \A s \in Names : ENVX(s) \in Senders
  BY BootIds DEF Names, Senders
<1>2. Counts' = Counts
  BY <1>1 DEF Counts, Names
<1> QED BY <1>2 DEF Mail!vars, Counts, Box, Names

\* The receiver's state alone decides what is in the mailbox.
LEMMA BoxKept ==
    ASSUME envs'[Receiver] = envs[Receiver], lib'[Receiver] = lib[Receiver] PROVE Box' = Box
BY DEF Box, InBox, Receiving

\* A message is put in: the count of one sender grows.
LEMMA MailPut ==
    ASSUME NEW c \in Senders, ~InBox, InBox', received' = received,
           Sent(c) \in Nat, Sent(c) < Count, Sent(c)' = Sent(c) + 1,
           \A d \in Senders \ {c} : Sent(d)' = Sent(d),
           envs'[Receiver].from = Me(c), envs'[Receiver].value = Sent(c)'
    PROVE  Mail!Next
<1>1. Box = EmptyBox /\ Box' = [who |-> Me(c), val |-> Sent(c) + 1]
  BY DEF Box, EmptyBox
<1>2. Me(c) \in Names /\ Counts[Me(c)] = Sent(c) /\ ENVX(Me(c)) = c
  BY CountOf, BootIds DEF Senders
<1>3. Counts' = [Counts EXCEPT ![Me(c)] = @ + 1]
  <2>1. ASSUME NEW s \in Names PROVE Counts'[s] = [Counts EXCEPT ![Me(c)] = @ + 1][s]
    <3>1. PICK d \in Senders : s = Me(d)
      BY DEF Names
    <3>2. ENVX(s) = d /\ (s = Me(c) <=> d = c)
      BY <3>1, BootIds, BootIdsDiffer DEF Senders
    <3>3. Counts'[s] = Sent(d)' /\ Counts[s] = Sent(d)
      BY <3>2 DEF Counts, Names
    <3>4. CASE d = c
      BY <1>2, <3>2, <3>3, <3>4 DEF Counts
    <3>5. CASE d /= c
      BY <3>2, <3>3, <3>5 DEF Counts
    <3> QED BY <3>4, <3>5
  <2>2. Counts' = [s \in Names |-> Counts'[s]]
    BY DEF Counts, Names
  <2>3. [Counts EXCEPT ![Me(c)] = @ + 1] = [s \in Names |-> [Counts EXCEPT ![Me(c)] = @ + 1][s]]
    BY DEF Counts
  <2> QED BY <2>1, <2>2, <2>3
<1>4. Mail!Put(Me(c))
  BY <1>1, <1>2, <1>3 DEF Mail!Put, Counts, Box, Names
<1> QED BY <1>2, <1>4 DEF Mail!Next, Names

\* A sender in ipc_send puts its message in, or nothing is seen of its attempt.
LEMMA SendTryMails ==
    ASSUME IpcInv, IpcInv', NEW c \in Slot, SendTry(c), received' = received
    PROVE  Mail!Next \/ UNCHANGED Mail!vars
<1>1. /\ lib[c].at = "send" /\ Receiver \in Slot /\ c \in Senders /\ c /= Receiver
      /\ lib[c].whom = Me(Receiver) /\ lib[c].val \in 1..Count /\ Count \in Nat
      /\ curenv = c /\ lib \in [Slot -> LibRecord]
  BY IpcAssumption
  DEF SendTry, Running, IpcInv, ReceiverInv, SenderInv, Senders, LibTypes
<1>2. Envid2Env(lib[c].whom, FALSE) = Receiver /\ Receiver /= None
  <2>1. envs[Receiver].id = Me(Receiver) /\ envs[Receiver].status /= ENV_FREE
    BY <1>1 DEF IpcInv, ReceiverInv, ENV_FREE, ENV_RUNNABLE, ENV_NOT_RUNNABLE
  <2>2. Envid2Env(Me(Receiver), FALSE) = Receiver
    BY <1>1, <2>1, FindsSlot
  <2>3. Receiver /= None
    BY <1>1 DEF Slot, None
  <2> QED BY <1>1, <2>2, <2>3
<1>3. CASE lib' = [lib EXCEPT ![c].at = "yield"] /\ UNCHANGED vars
  <2>1. /\ \A d \in Slot \ {c} : lib'[d] = lib[d]
        /\ lib'[c].at = "yield" /\ lib'[c].val = lib[c].val
    BY <1>1, <1>3 DEF LibRecord
  <2>2. \A d \in Senders : Sent(d)' = Sent(d)
    BY <1>1, <2>1 DEF Sent, Senders
  <2>3. Box' = Box
    BY <1>1, <1>3, <2>1, BoxKept DEF vars
  <2> QED BY <2>2, <2>3, MailQuiet
<1>4. CASE SysIpcCanSend(lib[c].whom, lib[c].val) /\ lib' = [lib EXCEPT ![c].at = "user"]
  <2>1. /\ \A d \in Slot \ {c} : lib'[d] = lib[d]
        /\ lib'[c].at = "user" /\ lib'[c].val = lib[c].val
    BY <1>1, <1>4 DEF LibRecord
  <2>2. /\ Receiving(Receiver) /\ envs'[Receiver].recving = 0
        /\ envs'[Receiver].value = lib[c].val /\ envs'[Receiver].from = Me(c)
    <3>1. PICK id, value : id = lib[c].whom /\ value = lib[c].val
      OBVIOUS
    <3>2. value \in Nat
      BY <1>1, <3>1
    <3>3. Envid2Env(id, FALSE) = Receiver /\ SysIpcCanSend(id, value)
      BY <1>2, <1>4, <3>1
    <3> QED BY <1>1, <3>1, <3>2, <3>3, SendTakes DEF IpcInv
  <2>3. ~InBox /\ InBox'
    BY <1>1, <2>1, <2>2 DEF InBox, Receiving, IpcInv, ReceiverInv
  <2>4. /\ Sent(c)' = lib[c].val /\ Sent(c) = lib[c].val - 1
        /\ \A d \in Senders \ {c} : Sent(d)' = Sent(d)
    BY <1>1, <2>1 DEF Sent, Senders
  <2>5. Sent(c) \in Nat /\ Sent(c) < Count /\ Sent(c)' = Sent(c) + 1
    BY <1>1, <2>4
  <2>6. Mail!Next
    BY <1>1, <2>2, <2>3, <2>4, <2>5, MailPut
  <2> QED BY <2>6
<1> QED BY <1>2, <1>3, <1>4 DEF SendTry

\* ipc_recv takes the message out when it returns.
LEMMA ReturnMails == ASSUME IpcInv, Return PROVE Mail!Next
<1>1. /\ lib[Receiver].at = "takeValue" /\ Receiver \in Slot
      /\ lib' = [lib EXCEPT ![Receiver].got = envs[Receiver].value, ![Receiver].at = "user"]
      /\ lib \in [Slot -> LibRecord]
  BY IpcAssumption DEF Return, TakeValue, Running, IpcInv, LibTypes
<1>2. /\ \A d \in Slot \ {Receiver} : lib'[d] = lib[d]
      /\ lib'[Receiver].at = "user" /\ lib'[Receiver].who = lib[Receiver].who
      /\ lib'[Receiver].got = envs[Receiver].value
  BY <1>1 DEF LibRecord
<1>3. InBox /\ ~InBox'
  BY <1>1, <1>2 DEF IpcInv, ReceiverInv, InBox, Receiving, ENV_RUNNABLE, ENV_NOT_RUNNABLE
<1>4. lib[Receiver].who = envs[Receiver].from
  BY <1>1, <1>3 DEF IpcInv, FlightInv
<1>5. Box = [who |-> lib'[Receiver].who, val |-> lib'[Receiver].got]
  BY <1>2, <1>3, <1>4 DEF Box
<1>6. Box /= EmptyBox /\ Box' = EmptyBox
  BY <1>3, BoxOf DEF Box, EmptyBox
<1>7. received' = Append(received, Box)
  BY <1>5 DEF Return
<1>8. Counts' = Counts
  <2>1. \A s \in Names : ENVX(s) \in Senders
    BY BootIds DEF Names, Senders
  <2>2. \A d \in Senders : Sent(d)' = Sent(d)
    BY <1>2 DEF Sent, Senders
  <2> QED BY <2>1, <2>2 DEF Counts, Names
<1>9. Mail!Take
  BY <1>6, <1>7, <1>8 DEF Mail!Take, Counts, Box, Names
<1> QED BY <1>9 DEF Mail!Next

\* A step that delivers and returns nothing: the calls of ipc_send and ipc_recv, the wait for
\* a receiver, the first read of a message, the timer.
LEMMA OthersQuiet ==
    ASSUME IpcInv, IpcInv', received' = received,
           \/ \E c \in Senders : SenderStep(c)
           \/ \E c \in Slot : SendYield(c) \/ TakeWho(c)
           \/ CallRecv(Receiver)
           \/ IpcTick
           \/ UNCHANGED ipcVars
    PROVE  UNCHANGED Mail!vars
<1>1. /\ Receiver \in Slot /\ Receiver \notin Senders /\ Senders \subseteq Slot
      /\ lib \in [Slot -> LibRecord]
  BY IpcAssumption DEF Senders, IpcInv, LibTypes
<1>2. CASE \E c \in Senders : SenderStep(c)
  <2>1. PICK c \in Senders : SenderStep(c)
    BY <1>2
  <2>2. /\ envs' = envs /\ \A d \in Slot \ {c} : lib'[d] = lib[d]
        /\ lib[c].at = "user" /\ lib'[c].at = "send" /\ lib'[c].val = lib[c].val + 1
    BY <1>1, <2>1 DEF SenderStep, CallSend, Running, vars, LibRecord
  <2>3. lib[c].val \in Nat
    BY <1>1 DEF LibRecord
  <2>4. \A d \in Senders : Sent(d)' = Sent(d)
    BY <1>1, <2>2, <2>3 DEF Sent
  <2>5. lib'[Receiver] = lib[Receiver] /\ envs'[Receiver] = envs[Receiver]
    BY <1>1, <2>2
  <2> QED BY <2>4, <2>5, BoxKept, MailQuiet
<1>3. CASE \E c \in Slot : SendYield(c)
  <2>1. PICK c \in Slot : SendYield(c)
    BY <1>3
  <2>2. /\ envs' = envs /\ \A d \in Slot \ {c} : lib'[d] = lib[d] /\ lib[c].at = "yield"
        /\ lib'[c].at = "send" /\ lib'[c].val = lib[c].val
    BY <1>1, <2>1 DEF SendYield, SysYield, Running, LibRecord
  <2>3. c /= Receiver /\ c \in Senders
    BY <1>1, <2>1 DEF IpcInv, ReceiverInv, Senders, SendYield, Running
  <2>4. \A d \in Senders : Sent(d)' = Sent(d)
    <3>1. lib[c].at = "yield"
      BY <2>1 DEF SendYield, Running
    <3> QED BY <1>1, <2>2, <3>1 DEF Sent
  <2>5. lib'[Receiver] = lib[Receiver] /\ envs'[Receiver] = envs[Receiver]
    BY <1>1, <2>2, <2>3
  <2> QED BY <2>4, <2>5, BoxKept, MailQuiet
<1>4. CASE \E c \in Slot : TakeWho(c)
  <2>1. PICK c \in Slot : TakeWho(c)
    BY <1>4
  <2>2. /\ c = Receiver /\ envs' = envs /\ lib[c].at = "take" /\ lib'[c].at = "takeValue"
        /\ \A d \in Slot \ {c} : lib'[d] = lib[d]
    BY <1>1, <2>1 DEF TakeWho, Running, vars, IpcInv, SenderInv, Senders, LibRecord
  <2>3. Box' = Box
    BY <1>1, <2>2 DEF Box, InBox, Receiving, EmptyBox
  <2>4. \A d \in Senders : Sent(d)' = Sent(d)
    BY <1>1, <2>2 DEF Sent
  <2> QED BY <2>3, <2>4, MailQuiet
<1>5. CASE CallRecv(Receiver)
  <2>1. /\ lib[Receiver].at = "user" /\ lib'[Receiver].at = "take" /\ SysIpcRecv
        /\ curenv = Receiver /\ \A d \in Slot \ {Receiver} : lib'[d] = lib[d]
    BY <1>1, <1>5 DEF CallRecv, Running, LibRecord
  <2>2. envs'[Receiver].recving = 1 /\ envs'[Receiver].status = ENV_NOT_RUNNABLE
    BY <2>1, RecvWaits DEF IpcInv
  <2>3. ~InBox /\ ~InBox'
    BY <2>1, <2>2 DEF InBox, Receiving
  <2>4. Box' = Box
    BY <2>3 DEF Box, EmptyBox
  <2>5. \A d \in Senders : Sent(d)' = Sent(d)
    BY <1>1, <2>1 DEF Sent
  <2> QED BY <2>4, <2>5, MailQuiet
<1>6. CASE UNCHANGED <<envs, lib>>
  <2>1. Box' = Box /\ \A d \in Senders : Sent(d)' = Sent(d)
    BY <1>6 DEF Box, InBox, Receiving, Sent, EmptyBox
  <2> QED BY <2>1, MailQuiet
<1>7. IpcTick \/ UNCHANGED ipcVars => UNCHANGED <<envs, lib>>
  BY DEF IpcTick, Tick, HandleIrq, ipcVars, vars
<1> QED BY <1>2, <1>3, <1>4, <1>5, <1>6, <1>7

\* Every step is one of the mailbox, or none.
LEMMA MailStep ==
    ASSUME IpcInv, IpcInv', [IpcNext]_ipcVars PROVE [Mail!Next]_(Mail!vars)
<1>1. ASSUME NEW c \in Slot, LibStep(c), received' = received
      PROVE  Mail!Next \/ UNCHANGED Mail!vars
  BY <1>1, SendTryMails, OthersQuiet DEF LibStep
<1>2. CASE \E c \in Senders : SenderStep(c)
  BY <1>2, OthersQuiet DEF SenderStep
<1>3. CASE CallRecv(Receiver) /\ received' = received
  BY <1>3, OthersQuiet
<1>4. CASE Return
  BY <1>4, ReturnMails
<1>5. CASE IpcTick \/ UNCHANGED ipcVars
  BY <1>5, OthersQuiet DEF IpcTick, ipcVars
<1> QED BY <1>1, <1>2, <1>3, <1>4, <1>5 DEF IpcNext, IpcStep

\* Nothing has been sent.
LEMMA MailInit == IpcInit => Mail!Init
<1> SUFFICES ASSUME IpcInit PROVE Mail!Init
  OBVIOUS
<1>1. received = <<>> /\ \A c \in Slot : lib[c].at = "user" /\ lib[c].val = 0
  BY DEF IpcInit, BootedEnvs, LibClear
<1>2. Receiver \in Slot /\ \A s \in Names : ENVX(s) \in Slot
  BY IpcAssumption, BootIds DEF Names, Senders
<1>3. Counts = [s \in Names |-> 0]
  BY <1>1, <1>2 DEF Counts, Sent
<1>4. Box = EmptyBox
  BY <1>1, <1>2 DEF Box, InBox
<1> QED BY <1>1, <1>3, <1>4 DEF Mail!Init, Counts, Box, Names

\* ipc_send, ipc_recv, sys_ipc_can_send, sys_ipc_recv and the scheduler together are a mailbox
\* for one message: each delivery fills it, each return of ipc_recv empties it, and nothing
\* else that a program does, is refused or is interrupted at can be seen in it.
THEOREM MailboxIsImplemented == IpcSpec => ImplementsMailbox
<1> QED BY MailInit, MailStep, IpcInvariant, PTL DEF IpcSpec, ImplementsMailbox, Mail!Spec

-----------------------------------------------------------------------------
(* Programs on the kernel: what is proved of Env holds while they run.     *)

\* What main leaves behind after k calls of env_create is a state of the table.
LEMMA BootedSound ==
    ASSUME NEW k \in 1..NENV, NEW S, S = 0..(k - 1), BootedEnvs(S)
    PROVE  IndInv /\ nextId = k
<1>1. NENV \in Nat /\ k \in Nat /\ k >= 1 /\ k <= NENV
  BY NenvAssumption
<1>2. Cardinality(S) = k
  <2>1. 0 \in Int /\ k - 1 \in Int
    BY <1>1
  <2>2. Cardinality(0..(k - 1)) = IF 0 > k - 1 THEN 0 ELSE (k - 1) - 0 + 1
    BY ONLY <2>1, FS_Interval
  <2> QED BY <1>1, <2>2
<1>3. nextId = k /\ curenv = None /\ pos = -1 /\ mode = "boot"
  BY <1>2 DEF BootedEnvs
<1>4. freeList = [i \in 1..(NENV - k) |-> k + i - 1]
  BY <1>2 DEF BootedEnvs
<1>5. \A s : s \in S <=> s \in Slot /\ s < k
  BY <1>1 DEF Slot
<1>6. \A s \in Slot : s + 1 \in Nat \ {0} /\ MkEnvId(s + 1, s) \in Nat /\ MkEnvId(s + 1, s) > 0
  BY <1>1, IdIsPositive DEF Slot
<1>7. /\ envs = [s \in Slot |-> envs[s]] /\ \A s \in Slot \ S : envs[s] = FreeEnv
      /\ \A s \in S : envs[s] = [FreeEnv EXCEPT !.status = ENV_RUNNABLE, !.id = MkEnvId(s + 1, s)]
  BY <1>5 DEF BootedEnvs
<1>8. \A s \in S : envs[s] = [status |-> ENV_RUNNABLE, id |-> MkEnvId(s + 1, s), parent |-> 0,
                              recving |-> 0, value |-> 0, from |-> 0]
  BY <1>7, BootRecord
<1>9. \A s \in S : envs[s] \in EnvRecord /\ envs[s].id = MkEnvId(s + 1, s) /\ envs[s].parent = 0
  <2>1. ENV_RUNNABLE \in Status /\ 0 \in Value
    BY ArgumentAssumption DEF Status
  <2>2. \A s \in S : MkEnvId(s + 1, s) \in Nat
    BY <1>5, <1>6
  <2>3. ASSUME NEW i \in Nat, NEW e,
               e = [status |-> ENV_RUNNABLE, id |-> i, parent |-> 0,
                    recving |-> 0, value |-> 0, from |-> 0]
        PROVE  e \in EnvRecord /\ e.id = i /\ e.parent = 0
    BY ONLY <2>1, <2>3 DEF EnvRecord
  <2> SUFFICES ASSUME NEW s \in S
               PROVE  envs[s] \in EnvRecord /\ envs[s].id = MkEnvId(s + 1, s) /\ envs[s].parent = 0
    OBVIOUS
  <2>4. PICK i \in Nat : i = MkEnvId(s + 1, s)
    BY <2>2
  <2>5. PICK e : e = envs[s]
    OBVIOUS
  <2>6. e \in EnvRecord /\ e.id = i /\ e.parent = 0
    BY <1>8, <2>3, <2>4, <2>5
  <2> QED BY <2>4, <2>5, <2>6
<1>10. \A s \in Slot \ S : envs[s] \in EnvRecord /\ envs[s].id = 0 /\ envs[s].status = ENV_FREE
  <2>1. ENV_FREE \in Status /\ 0 \in Value
    BY ArgumentAssumption DEF Status
  <2>2. FreeEnv \in EnvRecord /\ FreeEnv.id = 0 /\ FreeEnv.status = ENV_FREE
    BY ONLY <2>1 DEF FreeEnv, EnvRecord
  <2> QED BY <1>7, <2>2
<1>11. envs \in [Slot -> EnvRecord]
  <2>1. \A s \in Slot : envs[s] \in EnvRecord
    BY <1>9, <1>10
  <2> QED BY <1>7, <2>1
<1>12. /\ freeList \in Seq(Slot) /\ DOMAIN freeList = 1..(NENV - k)
       /\ \A i \in 1..(NENV - k) : freeList[i] = k + i - 1 /\ freeList[i] \in Slot \ S
  <2>1. \A i \in 1..(NENV - k) : k + i - 1 \in Slot /\ ~(k + i - 1 < k)
    BY <1>1 DEF Slot
  <2>2. NENV - k \in Nat
    BY <1>1
  <2> QED BY <1>4, <1>5, <2>1, <2>2
<1>13. FreeSlots = Slot \ S
  <2>1. ASSUME NEW s \in Slot \ S PROVE s \in FreeSlots
    <3>1. s - k + 1 \in 1..(NENV - k) /\ k + (s - k + 1) - 1 = s
      BY <1>1, <1>5 DEF Slot
    <3>2. PICK i \in 1..(NENV - k) : k + i - 1 = s
      BY <3>1
    <3> QED BY <1>12, <3>2 DEF FreeSlots
  <2> QED BY <1>12, <2>1 DEF FreeSlots
<1>14. EnvTypeOK
  BY <1>1, <1>3, <1>11, <1>12 DEF EnvTypeOK, None
<1>15. FreeListSound
  <2>1. \A i, j \in DOMAIN freeList : freeList[i] = freeList[j] => i = j
    BY <1>1, <1>12
  <2>2. \A s \in FreeSlots : envs[s].status = ENV_FREE
    BY <1>10, <1>13
  <2>3. curenv \notin FreeSlots
    BY <1>1, <1>3, <1>13 DEF None, Slot
  <2> QED BY <1>3, <2>1, <2>2, <2>3 DEF FreeListSound
<1>16. IdsIssued
  <2>1. \A s \in S : s + 1 \in 1..nextId
    BY <1>1, <1>3, <1>5 DEF Slot
  <2>2. ASSUME NEW s \in S
        PROVE  (\E n \in 1..nextId : envs[s].id = MkEnvId(n, s)) /\ envs[s].parent < envs[s].id
    BY <1>5, <1>6, <1>9, <2>1
  <2> QED BY <1>10, <1>13, <2>2 DEF IdsIssued
<1> QED BY <1>3, <1>14, <1>15, <1>16 DEF IndInv

\* A program may name what main has created.
LEMMA BootIdsNamed ==
    ASSUME NEW c \in Slot, nextId \in Nat, c < nextId, nextId <= MaxEnv
    PROVE  Me(c) \in NamedId
<1>1. c + 1 \in 1..(MaxEnv + 1) /\ c + 1 \in Nat /\ nextId + 2 \in Nat /\ c + 1 < nextId + 2
      /\ 0 \in Slot
  BY BoundAssumption, NenvAssumption DEF Slot
<1>2. Me(c) < MkEnvId(nextId + 2, 0)
  BY <1>1, IdsGrow DEF Me
<1>3. Me(c) \in Id
  BY <1>1 DEF Id, Me
<1> QED BY <1>2, <1>3 DEF NamedId

\* A step of the library is a step of the kernel, or of the program alone.
LEMMA LibIsKernel ==
    ASSUME NEW c \in Slot, LibStep(c), lib[c].at = "send" => lib[c].whom \in NamedId /\ lib[c].val \in Value
    PROVE  [Next]_vars /\ nextId' = nextId
<1>1. CASE SendTry(c)
  <2>1. UNCHANGED vars \/ SysIpcCanSend(lib[c].whom, lib[c].val)
    BY <1>1 DEF SendTry
  <2>2. lib[c].whom \in NamedId /\ lib[c].val \in Value
    BY <1>1 DEF SendTry, Running
  <2>3. CASE SysIpcCanSend(lib[c].whom, lib[c].val)
    <3>1. PICK id \in NamedId, value \in Value : id = lib[c].whom /\ value = lib[c].val
      BY <2>2
    <3>2. SysIpcCanSend(id, value)
      BY <2>3, <3>1
    <3> QED BY <3>2 DEF Next, SysIpcCanSend
  <2> QED BY <2>1, <2>3 DEF vars
<1>2. CASE SendYield(c)
  BY <1>2 DEF SendYield, SysYield, Next
<1>3. CASE TakeWho(c)
  BY <1>3 DEF TakeWho, vars
<1> QED BY <1>1, <1>2, <1>3 DEF LibStep

\* The senders and the receiver.
IpcKernelInv == IpcInv /\ nextId = NENV

LEMMA IpcIsKernel ==
    ASSUME NENV <= MaxEnv, IpcKernelInv, [IpcNext]_ipcVars
    PROVE  [Next]_vars /\ nextId' = nextId
<1>1. /\ Receiver \in Slot /\ Me(Receiver) \in NamedId /\ Count \in Nat /\ 0..Count \subseteq Value
  <2>1. Receiver \in Slot /\ nextId \in Nat /\ Receiver < nextId /\ nextId <= MaxEnv
    BY IpcAssumption, NenvAssumption DEF IpcKernelInv, Slot
  <2> QED BY <2>1, BootIdsNamed, IpcAssumption
<1>2. ASSUME NEW c \in Slot, LibStep(c) PROVE [Next]_vars /\ nextId' = nextId
  <2>1. lib[c].at = "send" => c \in Senders
    BY DEF IpcKernelInv, IpcInv, ReceiverInv, Senders
  <2>2. lib[c].at = "send" => lib[c].whom \in NamedId /\ lib[c].val \in Value
    BY <1>1, <2>1 DEF IpcKernelInv, IpcInv, SenderInv
  <2> QED BY <1>2, <2>2, LibIsKernel
<1>3. ASSUME NEW c \in Senders, SenderStep(c) PROVE UNCHANGED vars
  BY <1>3 DEF SenderStep, CallSend
<1>4. CASE CallRecv(Receiver)
  BY <1>4 DEF CallRecv, Next, SysIpcRecv
<1>5. CASE Return
  BY <1>5 DEF Return, TakeValue, vars
<1>6. CASE IpcTick
  BY <1>6 DEF IpcTick, Tick, Next, HandleIrq
<1> QED BY <1>2, <1>3, <1>4, <1>5, <1>6 DEF IpcNext, IpcStep, ipcVars, vars

\* main creates an environment in every slot.
LEMMA IpcBooted == IpcInit => IndInv /\ IpcKernelInv
<1> SUFFICES ASSUME IpcInit PROVE IndInv /\ IpcKernelInv
  OBVIOUS
<1>1. PICK k \in 1..NENV : k = NENV
  BY NenvAssumption
<1>2. BootedEnvs(Slot) /\ Slot = 0..(k - 1)
  BY <1>1 DEF IpcInit, Slot
<1>3. IndInv /\ nextId = k
  BY <1>2, BootedSound
<1> QED BY <1>1, <1>3, IpcInitSound DEF IpcKernelInv

\* The programs of Ipc do to the kernel what any program may do and nothing else.
THEOREM SendersUseKernel ==
    ASSUME NENV <= MaxEnv
    PROVE  IpcSpec => [][Next]_vars /\ [](FreeListSound /\ IdsSound)
<1>1. IpcKernelInv /\ IndInv /\ [IpcNext]_ipcVars => IpcKernelInv' /\ IndInv' /\ [Next]_vars
  <2> SUFFICES ASSUME IpcKernelInv, IndInv, [IpcNext]_ipcVars
               PROVE  IpcKernelInv' /\ IndInv' /\ [Next]_vars
    OBVIOUS
  <2>1. [Next]_vars /\ nextId' = nextId
    BY IpcIsKernel
  <2>2. IpcInv'
    BY IpcStepSound DEF IpcKernelInv
  <2>3. IndInv'
    BY <2>1, StepSound
  <2> QED BY <2>1, <2>2, <2>3 DEF IpcKernelInv
<1>2. IndInv => FreeListSound /\ IdsSound
  BY IdsFollow DEF IndInv
<1> QED BY <1>1, <1>2, IpcBooted, PTL DEF IpcSpec

-----------------------------------------------------------------------------
(* PingPong: the inductive invariant.                                      *)

Players == {0, 1}

\* A player that has destroyed itself.
Gone(c) == at[c] = "gone" /\ lib[c].at = "user" /\ envs[c].recving = 0

\* A player with nothing to send: between two calls, in sys_ipc_recv, or gone.
Waits(c) ==
    \/ /\ (at[c] \in {"loop", "answered"} \/ (at[c] = "start" /\ c = 1))
       /\ lib[c].at = "user" /\ envs[c].recving = 0
    \/ at[c] = "received" /\ lib[c].at = "take" /\ Receiving(c)
    \/ Gone(c)

\* A player in ipc_send.
Sends(c) ==
    /\ at[c] \in {"loop", "answered"} /\ lib[c].at \in {"send", "yield", "panic"}
    /\ lib[c].whom = Me(1 - c) /\ envs[c].recving = 0

\* A player that the number has been delivered to, on its way from the kernel to i.
Holds(c) ==
    /\ envs[c].recving = 0
    /\ \/ /\ at[c] = "received" /\ lib[c].at = "take"
          /\ envs[c].from = Me(1 - c) /\ envs[c].value = lib[1 - c].val
       \/ /\ at[c] = "received" /\ lib[c].at = "takeValue"
          /\ lib[c].who = Me(1 - c) /\ envs[c].value = lib[1 - c].val
       \/ /\ at[c] = "decide" /\ lib[c].at = "user"
          /\ lib[c].who = Me(1 - c) /\ lib[c].got = lib[1 - c].val

\* The turn is with the one that sends or holds the number, or that has ended the game.
TurnOf(c) ==
    \/ Sends(c) /\ lib[c].val % 2 = c
    \/ Holds(c) /\ lib[1 - c].val % 2 = 1 - c
    \/ Gone(c)

Opening == at[0] = "start" /\ lib[0].at = "user" /\ envs[0].recving = 0

GameInv ==
    /\ LibTypes /\ ProcessorInv /\ \A c \in Players : envs[c].id = Me(c)
    /\ DOMAIN at = Slot
    /\ \/ Opening /\ Waits(1)
       \/ \E c \in Players : TurnOf(c) /\ Waits(1 - c)

\* The players are two different slots.
LEMMA PlayersAreSlots ==
    \A c \in Players : /\ c \in Slot /\ 1 - c \in Slot /\ 1 - c \in Players /\ 1 - c /= c
                       /\ 1 - (1 - c) = c /\ c \in Int
BY PingPongAssumption, NenvAssumption DEF Players, Slot

\* The parts of the invariant look at one player, and at the number of the other.
LEMMA PlayerKept ==
    ASSUME NEW c \in Players, at'[c] = at[c], lib'[c] = lib[c], envs'[c] = envs[c]
    PROVE  /\ (Waits(c) => Waits(c)')
            /\ (lib'[1 - c].val = lib[1 - c].val /\ TurnOf(c) => TurnOf(c)')
<1>1. Waits(c) => Waits(c)'
  BY DEF Waits, Receiving, Gone
<1>2. Sends(c) => Sends(c)'
  BY DEF Sends
<1>3. lib'[1 - c].val = lib[1 - c].val /\ Holds(c) => Holds(c)'
  BY DEF Holds
<1> QED BY <1>1, <1>2, <1>3 DEF TurnOf, Gone

\* A step of c that leaves the other player, the types and the processor in order.
Quiet(c) ==
    /\ LibTypes' /\ ProcessorInv' /\ envs'[c].id = Me(c) /\ DOMAIN at' = Slot
    /\ at'[1 - c] = at[1 - c] /\ lib'[1 - c] = lib[1 - c] /\ envs'[1 - c] = envs[1 - c]

\* A player that waits takes a step and waits again: whoever has the turn keeps it.
LEMMA WaiterSteps ==
    ASSUME GameInv, NEW c \in Players, Quiet(c), Waits(c)', lib'[c].val = lib[c].val,
           c = 1 \/ ~Opening, ~TurnOf(c)
    PROVE  GameInv'
<1>1. PICK d \in Players : d = 1 - c /\ d /= c /\ 1 - d = c /\ \A e \in Players : e \in {c, d}
  BY PlayersAreSlots DEF Players
<1>2. \A e \in Players : envs'[e].id = Me(e)
  BY <1>1 DEF Quiet, GameInv
<1>3. CASE Opening /\ Waits(1)
  <2>1. c = 1 /\ d = 0
    BY <1>1, <1>3
  <2>2. Opening'
    BY <1>1, <1>3, <2>1 DEF Opening, Quiet
  <2> QED BY <1>2, <2>1, <2>2 DEF GameInv, Quiet
<1>4. CASE TurnOf(d)
  <2>1. /\ at'[d] = at[d] /\ lib'[d] = lib[d] /\ envs'[d] = envs[d]
        /\ lib'[1 - d].val = lib[1 - d].val
    BY <1>1 DEF Quiet
  <2>2. TurnOf(d)'
    BY <1>4, <2>1, PlayerKept
  <2> QED BY <1>1, <1>2, <2>2 DEF GameInv, Quiet
<1>5. (Opening /\ Waits(1)) \/ TurnOf(d)
  BY <1>1 DEF GameInv
<1> QED BY <1>3, <1>4, <1>5

\* A player that has the turn takes a step and keeps it.
LEMMA HolderSteps ==
    ASSUME GameInv, NEW c \in Players, Quiet(c), Waits(1 - c), TurnOf(c)'
    PROVE  GameInv'
<1>1. PICK d \in Players : d = 1 - c /\ \A e \in Players : e \in {c, d}
  BY PlayersAreSlots DEF Players
<1>2. \A e \in Players : envs'[e].id = Me(e)
  BY <1>1 DEF Quiet, GameInv
<1>3. Waits(d)'
  <2>1. at'[d] = at[d] /\ lib'[d] = lib[d] /\ envs'[d] = envs[d] /\ Waits(d)
    BY <1>1 DEF Quiet
  <2> QED BY <2>1, PlayerKept
<1> QED BY <1>1, <1>2, <1>3 DEF GameInv, Quiet

-----------------------------------------------------------------------------
(* PingPong: the steps.                                                    *)

\* A step of c in user code changes lib and at for c only.
LEMMA UserStepQuiet ==
    ASSUME GameInv, NEW c \in Players, UNCHANGED vars, lib' \in [Slot -> LibRecord],
           \A s \in Slot \ {c} : lib'[s] = lib[s],
           NEW place, at' = [at EXCEPT ![c] = place] \/ at' = at
    PROVE  Quiet(c) /\ envs' = envs /\ (at' = [at EXCEPT ![c] = place] => at'[c] = place)
<1>1. c \in Slot /\ 1 - c \in Slot /\ 1 - c /= c
  BY PlayersAreSlots
<1>2. at'[1 - c] = at[1 - c] /\ DOMAIN at' = Slot /\ (at' = [at EXCEPT ![c] = place] => at'[c] = place)
  BY <1>1 DEF GameInv
<1>3. LibTypes' /\ ProcessorInv'
  BY DEF GameInv, LibTypes, TableTypes, ProcessorInv, Runnable, vars
<1> QED BY <1>1, <1>2, <1>3 DEF Quiet, GameInv, vars

\* A call of ipc_send.
LEMMA CallSendEffect ==
    ASSUME GameInv, NEW c \in Players, NEW whom \in Nat, NEW val \in Nat, CallSend(c, whom, val)
    PROVE  /\ lib' \in [Slot -> LibRecord] /\ \A s \in Slot \ {c} : lib'[s] = lib[s]
           /\ lib'[c].at = "send" /\ lib'[c].whom = whom /\ lib'[c].val = val
           /\ lib[c].at = "user" /\ UNCHANGED vars
<1>1. c \in Slot /\ lib \in [Slot -> LibRecord]
  BY PlayersAreSlots DEF GameInv, LibTypes
<1>2. /\ lib[c].at = "user" /\ UNCHANGED vars
      /\ lib' = [lib EXCEPT ![c].at = "send", ![c].whom = whom, ![c].val = val]
  BY DEF CallSend, Running
<1>3. PICK r : r = [lib[c] EXCEPT !.at = "send", !.whom = whom, !.val = val]
  OBVIOUS
<1>4. DOMAIN lib' = Slot /\ lib' = [s \in Slot |-> IF s = c THEN r ELSE lib[s]]
  BY ONLY <1>1, <1>2, <1>3
<1>5. lib[c] \in LibRecord /\ "send" \in LibAt
  BY <1>1 DEF LibAt
<1>6. r \in LibRecord /\ r.at = "send" /\ r.whom = whom /\ r.val = val
  BY ONLY <1>3, <1>5, whom \in Nat, val \in Nat DEF LibRecord
<1>7. /\ lib' \in [Slot -> LibRecord] /\ \A s \in Slot \ {c} : lib'[s] = lib[s]
      /\ lib'[c] = r
  BY ONLY <1>1, <1>4, <1>6
<1> QED BY <1>2, <1>6, <1>7

\* The environment created first has the id First.
LEMMA FirstIsZero == ASSUME GameInv, NEW c \in Players PROVE envs[c].id = First <=> c = 0
<1>1. envs[c].id = Me(c) /\ First = Me(0)
  BY DEF GameInv, First, Me
<1> QED BY <1>1, BootIdsDiffer, PlayersAreSlots DEF Players

\* The game begins.
LEMMA StartSound == ASSUME GameInv, NEW c \in Players, Start(c) PROVE GameInv'
<1>1. at[c] = "start" /\ at' = [at EXCEPT ![c] = "loop"] /\ c \in Slot
  BY PlayersAreSlots DEF Start, Goto
<1>2. ~TurnOf(c)
  BY <1>1 DEF TurnOf, Sends, Holds, Gone
<1>3. CASE c = 0
  <2>1. envs[c].id = First
    BY <1>3, FirstIsZero
  <2>2. Second = Me(1) /\ Second \in Nat
    BY PlayersAreSlots, BootIds DEF Second, Me, Players
  <2>3. CallSend(c, Second, 0)
    BY <1>1, <2>1 DEF Start
  <2>4. /\ lib' \in [Slot -> LibRecord] /\ \A s \in Slot \ {c} : lib'[s] = lib[s]
        /\ lib'[c].at = "send" /\ lib'[c].whom = Second /\ lib'[c].val = 0 /\ UNCHANGED vars
    BY <2>2, <2>3, CallSendEffect
  <2>5. Quiet(c) /\ envs' = envs /\ at'[c] = "loop"
    BY <1>1, <2>4, UserStepQuiet
  <2>6. ~Waits(0)
    BY <1>1, <1>3 DEF Waits, Gone
  <2>7. Opening /\ Waits(1)
    BY <1>2, <1>3, <2>6 DEF GameInv, Players
  <2>8. Sends(c)' /\ lib'[c].val % 2 = c
    BY <1>3, <2>2, <2>4, <2>5, <2>7 DEF Sends, Opening, Me
  <2> QED BY <1>3, <2>5, <2>7, <2>8, HolderSteps DEF TurnOf
<1>4. CASE c = 1
  <2>2. envs[c].id /= First
    BY <1>4, FirstIsZero
  <2>3. UNCHANGED <<vars, lib>> /\ lib[c].at = "user"
    BY <2>2 DEF Start, Running
  <2>4. Quiet(c) /\ envs' = envs /\ at'[c] = "loop"
    BY <1>1, <2>3, UserStepQuiet DEF GameInv, LibTypes
  <2>5. Waits(1)
    BY <1>2, <1>4 DEF GameInv, Players
  <2>6. Waits(c)'
    BY <1>1, <1>4, <2>3, <2>4, <2>5 DEF Waits, Gone
  <2> QED BY <1>2, <1>4, <2>3, <2>4, <2>6, WaiterSteps
<1> QED BY <1>3, <1>4 DEF Players

\* A player that neither sends nor holds the number is the one that waits.
LEMMA WaiterIs ==
    ASSUME GameInv, NEW c \in Players, ~TurnOf(c), c = 1 \/ ~Opening
    PROVE  Waits(c)
<1>1. PICK d \in Players : d = 1 - c /\ 1 - d = c /\ \A e \in Players : e \in {c, d}
  BY PlayersAreSlots DEF Players
<1> QED BY <1>1 DEF GameInv

\* A player that has the turn has a partner that waits.
LEMMA PartnerWaits ==
    ASSUME GameInv, NEW c \in Players, Sends(c) \/ Holds(c)
    PROVE  Waits(1 - c) /\ TurnOf(c)
<1>1. PICK d \in Players : d = 1 - c /\ 1 - d = c /\ \A e \in Players : e \in {c, d}
  BY PlayersAreSlots DEF Players
<1>2. ~Waits(c) /\ at[c] \in {"loop", "answered", "received", "decide"}
  BY DEF Sends, Holds, Waits, Receiving, Gone
<1>3. ~(Opening /\ Waits(1))
  BY <1>2 DEF Opening, Players
<1> QED BY <1>1, <1>2, <1>3 DEF GameInv

\* A player calls ipc_recv.
LEMMA ReceiveSound == ASSUME GameInv, NEW c \in Players, Receive(c) PROVE GameInv'
<1>1. /\ at[c] = "loop" /\ at' = [at EXCEPT ![c] = "received"] /\ c \in Slot /\ 1 - c \in Slot
      /\ 1 - c /= c /\ lib[c].at = "user" /\ curenv = c /\ SysIpcRecv
      /\ lib' = [lib EXCEPT ![c].at = "take"]
  BY PlayersAreSlots DEF Receive, Goto, CallRecv, Running
<1>2. /\ lib' \in [Slot -> LibRecord] /\ lib'[1 - c] = lib[1 - c]
      /\ lib'[c].at = "take" /\ lib'[c].val = lib[c].val
  BY <1>1 DEF GameInv, LibTypes, LibRecord, LibAt
<1>3. /\ TableTypes' /\ ProcessorInv' /\ pos' \in -1..(NENV - 1)
      /\ envs'[c].recving = 1 /\ envs'[c].status = ENV_NOT_RUNNABLE
      /\ envs'[c].id = envs[c].id /\ envs'[1 - c] = envs[1 - c]
  BY <1>1, RecvWaits DEF GameInv
<1>4. at'[c] = "received" /\ at'[1 - c] = at[1 - c] /\ DOMAIN at' = Slot
  BY <1>1 DEF GameInv
<1>5. Quiet(c)
  BY <1>2, <1>3, <1>4 DEF Quiet, LibTypes, GameInv
<1>6. Waits(c)'
  BY <1>2, <1>3, <1>4 DEF Waits, Receiving, Gone
<1>7. ~TurnOf(c) /\ (c = 1 \/ ~Opening)
  BY <1>1 DEF TurnOf, Sends, Holds, Opening, Players, Gone
<1> QED BY <1>2, <1>5, <1>6, <1>7, WaiterSteps

\* ipc_recv, awake again, reads who sent.
LEMMA PlayerTakesWho ==
    ASSUME GameInv, NEW c \in Players, TakeWho(c), at' = at PROVE GameInv'
<1>1. /\ lib[c].at = "take" /\ curenv = c /\ mode = "user" /\ c \in Slot /\ UNCHANGED vars
      /\ lib' = [lib EXCEPT ![c].who = envs[c].from, ![c].at = "takeValue"]
  BY PlayersAreSlots DEF TakeWho, Running
<1>2. ~Receiving(c)
  BY <1>1 DEF GameInv, ProcessorInv, Runnable, Receiving, ENV_RUNNABLE, ENV_NOT_RUNNABLE
<1>3. PICK from : from = envs[c].from
  OBVIOUS
<1>4. from \in Nat
  BY <1>1, <1>3 DEF GameInv, LibTypes, TableTypes
<1>5. /\ lib' \in [Slot -> LibRecord] /\ \A s \in Slot \ {c} : lib'[s] = lib[s]
      /\ lib'[c].at = "takeValue" /\ lib'[c].who = from
  BY <1>1, <1>3, <1>4 DEF GameInv, LibTypes, LibRecord, LibAt
<1>6. Quiet(c) /\ envs' = envs
  BY <1>1, <1>5, UserStepQuiet
<1>7. ~Waits(c) /\ (c = 1 \/ ~Opening) /\ ~Sends(c) /\ ~Gone(c)
  BY <1>1, <1>2 DEF Waits, Opening, Sends, Gone, Players
<1>8. Holds(c)
  BY <1>7, WaiterIs DEF TurnOf, Gone
<1>9. Holds(c)' /\ lib'[1 - c].val % 2 = 1 - c
  <2>1. lib'[1 - c].val % 2 = 1 - c
    BY <1>6, <1>7, <1>8, PartnerWaits DEF TurnOf, Quiet
  <2>2. envs[c].from = Me(1 - c) /\ envs[c].value = lib[1 - c].val /\ at[c] = "received"
    BY <1>1, <1>8 DEF Holds
  <2> QED BY <1>3, <1>5, <1>6, <1>8, <2>1, <2>2 DEF Holds, Quiet
<1> QED BY <1>6, <1>8, <1>9, PartnerWaits, HolderSteps DEF TurnOf

\* ipc_recv returns into i.
LEMMA ReturnedSound == ASSUME GameInv, NEW c \in Players, Returned(c) PROVE GameInv'
<1>1. /\ at[c] = "received" /\ at' = [at EXCEPT ![c] = "decide"] /\ c \in Slot
      /\ lib[c].at = "takeValue" /\ UNCHANGED vars
      /\ lib' = [lib EXCEPT ![c].got = envs[c].value, ![c].at = "user"]
  BY PlayersAreSlots DEF Returned, Goto, TakeValue, Running
<1>2. PICK value : value = envs[c].value
  OBVIOUS
<1>3. value \in Nat
  BY <1>1, <1>2 DEF GameInv, LibTypes, TableTypes
<1>4. /\ lib' \in [Slot -> LibRecord] /\ \A s \in Slot \ {c} : lib'[s] = lib[s]
      /\ lib'[c].at = "user" /\ lib'[c].who = lib[c].who /\ lib'[c].got = value
  BY <1>1, <1>2, <1>3 DEF GameInv, LibTypes, LibRecord, LibAt
<1>5. Quiet(c) /\ envs' = envs /\ at'[c] = "decide"
  BY <1>1, <1>4, UserStepQuiet
<1>6. ~Waits(c) /\ (c = 1 \/ ~Opening) /\ ~Sends(c) /\ ~Gone(c)
  BY <1>1 DEF Waits, Opening, Sends, Gone, Players
<1>7. Holds(c)
  BY <1>6, WaiterIs DEF TurnOf
<1>8. Holds(c)' /\ lib'[1 - c].val % 2 = 1 - c
  <2>1. lib'[1 - c].val % 2 = 1 - c
    BY <1>5, <1>6, <1>7, PartnerWaits DEF TurnOf, Quiet
  <2>2. lib[c].who = Me(1 - c) /\ envs[c].value = lib[1 - c].val
    BY <1>1, <1>7 DEF Holds
  <2> QED BY <1>2, <1>4, <1>5, <1>7, <2>1, <2>2 DEF Holds, Quiet
<1> QED BY <1>5, <1>7, <1>8, PartnerWaits, HolderSteps DEF TurnOf

\* Who is in ipc_send has the turn.
LEMMA SenderIs ==
    ASSUME GameInv, NEW c \in Players, lib[c].at \in {"send", "yield"}
    PROVE  Sends(c) /\ Waits(1 - c) /\ lib[c].val % 2 = c
<1>1. ~Waits(c) /\ (c = 1 \/ ~Opening) /\ ~Holds(c) /\ ~Gone(c)
  BY DEF Waits, Opening, Holds, Gone, Players
<1>2. Sends(c)
  BY <1>1, WaiterIs DEF TurnOf
<1> QED BY <1>1, <1>2, PartnerWaits DEF TurnOf

\* A step of ipc_send that delivers nothing.
LEMMA StillSends ==
    ASSUME GameInv, NEW c \in Players, Sends(c), Waits(1 - c), lib[c].val % 2 = c,
           NEW where \in {"send", "yield", "panic"}, lib' = [lib EXCEPT ![c].at = where],
           at' = at, envs' = envs, ProcessorInv', pos' \in -1..(NENV - 1)
    PROVE  GameInv'
<1>1. c \in Slot /\ 1 - c \in Slot /\ 1 - c /= c
  BY PlayersAreSlots
<1>2. /\ lib' \in [Slot -> LibRecord] /\ lib'[1 - c] = lib[1 - c]
      /\ lib'[c].at = where /\ lib'[c].whom = lib[c].whom /\ lib'[c].val = lib[c].val
  BY <1>1 DEF GameInv, LibTypes, LibRecord, LibAt
<1>3. Quiet(c)
  BY <1>2 DEF Quiet, GameInv, LibTypes, TableTypes
<1>4. Sends(c)'
  BY <1>2 DEF Sends
<1> QED BY <1>2, <1>3, <1>4, HolderSteps DEF TurnOf

\* A player in ipc_send: its partner has gone, is not ready, or gets the number.
LEMMA PlayerTries == ASSUME GameInv, NEW c \in Players, SendTry(c), at' = at PROVE GameInv'
<1>1. /\ lib[c].at = "send" /\ curenv = c /\ mode = "user"
      /\ Sends(c) /\ Waits(1 - c) /\ lib[c].val % 2 = c
  BY SenderIs DEF SendTry, Running
<1>2. PICK d \in Players : /\ d = 1 - c /\ 1 - d = c /\ d /= c /\ c \in Slot /\ d \in Slot
                           /\ \A e \in Players : e \in {c, d}
  BY PlayersAreSlots DEF Players
<1>3. CASE UNCHANGED vars /\ \E where \in {"panic", "yield"} : lib' = [lib EXCEPT ![c].at = where]
  <2>1. ProcessorInv' /\ pos' \in -1..(NENV - 1)
    BY <1>3 DEF GameInv, ProcessorInv, Runnable, LibTypes, vars
  <2> QED BY <1>1, <1>3, <2>1, StillSends DEF vars
<1>4. CASE SysIpcCanSend(lib[c].whom, lib[c].val) /\ lib' = [lib EXCEPT ![c].at = "user"]
  <2>1. PICK id, value : id = lib[c].whom /\ value = lib[c].val
    OBVIOUS
  <2>2. id = Me(d) /\ SysIpcCanSend(id, value) /\ value \in Nat
    BY <1>1, <1>2, <1>4, <2>1 DEF Sends, GameInv, LibTypes, LibRecord
  <2>3. Envid2Env(id, FALSE) = d
    BY <1>2, <2>2, FindsSlot DEF GameInv, SysIpcCanSend
  <2>4. /\ TableTypes' /\ ProcessorInv' /\ pos' = pos /\ Receiving(d)
        /\ envs'[d].value = value /\ envs'[d].from = Me(c) /\ envs'[d].recving = 0
        /\ envs'[d].id = Me(d) /\ envs'[c] = envs[c]
    <3>1. LibTypes /\ ProcessorInv /\ d \in Slot
      BY <1>2 DEF GameInv
    <3>2. /\ TableTypes' /\ ProcessorInv' /\ pos' = pos /\ Receiving(d)
          /\ envs'[d].value = value /\ envs'[d].from = envs[curenv].id /\ envs'[d].recving = 0
          /\ envs'[d].id = envs[d].id /\ \A s \in Slot : s /= d => envs'[s] = envs[s]
      BY ONLY <2>2, <2>3, <3>1, SendTakes
    <3> QED BY ONLY <1>1, <1>2, <3>2, GameInv DEF GameInv
  <2>5. /\ lib' \in [Slot -> LibRecord] /\ lib'[d] = lib[d]
        /\ lib'[c].at = "user" /\ lib'[c].val = value
    BY <1>2, <1>4, <2>1 DEF GameInv, LibTypes, LibRecord, LibAt
  <2>6. at[d] = "received" /\ lib[d].at = "take"
    BY <1>1, <1>2, <2>4 DEF Waits, Receiving, Gone
  <2>7. Holds(d)' /\ lib'[1 - d].val % 2 = 1 - d
    BY <1>1, <1>2, <2>1, <2>4, <2>5, <2>6 DEF Holds
  <2>8. Waits(c)'
    BY <1>1, <2>4, <2>5 DEF Waits, Sends
  <2>9. LibTypes' /\ \A e \in Players : envs'[e].id = Me(e)
    BY <1>2, <2>4, <2>5 DEF LibTypes, GameInv
  <2> QED BY <1>2, <2>4, <2>7, <2>8, <2>9 DEF GameInv, TurnOf
<1> QED BY <1>3, <1>4 DEF SendTry

\* ipc_send gives up its slice.
LEMMA PlayerYields == ASSUME GameInv, NEW c \in Players, SendYield(c), at' = at PROVE GameInv'
<1>1. /\ lib[c].at = "yield" /\ lib' = [lib EXCEPT ![c].at = "send"] /\ envs' = envs
      /\ SchedYield(envs, curenv)
  BY DEF SendYield, Running, SysYield
<1>2. ProcessorInv' /\ pos' \in -1..(NENV - 1)
  BY <1>1, Reschedules DEF GameInv, LibTypes
<1> QED BY <1>1, <1>2, SenderIs, StillSends

\* A player that leaves destroys itself and nobody else: it is running, so its id is its own.
LEMMA QuitEffect ==
    ASSUME GameInv, NEW c \in Players, Quit(c), envs[c].recving = 0
    PROVE  Quiet(c) /\ Gone(c)' /\ lib' = lib
<1>1. /\ mode = "user" /\ curenv = c /\ lib[c].at = "user" /\ lib' = lib
      /\ at' = [at EXCEPT ![c] = "gone"] /\ SysEnvDestroy(envs[c].id)
      /\ c \in Slot /\ 1 - c \in Slot /\ 1 - c /= c /\ envs[c].id = Me(c)
  BY PlayersAreSlots DEF Quit, Running, Goto, GameInv
<1>2. envs[c].status /= ENV_FREE
  BY <1>1 DEF GameInv, ProcessorInv, Runnable, ENV_RUNNABLE, ENV_FREE
<1>3. Envid2Env(envs[c].id, TRUE) = c
  BY <1>1, <1>2, BootIds DEF Envid2Env
<1>4. envs' = [envs EXCEPT ![c].status = ENV_FREE] /\ SchedYield(envs', None)
  BY <1>1, <1>3 DEF SysEnvDestroy
<1>5. /\ TableTypes' /\ envs'[c].recving = envs[c].recving /\ envs'[c].id = envs[c].id
      /\ envs'[1 - c] = envs[1 - c]
  BY <1>1, <1>4 DEF GameInv, LibTypes, TableTypes, Status
<1>6. ProcessorInv' /\ pos' \in -1..(NENV - 1)
  BY <1>4, Reschedules DEF GameInv, LibTypes
<1>7. at'[c] = "gone" /\ at'[1 - c] = at[1 - c] /\ DOMAIN at' = Slot
  BY <1>1 DEF GameInv
<1> QED BY <1>1, <1>5, <1>6, <1>7 DEF Quiet, Gone, GameInv, LibTypes

\* Parity: the answer to the other player's number is mine.
LEMMA NextParity ==
    ASSUME NEW c \in Players, NEW v \in Nat, v % 2 = 1 - c
    PROVE  (v + 1) % 2 = c
BY DEF Players

\* The number is the last one, or its successor goes back.
LEMMA DecideSound == ASSUME GameInv, NEW c \in Players, Decide(c) PROVE GameInv'
<1>1. at[c] = "decide"
  BY DEF Decide
<1>2. ~Waits(c) /\ (c = 1 \/ ~Opening) /\ ~Sends(c) /\ ~Gone(c)
  BY <1>1 DEF Waits, Opening, Sends, Gone, Players
<1>3. Holds(c) /\ Waits(1 - c) /\ lib[1 - c].val % 2 = 1 - c
  BY <1>2, WaiterIs, PartnerWaits DEF TurnOf
<1>4. lib[c].who = Me(1 - c) /\ lib[c].got = lib[1 - c].val /\ envs[c].recving = 0
  BY <1>1, <1>3 DEF Holds
<1>5. CASE Quit(c)
  BY <1>3, <1>4, <1>5, QuitEffect, HolderSteps DEF TurnOf
<1>6. CASE CallSend(c, lib[c].who, lib[c].got + 1) /\ at' = [at EXCEPT ![c] = "answered"]
  <2>1. PICK whom, val : whom = lib[c].who /\ val = lib[c].got + 1
    OBVIOUS
  <2>2. lib[c].got \in Nat /\ whom \in Nat
    BY <2>1, PlayersAreSlots DEF GameInv, LibTypes, LibRecord
  <2>3. /\ lib' \in [Slot -> LibRecord] /\ \A s \in Slot \ {c} : lib'[s] = lib[s]
        /\ lib'[c].at = "send" /\ lib'[c].whom = whom /\ lib'[c].val = val /\ UNCHANGED vars
    BY <1>6, <2>1, <2>2, CallSendEffect
  <2>4. Quiet(c) /\ envs' = envs /\ at'[c] = "answered"
    BY <1>6, <2>3, UserStepQuiet
  <2>5. val % 2 = c
    BY <1>3, <1>4, <2>1, <2>2, NextParity
  <2>6. Sends(c)'
    BY <1>4, <2>1, <2>3, <2>4 DEF Sends
  <2> QED BY <1>3, <2>3, <2>4, <2>5, <2>6, HolderSteps DEF TurnOf
<1> QED BY <1>5, <1>6 DEF Decide, Goto

\* The number has been taken: it was the last one, or the player goes on to receive.
LEMMA AnsweredSound == ASSUME GameInv, NEW c \in Players, Answered(c) PROVE GameInv'
<1>1. at[c] = "answered" /\ lib[c].at = "user"
  BY DEF Answered, Quit, Running
<1>2. ~TurnOf(c) /\ (c = 1 \/ ~Opening)
  BY <1>1 DEF TurnOf, Sends, Holds, Gone, Opening, Players
<1>3. envs[c].recving = 0
  BY <1>1, <1>2, WaiterIs DEF Waits, Gone
<1>4. CASE Quit(c)
  <2>1. Quiet(c) /\ Gone(c)' /\ lib' = lib
    BY <1>3, <1>4, QuitEffect
  <2> QED BY <1>2, <2>1, WaiterSteps DEF Waits
<1>5. CASE at' = [at EXCEPT ![c] = "loop"] /\ UNCHANGED <<vars, lib>>
  <2>1. Quiet(c) /\ envs' = envs /\ at'[c] = "loop"
    BY <1>5, UserStepQuiet DEF GameInv, LibTypes
  <2>2. Waits(c)'
    BY <1>1, <1>3, <1>5, <2>1 DEF Waits
  <2> QED BY <1>2, <1>5, <2>1, <2>2, WaiterSteps
<1> QED BY <1>4, <1>5 DEF Answered, Goto

\* A step that no player takes.
LEMMA GameKept ==
    ASSUME GameInv, UNCHANGED <<envs, lib, at>>, ProcessorInv', pos' \in -1..(NENV - 1)
    PROVE  GameInv'
<1>1. LibTypes' /\ DOMAIN at' = Slot /\ \A c \in Players : envs'[c].id = Me(c)
  BY DEF GameInv, LibTypes, TableTypes
<1>2. \A c \in Players : (Waits(c) => Waits(c)') /\ (TurnOf(c) => TurnOf(c)')
  BY PlayerKept
<1>3. Opening => Opening'
  BY DEF Opening
<1>4. \A c \in Players : Waits(1 - c) => Waits(1 - c)'
  BY DEF Waits, Gone, Receiving
<1> QED BY <1>1, <1>2, <1>3, <1>4 DEF GameInv, Players

\* Every step of the game.
LEMMA GameStepSound == GameInv /\ [PPNext]_ppVars => GameInv'
<1> SUFFICES ASSUME GameInv, [PPNext]_ppVars PROVE GameInv'
  OBVIOUS
<1>1. ASSUME NEW c \in Players, PPStep(c) PROVE GameInv'
  BY <1>1, PlayerTries, PlayerYields, PlayerTakesWho, StartSound, ReceiveSound, ReturnedSound,
     DecideSound, AnsweredSound DEF PPStep, LibStep
<1>2. CASE PPTick
  <2>1. SchedYield(envs, curenv) /\ UNCHANGED <<envs, lib, at>>
    BY <1>2 DEF PPTick, Tick, HandleIrq
  <2>2. ProcessorInv' /\ pos' \in -1..(NENV - 1)
    BY <2>1, Reschedules DEF GameInv, LibTypes
  <2> QED BY <2>1, <2>2, GameKept
<1>3. CASE UNCHANGED ppVars
  <2>1. UNCHANGED vars /\ UNCHANGED <<envs, lib, at>>
    BY <1>3 DEF ppVars, vars
  <2>2. ProcessorInv' /\ pos' \in -1..(NENV - 1)
    BY <2>1 DEF GameInv, ProcessorInv, Runnable, LibTypes, vars
  <2> QED BY <2>1, <2>2, GameKept
<1> QED BY <1>1, <1>2, <1>3 DEF PPNext, Players

\* Two environments, neither of which has begun.
LEMMA GameInitSound == PPInit => GameInv
<1> SUFFICES ASSUME PPInit PROVE GameInv
  OBVIOUS
<1>1. /\ pos = -1 /\ mode = "boot" /\ at = [s \in Slot |-> "start"]
      /\ lib = [s \in Slot |-> [at |-> "user", whom |-> 0, val |-> 0, who |-> 0, got |-> 0]]
  BY DEF PPInit, BootedEnvs, LibClear
<1>2. \A c \in Slot : Me(c) \in Nat /\ Me(c) = MkEnvId(c + 1, c)
  BY BootIds DEF Me
<1>3. /\ ENV_RUNNABLE \in Status /\ ENV_FREE \in Status /\ "user" \in LibAt
      /\ -1 \in -1..(NENV - 1)
  BY NenvAssumption DEF Status, LibAt
<1>4. envs = [s \in Slot |-> IF s \in {0, 1}
                THEN [status |-> ENV_RUNNABLE, id |-> Me(s), parent |-> 0,
                      recving |-> 0, value |-> 0, from |-> 0]
                ELSE [status |-> ENV_FREE, id |-> 0, parent |-> 0,
                      recving |-> 0, value |-> 0, from |-> 0]]
  <2>1. envs = [s \in Slot |-> IF s \in {0, 1}
                  THEN [FreeEnv EXCEPT !.status = ENV_RUNNABLE, !.id = MkEnvId(s + 1, s)]
                  ELSE FreeEnv]
    BY DEF PPInit, BootedEnvs
  <2> QED BY <1>2, <2>1, BootRecord DEF FreeEnv
<1>5. TableTypes
  BY <1>2, <1>3, <1>4 DEF TableTypes
<1>6. lib \in [Slot -> LibRecord]
  BY <1>1, <1>3 DEF LibRecord
<1>7. \A c \in Players : envs[c].id = Me(c) /\ envs[c].recving = 0
  BY <1>4, PlayersAreSlots DEF Players
<1>8. Opening /\ Waits(1)
  BY <1>1, <1>7, PlayersAreSlots DEF Opening, Waits, Players
<1> QED BY <1>1, <1>3, <1>5, <1>6, <1>7, <1>8 DEF GameInv, LibTypes, ProcessorInv

-----------------------------------------------------------------------------
(* PingPong: who has left.                                                 *)

Calls(c) == lib[c].at \in {"send", "yield"}

\* What is left to say of player c, with d the other one: it leaves only when the last number
\* has been taken, and then nobody sends; the numbers grow up to the last one.
Leaves(c, d) ==
    /\ lib[c].val <= Last /\ lib[c].at /= "panic"
    /\ envs[c].status = ENV_FREE => at[c] = "gone"
    /\ at[c] = "gone" => ~Calls(d) /\ (lib[c].val = Last \/ lib[d].val = Last)
    /\ at[c] = "answered" => lib[c].val % 2 = c
    /\ Calls(c) \/ Holds(d) => lib[c].val >= lib[d].val

\* Before the first number the second player has at most called ipc_recv.
Early == at[0] = "start" => at[1] \in {"start", "loop", "received"} /\ lib[1].val = 0

LeaveInv == Early /\ \A c \in Players : Leaves(c, 1 - c)

\* One player and the other.
LEMMA PlayersPair ==
    ASSUME NEW c \in Players
    PROVE  \E d \in Players : /\ d = 1 - c /\ 1 - d = c /\ d /= c /\ c \in Slot /\ d \in Slot
                              /\ \A e \in Players : e \in {c, d}
                              /\ (c = 0 /\ d = 1) \/ (c = 1 /\ d = 0)
BY PlayersAreSlots DEF Players

\* The numbers are numbers.
LEMMA Numbers == ASSUME GameInv, NEW c \in Players PROVE lib[c].val \in Nat /\ lib[c].got \in Nat
BY PlayersAreSlots DEF GameInv, LibTypes, LibRecord

\* A step of c that starts no call, takes no message out of turn and does not leave.
LEMMA LeaveKept ==
    ASSUME GameInv, LeaveInv, NEW c \in Players, NEW d, d = 1 - c,
           lib'[d] = lib[d], at'[d] = at[d], envs'[d] = envs[d], lib'[c].val = lib[c].val,
           lib'[c].at /= "panic", envs'[c].status = ENV_FREE => at'[c] = "gone",
           at'[c] = "gone" => at[c] = "gone", at'[c] = "answered" => at[c] = "answered",
           Calls(c)' => Calls(c), Holds(c)' => Holds(c), at'[c] /= "start",
           at[0] = "start" => at'[c] \in {"loop", "received"}
    PROVE  LeaveInv'
<1>1. /\ d \in Players /\ 1 - d = c /\ \A e \in Players : e \in {c, d}
      /\ (c = 0 /\ d = 1) \/ (c = 1 /\ d = 0)
  BY PlayersPair
<1>2. Leaves(c, d) /\ Leaves(d, c)
  BY <1>1 DEF LeaveInv
<1>3. (Calls(d)' <=> Calls(d)) /\ (Holds(d)' <=> Holds(d))
  BY <1>1 DEF Calls, Holds
<1>4. Leaves(c, d)'
  BY <1>2, <1>3 DEF Leaves
<1>5. Leaves(d, c)'
  BY <1>2, <1>3 DEF Leaves
<1>6. Early'
  BY <1>1 DEF LeaveInv, Early
<1> QED BY <1>1, <1>4, <1>5, <1>6 DEF LeaveInv

\* A player leaves when the last number is with it or has been taken from it.
LEMMA QuitLeaves ==
    ASSUME GameInv, LeaveInv, NEW c \in Players, Quit(c), envs[c].recving = 0, ~Calls(1 - c),
           lib[c].val = Last \/ lib[1 - c].val = Last, at[0] /= "start"
    PROVE  LeaveInv'
<1>1. PICK d \in Players : /\ d = 1 - c /\ 1 - d = c /\ \A e \in Players : e \in {c, d}
                           /\ (c = 0 /\ d = 1) \/ (c = 1 /\ d = 0)
  BY PlayersPair
<1>2. Leaves(c, d) /\ Leaves(d, c)
  BY <1>1 DEF LeaveInv
<1>3. Quiet(c) /\ lib' = lib /\ at'[c] = "gone" /\ lib[c].at = "user"
  BY QuitEffect DEF Gone, Quit, Running
<1>4. at'[d] = at[d] /\ envs'[d] = envs[d]
  BY <1>1, <1>3 DEF Quiet
<1>5. ~Calls(c)' /\ ~Holds(c)' /\ ~Calls(d)' /\ (Holds(d)' => Holds(d))
  BY <1>1, <1>3, <1>4 DEF Calls, Holds
<1>6. Leaves(c, d)'
  BY <1>1, <1>2, <1>3, <1>5 DEF Leaves
<1>7. Leaves(d, c)'
  BY <1>2, <1>3, <1>4, <1>5 DEF Leaves
<1>8. Early'
  BY <1>1, <1>3, <1>4 DEF Early
<1> QED BY <1>1, <1>6, <1>7, <1>8 DEF LeaveInv

\* A call of ipc_send with a number that is not smaller than the other player's.
LEMMA CallLeaves ==
    ASSUME GameInv, LeaveInv, NEW c \in Players, UNCHANGED vars, lib'[1 - c] = lib[1 - c],
           at'[1 - c] = at[1 - c], lib'[c].at = "send", lib'[c].val \in Nat,
           lib'[c].val <= Last, lib'[c].val >= lib[1 - c].val,
           at[1 - c] /= "gone", at[c] /= "gone", ~Calls(1 - c),
           at'[c] \in {"loop", "answered"}, at'[c] = "answered" => lib'[c].val % 2 = c,
           c = 0 \/ at[0] /= "start"
    PROVE  LeaveInv'
<1>1. PICK d \in Players : /\ d = 1 - c /\ 1 - d = c /\ \A e \in Players : e \in {c, d}
                           /\ (c = 0 /\ d = 1) \/ (c = 1 /\ d = 0)
  BY PlayersPair
<1>2. Leaves(c, d) /\ Leaves(d, c) /\ envs' = envs
  BY <1>1 DEF LeaveInv, vars
<1>3. ~Calls(d)' /\ ~Holds(c)'
  BY <1>1 DEF Calls, Holds
<1>4. Leaves(c, d)'
  BY <1>1, <1>2, <1>3 DEF Leaves
<1>5. Leaves(d, c)'
  BY <1>1, <1>2, <1>3 DEF Leaves
<1>6. Early'
  BY <1>1 DEF Early
<1> QED BY <1>1, <1>4, <1>5, <1>6 DEF LeaveInv

\* Who has the number has begun, and so has the other one.
LEMMA TurnBegan ==
    ASSUME GameInv, NEW c \in Players, Sends(c) \/ Holds(c)
    PROVE  at[0] /= "start" /\ ~Calls(1 - c) /\ Waits(1 - c)
<1>1. PICK d \in Players : d = 1 - c /\ ((c = 0 /\ d = 1) \/ (c = 1 /\ d = 0))
  BY PlayersPair
<1>2. Waits(d)
  BY <1>1, PartnerWaits
<1>3. at[c] /= "start"
  BY DEF Sends, Holds
<1>4. ~Calls(d) /\ (d = 0 => at[d] /= "start")
  BY <1>2 DEF Waits, Gone, Calls
<1> QED BY <1>1, <1>2, <1>3, <1>4

\* ipc_send: the other player is still there, and at most the number moves.
LEMMA TryLeaves ==
    ASSUME GameInv, LeaveInv, NEW c \in Players, SendTry(c), at' = at PROVE LeaveInv'
<1>1. /\ lib[c].at = "send" /\ curenv = c /\ mode = "user"
      /\ Sends(c) /\ Waits(1 - c) /\ lib[c].val % 2 = c /\ at[0] /= "start" /\ Calls(c)
  BY SenderIs, TurnBegan DEF SendTry, Running, Calls
<1>2. PICK d \in Players : /\ d = 1 - c /\ 1 - d = c /\ d /= c /\ c \in Slot /\ d \in Slot
                           /\ \A e \in Players : e \in {c, d}
  BY PlayersPair
<1>3. Leaves(c, d) /\ Leaves(d, c) /\ lib[c].whom = Me(d)
  BY <1>1, <1>2 DEF LeaveInv, Sends
<1>4. at[c] \in {"loop", "answered"}
  BY <1>1 DEF Sends
<1>5. Envid2Env(lib[c].whom, FALSE) = d /\ d /= None
  <2>1. envs[d].id = Me(d) /\ envs[d].status /= ENV_FREE
    BY <1>1, <1>2, <1>3 DEF GameInv, Leaves
  <2>2. Envid2Env(Me(d), FALSE) = d
    BY <1>2, <2>1, FindsSlot
  <2>3. d /= None
    BY <1>2 DEF Slot, None
  <2> QED BY <1>3, <2>2, <2>3
<1>6. CASE UNCHANGED vars /\ lib' = [lib EXCEPT ![c].at = "yield"]
  <2>1. lib'[d] = lib[d] /\ lib'[c].at = "yield" /\ lib'[c].val = lib[c].val
    BY <1>2, <1>6 DEF GameInv, LibTypes, LibRecord
  <2>2. envs' = envs
    BY <1>6 DEF vars
  <2>3. envs'[c].status = ENV_FREE => at'[c] = "gone"
    BY <1>3, <2>2 DEF Leaves
  <2>4. ~Holds(c)'
    BY <1>4 DEF Holds
  <2> QED BY <1>1, <1>2, <1>4, <2>1, <2>2, <2>3, <2>4, LeaveKept
<1>7. CASE SysIpcCanSend(lib[c].whom, lib[c].val) /\ lib' = [lib EXCEPT ![c].at = "user"]
  <2>1. lib'[d] = lib[d] /\ lib'[c].at = "user" /\ lib'[c].val = lib[c].val
    BY <1>2, <1>7 DEF GameInv, LibTypes, LibRecord
  <2>2. PICK id, value : id = lib[c].whom /\ value = lib[c].val
    OBVIOUS
  <2>3. Envid2Env(id, FALSE) = d /\ SysIpcCanSend(id, value) /\ value \in Nat
    BY <1>5, <1>7, <2>2, Numbers
  <2>4. envs'[d].status = ENV_RUNNABLE /\ envs'[c] = envs[c]
    BY <1>2, <2>3, SendTakes DEF GameInv
  <2>5. ~Calls(c)' /\ ~Calls(d)' /\ ~Holds(c)'
    <3>1. ~Calls(d)
      BY <1>1, <1>2, TurnBegan
    <3> QED BY <1>4, <2>1, <3>1 DEF Calls, Holds
  <2>6. Leaves(c, d)'
    BY <1>1, <1>3, <2>1, <2>4, <2>5 DEF Leaves
  <2>7. Leaves(d, c)'
    BY <1>3, <2>1, <2>4, <2>5 DEF Leaves, ENV_FREE, ENV_RUNNABLE
  <2>8. Early'
    BY <1>1 DEF Early
  <2> QED BY <1>2, <2>6, <2>7, <2>8 DEF LeaveInv
<1> QED BY <1>5, <1>6, <1>7 DEF SendTry

LEMMA YieldLeaves ==
    ASSUME GameInv, LeaveInv, NEW c \in Players, SendYield(c), at' = at PROVE LeaveInv'
<1>1. /\ lib[c].at = "yield" /\ lib' = [lib EXCEPT ![c].at = "send"] /\ envs' = envs
      /\ Sends(c) /\ at[0] /= "start" /\ Calls(c)
  BY SenderIs, TurnBegan DEF SendYield, SysYield, Running, Calls
<1>2. PICK d \in Players : d = 1 - c /\ d /= c /\ c \in Slot /\ d \in Slot
  BY PlayersPair
<1>3. lib'[d] = lib[d] /\ lib'[c].at = "send" /\ lib'[c].val = lib[c].val
  BY <1>1, <1>2 DEF GameInv, LibTypes, LibRecord
<1>4. at[c] \in {"loop", "answered"}
  BY <1>1 DEF Sends
<1>5. envs'[c].status = ENV_FREE => at'[c] = "gone"
  BY <1>1, <1>2 DEF LeaveInv, Leaves
<1>6. ~Holds(c)'
  BY <1>4 DEF Holds
<1> QED BY <1>1, <1>2, <1>3, <1>4, <1>5, <1>6, LeaveKept

LEMMA TakeLeaves ==
    ASSUME GameInv, LeaveInv, NEW c \in Players, TakeWho(c), at' = at PROVE LeaveInv'
<1>1. /\ lib[c].at = "take" /\ curenv = c /\ mode = "user" /\ envs' = envs
      /\ lib' = [lib EXCEPT ![c].who = envs[c].from, ![c].at = "takeValue"]
  BY DEF TakeWho, Running, vars
<1>2. PICK d \in Players : d = 1 - c /\ d /= c /\ c \in Slot /\ d \in Slot
  BY PlayersPair
<1>3. ~Receiving(c)
  BY <1>1 DEF GameInv, ProcessorInv, Runnable, Receiving, ENV_RUNNABLE, ENV_NOT_RUNNABLE
<1>4. ~Waits(c) /\ (c = 1 \/ ~Opening) /\ ~Sends(c) /\ ~Gone(c)
  BY <1>1, <1>3 DEF Waits, Opening, Sends, Gone, Players
<1>5. Holds(c) /\ at[0] /= "start"
  BY <1>4, WaiterIs, TurnBegan DEF TurnOf
<1>6. lib'[d] = lib[d] /\ lib'[c].at = "takeValue" /\ lib'[c].val = lib[c].val
  BY <1>1, <1>2 DEF GameInv, LibTypes, LibRecord
<1>7. at[c] = "received" /\ ~Calls(c)'
  BY <1>1, <1>5, <1>6 DEF Holds, Calls
<1>8. envs'[c].status = ENV_FREE => at'[c] = "gone"
  BY <1>1, <1>2 DEF LeaveInv, Leaves
<1> QED BY <1>1, <1>2, <1>5, <1>6, <1>7, <1>8, LeaveKept

LEMMA ReturnedLeaves ==
    ASSUME GameInv, LeaveInv, NEW c \in Players, Returned(c) PROVE LeaveInv'
<1>1. /\ at[c] = "received" /\ at' = [at EXCEPT ![c] = "decide"] /\ envs' = envs
      /\ lib[c].at = "takeValue"
      /\ lib' = [lib EXCEPT ![c].got = envs[c].value, ![c].at = "user"]
  BY DEF Returned, Goto, TakeValue, Running, vars
<1>2. PICK d \in Players : d = 1 - c /\ d /= c /\ c \in Slot /\ d \in Slot
  BY PlayersPair
<1>3. ~Waits(c) /\ (c = 1 \/ ~Opening) /\ ~Sends(c) /\ ~Gone(c)
  BY <1>1 DEF Waits, Opening, Sends, Gone, Players
<1>4. Holds(c) /\ at[0] /= "start"
  BY <1>3, WaiterIs, TurnBegan DEF TurnOf
<1>5. lib'[d] = lib[d] /\ lib'[c].at = "user" /\ lib'[c].val = lib[c].val
  BY <1>1, <1>2 DEF GameInv, LibTypes, LibRecord
<1>6. at'[c] = "decide" /\ at'[d] = at[d] /\ ~Calls(c)'
  BY <1>1, <1>2, <1>5 DEF GameInv, Calls
<1>7. envs'[c].status /= ENV_FREE
  BY <1>1, <1>2 DEF LeaveInv, Leaves
<1> QED BY <1>1, <1>2, <1>4, <1>5, <1>6, <1>7, LeaveKept

LEMMA ReceiveLeaves ==
    ASSUME GameInv, LeaveInv, NEW c \in Players, Receive(c) PROVE LeaveInv'
<1>1. /\ at[c] = "loop" /\ at' = [at EXCEPT ![c] = "received"]
      /\ lib[c].at = "user" /\ curenv = c /\ SysIpcRecv
      /\ lib' = [lib EXCEPT ![c].at = "take"]
  BY DEF Receive, Goto, CallRecv, Running
<1>2. PICK d \in Players : d = 1 - c /\ d /= c /\ c \in Slot /\ d \in Slot
  BY PlayersPair
<1>3. lib'[d] = lib[d] /\ lib'[c].at = "take" /\ lib'[c].val = lib[c].val
  BY <1>1, <1>2 DEF GameInv, LibTypes, LibRecord
<1>4. envs'[c].recving = 1 /\ envs'[c].status = ENV_NOT_RUNNABLE /\ envs'[d] = envs[d]
  BY <1>1, <1>2, RecvWaits DEF GameInv
<1>5. at'[c] = "received" /\ at'[d] = at[d] /\ ~Calls(c)' /\ ~Holds(c)'
  BY <1>1, <1>2, <1>3, <1>4 DEF GameInv, Calls, Holds
<1>6. envs'[c].status /= ENV_FREE
  BY <1>4 DEF ENV_FREE, ENV_NOT_RUNNABLE
<1> QED BY <1>2, <1>3, <1>4, <1>5, <1>6, LeaveKept

LEMMA StartLeaves ==
    ASSUME GameInv, LeaveInv, NEW c \in Players, Start(c) PROVE LeaveInv'
<1>1. at[c] = "start" /\ at' = [at EXCEPT ![c] = "loop"]
  BY DEF Start, Goto
<1>2. PICK d \in Players : /\ d = 1 - c /\ d /= c /\ c \in Slot /\ d \in Slot
                           /\ (c = 0 /\ d = 1) \/ (c = 1 /\ d = 0)
  BY PlayersPair
<1>3. at'[c] = "loop" /\ at'[d] = at[d] /\ ~Holds(c)'
  BY <1>1, <1>2 DEF GameInv, Holds
<1>4. CASE c = 0
  <2>1. CallSend(c, Second, 0) /\ Second \in Nat
    <3>1. Second = Me(1) /\ 1 \in Slot
      BY <1>2, <1>4 DEF Second, Me
    <3> QED BY <1>1, <1>4, <3>1, FirstIsZero, BootIds DEF Start
  <2>2. /\ lib'[d] = lib[d] /\ lib'[c].at = "send" /\ lib'[c].val = 0 /\ UNCHANGED vars
    BY <1>2, <2>1, CallSendEffect
  <2>3. at[d] \in {"start", "loop", "received"} /\ lib[d].val = 0
    BY <1>1, <1>2, <1>4 DEF LeaveInv, Early
  <2>4. ~Calls(d)
    <3>1. ~Waits(0)
      BY <1>1, <1>4 DEF Waits, Gone
    <3>2. Waits(d) \/ TurnOf(0)
      BY <1>2, <1>4, <3>1 DEF GameInv, Players
    <3>3. ~TurnOf(0)
      BY <1>1, <1>4 DEF TurnOf, Sends, Holds, Gone
    <3> QED BY <3>2, <3>3 DEF Waits, Gone, Calls
  <2>5. Last \in Nat
    BY PingPongAssumption
  <2> QED BY <1>1, <1>2, <1>3, <1>4, <2>2, <2>3, <2>4, <2>5, CallLeaves
<1>5. CASE c = 1
  <2>1. UNCHANGED <<vars, lib>> /\ lib[c].at = "user"
    BY <1>1, <1>5, FirstIsZero DEF Start, Running
  <2>2. lib'[d] = lib[d] /\ lib'[c] = lib[c] /\ envs' = envs /\ ~Calls(c)'
    BY <2>1 DEF vars, Calls
  <2>3. envs'[c].status /= ENV_FREE
    BY <1>1, <1>2, <2>2 DEF LeaveInv, Leaves
  <2> QED BY <1>2, <1>3, <2>1, <2>2, <2>3, LeaveKept
<1> QED BY <1>4, <1>5 DEF Players

LEMMA DecideLeaves ==
    ASSUME GameInv, LeaveInv, NEW c \in Players, Decide(c) PROVE LeaveInv'
<1>1. at[c] = "decide"
  BY DEF Decide
<1>2. PICK d \in Players : /\ d = 1 - c /\ d /= c /\ 1 - d = c /\ c \in Slot /\ d \in Slot
                           /\ (c = 0 /\ d = 1) \/ (c = 1 /\ d = 0)
  BY PlayersPair
<1>3. ~Waits(c) /\ (c = 1 \/ ~Opening) /\ ~Sends(c) /\ ~Gone(c)
  BY <1>1 DEF Waits, Opening, Sends, Gone, Players
<1>4. Holds(c) /\ at[0] /= "start" /\ ~Calls(d) /\ lib[d].val % 2 = d
  BY <1>2, <1>3, WaiterIs, TurnBegan DEF TurnOf
<1>5. lib[c].who = Me(d) /\ lib[c].got = lib[d].val /\ envs[c].recving = 0
  BY <1>1, <1>2, <1>4 DEF Holds
<1>6. Leaves(c, d) /\ Leaves(d, c) /\ lib[c].val \in Nat /\ lib[d].val \in Nat /\ Last \in Nat
  BY <1>2, Numbers, PingPongAssumption DEF LeaveInv
<1>7. CASE lib[c].got = Last /\ Quit(c)
  BY <1>2, <1>4, <1>5, <1>7, QuitLeaves
<1>8. CASE /\ lib[c].got /= Last /\ CallSend(c, lib[c].who, lib[c].got + 1)
           /\ at' = [at EXCEPT ![c] = "answered"]
  <2>1. PICK whom \in Nat, val \in Nat : whom = lib[c].who /\ val = lib[c].got + 1
    BY <1>2, <1>5, <1>6, BootIds
  <2>2. /\ lib'[d] = lib[d] /\ lib'[c].at = "send" /\ lib'[c].val = val /\ UNCHANGED vars
    BY <1>2, <1>8, <2>1, CallSendEffect
  <2>3. at'[c] = "answered" /\ at'[d] = at[d]
    BY <1>2, <1>8 DEF GameInv
  <2>4. val <= Last /\ val >= lib[d].val /\ lib[d].val < Last
    BY <1>5, <1>6, <1>8, <2>1 DEF Leaves
  <2>5. val % 2 = c
    BY <1>2, <1>4, <1>5, <1>6, <2>1, NextParity
  <2>6. at[d] /= "gone"
    <3>1. lib[d].val >= lib[c].val
      BY <1>4, <1>6 DEF Leaves
    <3>2. lib[c].val /= Last /\ lib[d].val /= Last
      BY <1>6, <2>4, <3>1
    <3> QED BY <1>6, <3>2 DEF Leaves
  <2> QED BY <1>1, <1>2, <1>4, <2>2, <2>3, <2>4, <2>5, <2>6, CallLeaves
<1> QED BY <1>7, <1>8 DEF Decide, Goto

LEMMA AnsweredLeaves ==
    ASSUME GameInv, LeaveInv, NEW c \in Players, Answered(c) PROVE LeaveInv'
<1>1. at[c] = "answered" /\ lib[c].at = "user"
  BY DEF Answered, Quit, Running
<1>2. PICK d \in Players : /\ d = 1 - c /\ d /= c /\ 1 - d = c /\ c \in Slot /\ d \in Slot
                           /\ (c = 0 /\ d = 1) \/ (c = 1 /\ d = 0)
  BY PlayersPair
<1>3. /\ Leaves(c, d) /\ Leaves(d, c) /\ at[0] /= "start"
      /\ lib[c].val \in Nat /\ lib[d].val \in Nat /\ Last \in Nat
  BY <1>1, <1>2, Numbers, PingPongAssumption DEF LeaveInv, Early
<1>4. ~TurnOf(c) /\ (c = 1 \/ ~Opening)
  BY <1>1 DEF TurnOf, Sends, Holds, Gone, Opening, Players
<1>5. envs[c].recving = 0
  BY <1>1, <1>4, WaiterIs DEF Waits, Gone
<1>6. CASE lib[c].val = Last /\ Quit(c)
  <2>1. ASSUME Calls(d) PROVE FALSE
    <3>1. lib[d].val % 2 = d
      BY <2>1, SenderIs DEF Calls
    <3>2. lib[d].val = Last
      BY <1>3, <1>6, <2>1 DEF Leaves
    <3>3. lib[c].val % 2 = c
      BY <1>1, <1>3 DEF Leaves
    <3> QED BY <1>2, <1>6, <3>1, <3>2, <3>3
  <2> QED BY <1>2, <1>3, <1>5, <1>6, <2>1, QuitLeaves
<1>7. CASE at' = [at EXCEPT ![c] = "loop"] /\ UNCHANGED <<vars, lib>>
  <2>1. /\ at'[c] = "loop" /\ at'[d] = at[d] /\ lib' = lib /\ envs' = envs
        /\ ~Calls(c)' /\ ~Holds(c)'
    BY <1>1, <1>2, <1>7 DEF GameInv, vars, Calls, Holds
  <2>2. envs'[c].status /= ENV_FREE
    BY <1>1, <1>3, <2>1 DEF Leaves
  <2> QED BY <1>1, <1>2, <1>3, <2>1, <2>2, LeaveKept DEF Leaves
<1> QED BY <1>6, <1>7 DEF Answered, Goto

\* Every step of the game.
LEMMA LeaveStepSound == GameInv /\ LeaveInv /\ [PPNext]_ppVars => LeaveInv'
<1> SUFFICES ASSUME GameInv, LeaveInv, [PPNext]_ppVars PROVE LeaveInv'
  OBVIOUS
<1>1. ASSUME NEW c \in Players, PPStep(c) PROVE LeaveInv'
  BY <1>1, TryLeaves, YieldLeaves, TakeLeaves, StartLeaves, ReceiveLeaves, ReturnedLeaves,
     DecideLeaves, AnsweredLeaves DEF PPStep, LibStep
<1>2. CASE PPTick \/ UNCHANGED ppVars
  <2>1. UNCHANGED <<envs, lib, at>>
    BY <1>2 DEF PPTick, Tick, HandleIrq, ppVars, vars
  <2>2. \A c \in Players : Leaves(c, 1 - c)'
    BY <2>1 DEF LeaveInv, Leaves, Calls, Holds
  <2> QED BY <2>1, <2>2 DEF LeaveInv, Early
<1> QED BY <1>1, <1>2 DEF PPNext, Players

\* Nobody has begun, and all numbers are zero.
LEMMA LeaveInitSound == PPInit => LeaveInv
<1> SUFFICES ASSUME PPInit PROVE LeaveInv
  OBVIOUS
<1>1. \A c \in Players :
        at[c] = "start" /\ lib[c].at = "user" /\ lib[c].val = 0
  BY PlayersAreSlots DEF PPInit, BootedEnvs, LibClear, Players
<1>2. \A c \in Players : envs[c].status = ENV_RUNNABLE
  <2>1. \A c \in Players :
          envs[c] = [FreeEnv EXCEPT !.status = ENV_RUNNABLE, !.id = MkEnvId(c + 1, c)]
    BY PlayersAreSlots DEF PPInit, BootedEnvs, Players
  <2> SUFFICES ASSUME NEW c \in Players PROVE envs[c].status = ENV_RUNNABLE
    OBVIOUS
  <2>2. PICK id : id = MkEnvId(c + 1, c)
    OBVIOUS
  <2>3. PICK e : e = [FreeEnv EXCEPT !.status = ENV_RUNNABLE, !.id = id]
    OBVIOUS
  <2>4. e.status = ENV_RUNNABLE
    BY ONLY <2>3, BootRecord
  <2> QED BY ONLY <2>1, <2>2, <2>3, <2>4
<1>3. Last \in Nat
  BY PingPongAssumption
<1>4. ASSUME NEW c \in Players PROVE Leaves(c, 1 - c)
  <2>1. PICK d \in Players : d = 1 - c
    BY PlayersPair
  <2>2. ~Calls(c) /\ ~Holds(d)
    BY <1>1 DEF Calls, Holds
  <2> QED BY <1>1, <1>2, <1>3, <2>1, <2>2 DEF Leaves, ENV_RUNNABLE, ENV_FREE
<1> QED BY <1>1, <1>4 DEF LeaveInv, Early, Players

\* The players do to the kernel what any program may do and nothing else, in particular each
\* destroys itself only.
LEMMA GameIsKernel ==
    ASSUME MaxEnv >= 2, GameInv, LeaveInv, nextId = 2, [PPNext]_ppVars
    PROVE  [Next]_vars /\ nextId' = nextId
<1>1. ASSUME NEW c \in Players PROVE Me(c) \in NamedId
  <2>1. c \in Slot /\ nextId \in Nat /\ c < nextId /\ nextId <= MaxEnv
    BY PlayersAreSlots DEF Players
  <2> QED BY <2>1, BootIdsNamed
<1>2. ASSUME NEW c \in Players, LibStep(c) PROVE [Next]_vars /\ nextId' = nextId
  <2>1. PICK d \in Players : d = 1 - c /\ c \in Slot
    BY PlayersPair
  <2>2. ASSUME lib[c].at = "send" PROVE lib[c].whom \in NamedId /\ lib[c].val \in Value
    <3>1. lib[c].whom = Me(d)
      BY <2>1, <2>2, SenderIs DEF Sends
    <3>2. lib[c].val \in 0..Last
      BY Numbers, PingPongAssumption DEF LeaveInv, Leaves
    <3> QED BY <1>1, <3>1, <3>2, PingPongAssumption
  <2> QED BY <1>2, <2>1, <2>2, LibIsKernel
<1>3. ASSUME NEW c \in Players, Quit(c) PROVE [Next]_vars /\ nextId' = nextId
  <2>1. PICK id \in NamedId : id = envs[c].id
    BY <1>1 DEF GameInv
  <2>2. SysEnvDestroy(id)
    BY <1>3, <2>1 DEF Quit
  <2> QED BY <2>2 DEF Next, SysEnvDestroy
<1>4. ASSUME NEW c \in Players, Start(c) \/ Receive(c) \/ Returned(c) \/ Decide(c) \/ Answered(c)
      PROVE  [Next]_vars /\ nextId' = nextId
  <2>1. UNCHANGED vars \/ Quit(c) \/ SysIpcRecv
    BY <1>4 DEF Start, Receive, Returned, Decide, Answered, CallSend, CallRecv, TakeValue
  <2>2. CASE SysIpcRecv
    BY <2>2 DEF Next, SysIpcRecv
  <2> QED BY <1>3, <2>1, <2>2 DEF vars
<1>5. CASE PPTick
  BY <1>5 DEF PPTick, Tick, Next, HandleIrq
<1>6. CASE UNCHANGED ppVars
  BY <1>6 DEF ppVars, vars
<1> QED BY <1>2, <1>4, <1>5, <1>6 DEF PPNext, PPStep, Players

-----------------------------------------------------------------------------
(* PingPong: the theorems.                                                 *)

\* The invariant of the game.
THEOREM GameInvariant == PPSpec => [](GameInv /\ LeaveInv)
<1>1. GameInv /\ LeaveInv /\ [PPNext]_ppVars => GameInv' /\ LeaveInv'
  BY GameStepSound, LeaveStepSound
<1>2. PPInit => GameInv /\ LeaveInv
  BY GameInitSound, LeaveInitSound
<1> QED BY <1>1, <1>2, PTL DEF PPSpec

\* user_main_pingpong: the number a player decides about is the one the other player sent last,
\* whatever the interrupts do, the first player sends the even numbers, and whoever leaves
\* first, the other one does not send to it and end in the panic of ipc_send.
THEOREM PlayersTakeTurns == PPSpec => []TakeTurns
<1>1. GameInv /\ LeaveInv => TakeTurns
  <2> SUFFICES ASSUME GameInv, LeaveInv, NEW c \in Players
               PROVE  /\ at[c] = "decide" =>
                          /\ lib[c].got = lib[1 - c].val /\ lib[c].who = envs[1 - c].id
                          /\ lib[c].got % 2 = 1 - c
                      /\ lib[c].at \in {"send", "yield"} => at[1 - c] /= "gone"
                      /\ lib[c].at /= "panic"
    BY DEF TakeTurns, Players
  <2>1. ASSUME at[c] = "decide"
        PROVE  /\ lib[c].got = lib[1 - c].val /\ lib[c].who = envs[1 - c].id
               /\ lib[c].got % 2 = 1 - c
    <3>1. ~Waits(c) /\ (c = 1 \/ ~Opening) /\ ~Sends(c) /\ ~Gone(c)
      BY <2>1 DEF Waits, Opening, Sends, Gone, Players
    <3>2. Holds(c) /\ lib[1 - c].val % 2 = 1 - c
      BY <3>1, WaiterIs DEF TurnOf
    <3>3. lib[c].who = Me(1 - c) /\ lib[c].got = lib[1 - c].val
      BY <2>1, <3>2 DEF Holds
    <3> QED BY <3>2, <3>3, PlayersAreSlots DEF GameInv
  <2>2. PICK d \in Players : d = 1 - c /\ 1 - d = c
    BY PlayersPair
  <2>3. Leaves(c, d) /\ Leaves(d, c)
    BY <2>2 DEF LeaveInv
  <2> QED BY <2>1, <2>2, <2>3 DEF Leaves, Calls
<1> QED BY <1>1, GameInvariant, PTL

\* The programs of PingPong do to the kernel what any program may do and nothing else, so that
\* the free list and the ids stay sound while they run and when they have left.
THEOREM PlayersUseKernel ==
    ASSUME MaxEnv >= 2
    PROVE  PPSpec => [][Next]_vars /\ [](FreeListSound /\ IdsSound)
<1> DEFINE Inv == GameInv /\ LeaveInv /\ nextId = 2 /\ IndInv
<1>1. PPInit => Inv
  <2> SUFFICES ASSUME PPInit PROVE nextId = 2 /\ IndInv
    BY GameInitSound, LeaveInitSound
  <2>1. PICK k \in 1..NENV : k = 2
    BY PingPongAssumption, NenvAssumption
  <2>2. BootedEnvs({0, 1}) /\ {0, 1} = 0..(k - 1)
    BY <2>1 DEF PPInit
  <2> QED BY <2>1, <2>2, BootedSound
<1>2. Inv /\ [PPNext]_ppVars => Inv' /\ [Next]_vars
  <2> SUFFICES ASSUME Inv, [PPNext]_ppVars PROVE Inv' /\ [Next]_vars
    OBVIOUS
  <2>1. [Next]_vars /\ nextId' = nextId
    BY GameIsKernel
  <2>2. GameInv' /\ LeaveInv'
    BY GameStepSound, LeaveStepSound
  <2>3. IndInv'
    BY <2>1, StepSound
  <2> QED BY <2>1, <2>2, <2>3
<1>3. Inv => FreeListSound /\ IdsSound
  BY IdsFollow DEF IndInv
<1> HIDE DEF Inv
<1> QED BY <1>1, <1>2, <1>3, PTL DEF PPSpec
=============================================================================
