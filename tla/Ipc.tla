-------------------------------- MODULE Ipc ---------------------------------
(***************************************************************************)
(* Many senders, one receiver: each sender calls ipc_send for the values   *)
(* 1 to Count in order, the receiver calls ipc_recv for ever.              *)
(***************************************************************************)
EXTENDS IpcLib

CONSTANTS
    Receiver,  \* slot of the receiving program; all other slots send
    Count      \* bound: messages per sender

ASSUME IpcAssumption == Receiver \in Slot /\ Count \in Nat /\ 0..Count \subseteq Value

VARIABLE received  \* history: the messages ipc_recv returned, sender and value
ipcVars == <<vars, lib, received>>

Senders == Slot \ {Receiver}
Me(c) == MkEnvId(c + 1, c)

IpcInit == BootedEnvs(Slot) /\ received = <<>>

\* lib[c].val is the last value the sender passed to ipc_send.
SenderStep(c) ==
    /\ lib[c].val < Count
    /\ CallSend(c, Me(Receiver), lib[c].val + 1)
    /\ UNCHANGED received

Return ==
    /\ TakeValue(Receiver)
    /\ received' = Append(received, [who |-> lib'[Receiver].who, val |-> lib'[Receiver].got])

IpcStep(c) ==
    \/ LibStep(c) /\ UNCHANGED received
    \/ c \in Senders /\ SenderStep(c)
    \/ c = Receiver /\ CallRecv(c) /\ UNCHANGED received
    \/ c = Receiver /\ Return

IpcTick == Tick /\ UNCHANGED received

IpcNext == (\E c \in Slot : IpcStep(c)) \/ IpcTick

\* A time slice is long enough for one step of the program that has the processor,
\* again and again; and the timer keeps interrupting.
IpcSpec == IpcInit /\ [][IpcNext]_ipcVars
IpcFairSpec == IpcSpec /\ WF_ipcVars(IpcTick) /\ \A c \in Slot : SF_ipcVars(IpcStep(c))

-----------------------------------------------------------------------------
\* The places in received of the messages of a sender.
From(c) == {i \in DOMAIN received : received[i].who = Me(c)}

\* Messages a sender's ipc_send has reported as sent.
Sent(c) == IF lib[c].at = "user" THEN lib[c].val ELSE lib[c].val - 1

\* What the receiver gets from each sender is 1, 2, 3, ... without gap, repetition or
\* exchange, every message belongs to a sender, and at most one of those a sender
\* believes sent is still on its way.
ExactlyOnceInOrder ==
    /\ \A c \in Senders : \A i \in From(c) :
        received[i].val = Cardinality({j \in From(c) : j <= i})
    /\ Len(received) <= Cardinality(Senders) * Count
    /\ \A i \in 1..Len(received) : \E c \in Senders : received[i].who = Me(c)
    /\ \A c \in Senders : Cardinality(From(c)) \in {Sent(c) - 1, Sent(c)}

\* The fields of the receiver's Env are a mailbox for one message: it is in there from the
\* system call that delivers it until ipc_recv returns it, and in between no other sender
\* is told that its message was delivered.
InBox == lib[Receiver].at \in {"take", "takeValue"} /\ ~Receiving(Receiver)
EmptyBox == [who |-> 0, val |-> 0]

Mail == INSTANCE Mailbox WITH
    Sender <- {Me(c) : c \in Senders}, Empty <- EmptyBox,
    sent <- [s \in {Me(c) : c \in Senders} |-> Sent(ENVX(s))],
    box <- IF InBox THEN [who |-> envs[Receiver].from, val |-> envs[Receiver].value]
           ELSE EmptyBox

\* Every step of the programs and of the kernel puts a message in, takes one out, or does
\* nothing that a sender or the receiver can see.
ImplementsMailbox == Mail!Spec

\* The receiver's fields hold one message that ipc_recv has not yet returned, or none:
\* a second sender cannot overwrite it.
OneInFlight ==
    LET pending == {c \in Senders : Sent(c) > Cardinality(From(c))}
    IN  /\ Cardinality(pending) <= 1
        /\ pending /= {} => InBox

\* No message is left behind while a sender spins in ipc_send: although the receiver
\* takes whoever comes first, each sender is served in the end.
AllArrive == \A c \in Senders : <>(Cardinality(From(c)) = Count)
=============================================================================
