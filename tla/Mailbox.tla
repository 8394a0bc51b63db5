------------------------------ MODULE Mailbox -------------------------------
(***************************************************************************)
(* What ipc_send and ipc_recv promise, without statuses, retries and       *)
(* scheduling: a mailbox for one message.  A sender puts its next message  *)
(* into it when it is empty, the receiver takes out what is in it.         *)
(***************************************************************************)
EXTENDS Naturals, Sequences

CONSTANTS
    Sender,  \* ids of the senders
    Count,   \* messages of each sender
    Empty    \* no message

VARIABLES
    sent,     \* per sender: how many messages it has put into the mailbox
    box,      \* the message in the mailbox, or Empty
    received  \* the messages taken out, in order
vars == <<sent, box, received>>

Init == sent = [s \in Sender |-> 0] /\ box = Empty /\ received = <<>>

Put(s) ==
    /\ box = Empty /\ sent[s] < Count
    /\ sent' = [sent EXCEPT ![s] = @ + 1]
    /\ box' = [who |-> s, val |-> sent[s] + 1]
    /\ UNCHANGED received

Take ==
    /\ box /= Empty /\ box' = Empty
    /\ received' = Append(received, box)
    /\ UNCHANGED sent

Next == (\E s \in Sender : Put(s)) \/ Take

Spec == Init /\ [][Next]_vars
=============================================================================
