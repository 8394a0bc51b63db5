------------------------------ MODULE MCSystem ------------------------------
\* Values for TLC.
EXTENDS System

OneValue == {0}
SomeStatus == {ENV_FREE}
\* 20: below directory entry 1, whose tables all environments share.  51: the stack.
SharedVPN == {20, 51}
StackVPN == {51}
\* A page may name a frame or nothing behind a block entry.
SomeWords == {Nil, 9}

\* Of the last call, the next one depends on no more than this.
StateView == <<vars, mem, dstva, last.op = "boot", last.op = "stray">>
=============================================================================
