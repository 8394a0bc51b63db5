------------------------------- MODULE MCIpc --------------------------------
\* Values for TLC: a small number of messages per sender.
EXTENDS Ipc

SmallValues == 0..3
NoStatus == {}
=============================================================================
