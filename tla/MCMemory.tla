------------------------------ MODULE MCMemory ------------------------------
\* A small machine for TLC: a page table holds two entries, a middle directory
\* eight, so a directory entry covers sixteen pages (0x40000000 bytes in the code).
EXTENDS Memory, TLC

CONSTANTS e1, e2
EnvSet == {e1, e2}
EnvSymmetry == Permutations(EnvSet)

\* 33: directory entry 2, which env_free skips.  50, 51: one page table of entry 3;
\* 51 is the stack.
PrivateVPN == {33, 50, 51}

\* Behind a block entry: nothing, a frame that a table or a page uses, beyond npage.
SomeWords == {Nil, 3, NPAGE}
=============================================================================
