---------------------------- MODULE MCSequential -----------------------------
(***************************************************************************)
(* The parts that nothing interrupts, each from its own initial states     *)
(* while the other two stand still.                                        *)
(***************************************************************************)
EXTENDS Boot, LpPrint, Dispatch

VARIABLE part

\* Boot: arrays of half a page, of exactly one, and of more than one page table.
Images == {1, 2}
PagesSizes == {1, 2, 9}
EnvsSizes == {1, 4, 9}
\* A page below the directory entry of the segments, and one of a user program.
OtherVPN == {90, 150}

\* LpPrint: every format of up to four characters, and some longer ones.
Alphabet == {"%", "l", "-", "0", "5", ".", "d", "s", "a"}
Formats ==
    UNION {[1..n -> Alphabet] : n \in 0..4}
        \union {<<"%", "l", "-", "0", "5", ".", "5", "d", "a">>, <<"%", "-", "l", "d", "%", "%", "s">>,
                <<"a", "%", "0", "-", "d", "%", "5", ".", "l">>}

\* Dispatch: around the base, the end of the table and the bound.
RawNumbers == {-1, 0, 13, 14, 19, 20, 21}

SeqInit ==
    /\ part \in {"boot", "print", "dispatch"}
    /\ BootInit /\ PrintInit /\ DispatchInit
    /\ part /= "boot" => image = 1 /\ size[1] = 1 /\ size[2] = 1
    /\ part /= "print" => fmt = <<>>

SeqNext ==
    /\ \/ part = "boot" /\ BootNext /\ UNCHANGED <<printVars, dispatchVars>>
       \/ part = "print" /\ PrintNext /\ UNCHANGED <<bootVars, dispatchVars>>
       \/ part = "dispatch" /\ DispatchNext /\ UNCHANGED <<bootVars, printVars>>
    /\ UNCHANGED part

SeqSpec == SeqInit /\ [][SeqNext]_<<bootVars, printVars, dispatchVars, part>>
=============================================================================
