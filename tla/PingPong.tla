------------------------------ MODULE PingPong ------------------------------
(***************************************************************************)
(* user_main_pingpong: two environments pass a growing number back and     *)
(* forth, until it is Last; each then destroys itself.                     *)
(***************************************************************************)
EXTENDS IpcLib

CONSTANT Last  \* 10 in the program

ASSUME PingPongAssumption == NENV >= 2 /\ Last \in Nat /\ 0..Last \subseteq Value

VARIABLE at  \* per slot: where user_main_pingpong is
ppVars == <<vars, lib, at>>

First == MkEnvId(1, 0)   \* 0x800
Second == MkEnvId(2, 1)  \* 0x1001

PPInit == BootedEnvs({0, 1}) /\ at = [s \in Slot |-> "start"]

Goto(c, place) == at' = [at EXCEPT ![c] = place]

\* The program asks for its id; the first environment opens the game.
Start(c) ==
    /\ at[c] = "start"
    /\ IF envs[c].id = First THEN CallSend(c, Second, 0)
       ELSE Running(c, "user") /\ UNCHANGED <<vars, lib>>
    /\ Goto(c, "loop")

Receive(c) == at[c] = "loop" /\ CallRecv(c) /\ Goto(c, "received")

\* The value arrives in i; unless it is the last one, i + 1 goes back to the sender.
Returned(c) ==
    /\ at[c] = "received" /\ TakeValue(c) /\ Goto(c, "decide")

Quit(c) ==
    /\ Running(c, "user")
    /\ SysEnvDestroy(envs[c].id)
    /\ UNCHANGED lib
    /\ Goto(c, "gone")

Decide(c) ==
    /\ at[c] = "decide"
    /\ \/ lib[c].got = Last /\ Quit(c)
       \/ lib[c].got /= Last /\ CallSend(c, lib[c].who, lib[c].got + 1) /\ Goto(c, "answered")

\* Mutant: the environment leaves after the last number but one.
AnsweredOneEarly(c) ==
    /\ at[c] = "answered"
    /\ \/ lib[c].val = Last - 1 /\ Quit(c)
       \/ lib[c].val /= Last - 1 /\ Running(c, "user") /\ Goto(c, "loop") /\ UNCHANGED <<vars, lib>>

Answered(c) ==
    /\ at[c] = "answered"
    /\ \/ lib[c].val = Last /\ Quit(c)
       \/ lib[c].val /= Last /\ Running(c, "user") /\ Goto(c, "loop") /\ UNCHANGED <<vars, lib>>

PPStep(c) ==
    \/ LibStep(c) /\ UNCHANGED at
    \/ Start(c)
    \/ Receive(c)
    \/ Returned(c)
    \/ Decide(c)
    \/ Answered(c)

PPTick == Tick /\ UNCHANGED at

PPNext == (\E c \in {0, 1} : PPStep(c)) \/ PPTick

PPSpec ==
    /\ PPInit /\ [][PPNext]_ppVars
    /\ WF_ppVars(PPTick) /\ \A c \in {0, 1} : SF_ppVars(PPStep(c))

-----------------------------------------------------------------------------
\* The two environments take turns: the value one of them receives is the one the
\* other sent last, even numbers come from the first and odd ones from the second.  Nobody
\* sends to an environment that has left, which would end in the panic of ipc_send.
TakeTurns ==
    \A c \in {0, 1} :
        /\ at[c] = "decide" =>
            /\ lib[c].got = lib[1 - c].val /\ lib[c].who = envs[1 - c].id
            /\ lib[c].got % 2 = 1 - c
        /\ lib[c].at \in {"send", "yield"} => at[1 - c] /= "gone"
        /\ lib[c].at /= "panic"

\* The game ends, under every timing of the interrupts, with both slots free and a kernel
\* with nothing to run: nobody is stuck in the panic of ipc_send, which an answer to an
\* environment that has gone would lead to.
GameEnds == <>(mode = "spin" /\ FreeSlots = Slot)
=============================================================================
