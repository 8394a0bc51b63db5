------------------------------ MODULE EnvTable ------------------------------
(***************************************************************************)
(* What the environment table promises its users: an id names one          *)
(* environment for ever, at most Capacity environments exist, and the slot *)
(* of an environment is given back only by its own call, or by its         *)
(* parent's while its id is accepted.  Anybody, however, can have the id   *)
(* of an environment refused and keep it from the processor, for ever      *)
(* unless it is the one that runs.                                         *)
(***************************************************************************)
EXTENDS Naturals, FiniteSets

CONSTANT Capacity  \* the most environments that can exist at once

VARIABLES
    alive,    \* the environments that have a slot, each with the id of its parent
    refused,  \* the ids of those that envid2env refuses
    limit,    \* ids handed out so far are below limit
    running   \* the id of the environment that runs, 0 for none
tableVars == <<alive, refused, limit, running>>

Ids(A) == {e.id : e \in A}

TableInit == alive = {} /\ refused = {} /\ limit > 0 /\ running = 0

\* A new environment, child of the one that runs, under an id never used before.
Birth ==
    /\ Cardinality(alive) < Capacity
    /\ \E e \in alive' :
        /\ e.id >= limit /\ e.parent = running
        /\ alive' = alive \union {e}
        /\ limit' > e.id
    /\ UNCHANGED <<refused, running>>

\* The running environment ends itself, or a child of its own that it can name.
Death ==
    /\ running /= 0
    /\ \E e \in alive :
        /\ e.id = running \/ (e.parent = running /\ e.id \notin refused)
        /\ alive' = alive \ {e} /\ refused' = refused \ {e.id}
        /\ running' \in IF e.id = running THEN (Ids(alive') \ refused') \union {0} ELSE {running}
    /\ UNCHANGED limit

\* The running environment stops another one, or itself, in a way that has its id refused.
Refuse ==
    /\ running /= 0
    /\ \E id \in Ids(alive) : refused' = refused \union {id}
    /\ UNCHANGED <<alive, limit, running>>

\* Only an environment whose id is accepted gets the processor.  One that runs though it
\* is refused can return, nobody else can bring it back.
Switch ==
    /\ refused' = refused \/ refused' = refused \ {running}
    /\ running' \in (Ids(alive) \ refused') \union {running}
    /\ UNCHANGED <<alive, limit>>

TableNext == Birth \/ Death \/ Refuse \/ Switch

TableSpec == TableInit /\ [][TableNext]_tableVars
=============================================================================
