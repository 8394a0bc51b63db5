\* The program as it stands, with a table of three slots.
CONSTANTS
    NENV = 3
    MaxEnv = 2
    BootEnvs = 2
    Value <- GameValues
    SetStatus <- NoStatus
    Last = 10
SPECIFICATION PPSpec
CHECK_DEADLOCK FALSE
INVARIANTS
    TakeTurns
PROPERTIES
    GameEnds
