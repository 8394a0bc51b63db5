\* Every call in any order, with any status passed to sys_set_env_status.
CONSTANTS
    NENV = 3
    MaxEnv = 3
    BootEnvs = 2
    Value <- OneValue
    SetStatus <- AnyStatus
SPECIFICATION FairSpec
CHECK_DEADLOCK FALSE
INVARIANTS
    EnvTypeOK
    FreeListSound
    IdsSound
PROPERTIES
    ImplementsTable
    RunnableRuns
    BoundedWait
