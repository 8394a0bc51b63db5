\* Programs only ever pass ENV_NOT_RUNNABLE to sys_set_env_status.
CONSTANTS
    NENV = 3
    MaxEnv = 4
    BootEnvs = 2
    Value <- OneValue
    SetStatus <- OnlyBlock
SPECIFICATION LinksSpec
VIEW LinksView
CHECK_DEADLOCK FALSE
INVARIANTS
    FreeLinksSound
    SchedLinksSound
    SchedListHoldsRunnable
    NoSlotLost
PROPERTIES
    MisuseStartsWithFork
    ReceiverWakesWithMessage
