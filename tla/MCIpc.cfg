\* Two senders and a receiver between them in the order of the scheduler.
CONSTANTS
    NENV = 3
    MaxEnv = 3
    BootEnvs = 3
    Value <- SmallValues
    SetStatus <- NoStatus
    Receiver = 1
    Count = 3
SPECIFICATION IpcFairSpec
CHECK_DEADLOCK FALSE
INVARIANTS
    ExactlyOnceInOrder
PROPERTIES
    ImplementsMailbox
    AllArrive
