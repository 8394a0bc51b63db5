\* Two slots, three ids, seven frames above the kernel: a boot environment in the device
\* window and a forked one partly in RAM, which find room for their stacks only in turn.
CONSTANTS
    NENV = 2
    MaxEnv = 3
    BootEnvs = 1
    Value <- OneValue
    SetStatus <- SomeStatus
    Kernel = Kernel
    Nil = Nil
    Boot = Boot
    NPAGE = 14
    FirstFree = 7
    FirstDevice = 8
    PTES = 4
    PMDS = 4
    UserVPN <- SharedVPN
    STACK = 51
    PageWord <- SomeWords
    RecvVPN <- StackVPN
    RefMod = 65536
SPECIFICATION SysSpec
VIEW StateView
CHECK_DEADLOCK FALSE
INVARIANTS
    SpacesMatchTable
    FreeFramesSound
PROPERTIES
    ImplementsMemory
    SpacesImplemented
    SpaceIsolated
    ReceiverGetsPage
