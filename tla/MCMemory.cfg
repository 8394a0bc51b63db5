\* Two environments, two kernel frames, two RAM frames and five device frames: a table in
\* the window may lie behind itself, behind a table or behind a page.  A count wraps at
\* its fifth reference.
CONSTANTS
    e1 = e1
    e2 = e2
    Kernel = Kernel
    BadEnv = BadEnv
    Nil = Nil
    Boot = Boot
    Envs <- EnvSet
    NPAGE = 9
    FirstFree = 2
    FirstDevice = 4
    PTES = 2
    PMDS = 8
    UserVPN <- PrivateVPN
    STACK = 51
    PageWord <- SomeWords
    RefMod = 5
SPECIFICATION Spec
SYMMETRY EnvSymmetry
CHECK_DEADLOCK FALSE
INVARIANTS
    MemTypeOK
    FreeListSound
    RefCovers
    TablesExclusive
    WalkReaches
    KernelFramesKept
    EnvFreeIsItsLoop
PROPERTIES
    ImplementsSpaces
    
    LossIsReported
