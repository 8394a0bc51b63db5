\* env_free unmaps the frames of page tables from the identity map.
CONSTANTS
    e1 = e1
    e2 = e2
    Kernel = Kernel
    BadEnv = BadEnv
    Nil = Nil
    Boot = Boot
    Envs <- EnvSet
    NPAGE = 10
    FirstFree = 2
    FirstDevice = 10
    PTES = 2
    PMDS = 8
    UserVPN <- PrivateVPN
    STACK = 51
    PageWord <- SomeWords
    RefMod = 65536
SPECIFICATION Spec
CHECK_DEADLOCK FALSE
INVARIANTS
    IdentityKept
