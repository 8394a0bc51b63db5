\* env_free follows a block entry into a page and drops a reference that is needed.
CONSTANTS
    e1 = e1
    e2 = e2
    Kernel = Kernel
    BadEnv = BadEnv
    Nil = Nil
    Boot = Boot
    Envs <- EnvSet
    NPAGE = 9
    FirstFree = 2
    FirstDevice = 4
    PTES = 2
    PMDS = 8
    UserVPN <- PrivateVPN
    STACK = 51
    PageWord <- SomeWords
    RefMod = 65536
SPECIFICATION Spec
CHECK_DEADLOCK FALSE
INVARIANTS
    CountedWhileMapped
