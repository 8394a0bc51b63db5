\* Boot with tables of 4 and 12 entries; print with 3-bit ints and 5-bit longs.
CONSTANTS
    FirstDevice = 44
    PTES = 4
    PMDS = 12
    UPAGES = 52
    UENVS = 60
    TIMESTACK = 72
    Image <- Images
    PagesSize <- PagesSizes
    EnvsSize <- EnvsSizes
    UserVPN <- OtherVPN
    Kernel = Kernel
    Nil = Nil
    Boot = Boot
    Format <- Formats
    IntBits = 3
    LongBits = 5
    MaxWidth = 7
    RawNumber <- RawNumbers
SPECIFICATION SeqSpec
CHECK_DEADLOCK FALSE
INVARIANTS
    BootEndsInPageInit
    SegmentsApart
    FormatAccounted
    FieldsReadable
    CallsReachHandlers
