\* Two environments created, forked, switched, woken and destroyed.
CONSTANTS
    s1 = s1
    s2 = s2
    None = None
    Slots <- TwoSlots
    Versions <- TwoVersions
SPECIFICATION Spec
SYMMETRY SlotSymmetry
CHECK_DEADLOCK FALSE
INVARIANTS
    ResumesIntact
    WaitsIntact
