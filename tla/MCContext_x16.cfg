\* x16 and x17 across an interrupt.
CONSTANTS
    s1 = s1
    s2 = s2
    None = None
    Slots <- TwoSlots
    Versions <- TwoVersions
SPECIFICATION Spec
SYMMETRY SlotSymmetry
CHECK_DEADLOCK FALSE
INVARIANTS
    AllRegistersResume
