----------------------------- MODULE MCContext ------------------------------
\* Two values per environment are enough to tell a fresh register from a stale one.
EXTENDS Context, TLC

CONSTANTS s1, s2
TwoSlots == {s1, s2}
TwoVersions == {1, 2}
SlotSymmetry == Permutations(TwoSlots)
=============================================================================
