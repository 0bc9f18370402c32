----------------------------- MODULE MCHostLife -----------------------------
EXTENDS HostLife, TLC

CONSTANTS Host, o1, o2

Symmetry == Permutations(Object)
============================================================================
