---------------------------- MODULE MCModuleCache ----------------------------
EXTENDS ModuleCache, TLC

CONSTANTS a, b, c

Symmetry == Permutations(Module)
============================================================================
