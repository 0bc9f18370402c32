SPECIFICATION Spec
CONSTANTS
  a = a
  b = b
  c = c
  Module = {a, b, c}
  MaxRuns = 3
  MaxCalls = 4
  Script = {"yield", "drop"}
SYMMETRY Symmetry
INVARIANTS SingleInstance TablesAreFinished
PROPERTY StoredOnce
