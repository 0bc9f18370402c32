SPECIFICATION TroubleSpec
CONSTANTS
  Main = Main
  NoRef = NoRef
  a = a
  b = b
  Coroutine = {a, b}
  Durations = {1}
  MaxTime = 1
  MaxWaiting = 3
  Script = {"late_spawn", "shuffle", "batch", "throw", "park", "refuse", "drop", "host"}
SYMMETRY Symmetry
CONSTRAINT OneTrouble
INVARIANTS UniqueWaiting CursorNamesTask CompletedAreOver SleepersAnchored MemorySafe
