SPECIFICATION Spec
CONSTANTS
  Nil = Nil
  f = f
  g = g
  Handler = {f, g}
  MaxId = 3
  MaxDepth = 2
  Script = {"connect", "disconnect", "drop", "error", "foreign", "orphan"}
INVARIANTS SortedById RefsOwned SafeUse
PROPERTIES FireExact
