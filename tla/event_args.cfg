SPECIFICATION Spec
CONSTANTS
  Nil = Nil
  f = f
  g = g
  Handler = {f, g}
  MaxId = 2
  MaxDepth = 2
  Script = {"foreign"}

INVARIANTS HandlersGetArgs
