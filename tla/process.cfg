SPECIFICATION FairStdSpec
CONSTANTS
  Capacity = 3
  MaxSize = 3
  ExitCodes = {0, 1}
  Nil = Nil
  Word = {"", "k"}
  MaxDashes = 2
  MaxArgs = 4
  IntLimit = 5
  SizeLimit = 10
  ExecuteArgs = 0
INVARIANTS FeedbackComplete ParsesExactly AtStaysInside
PROPERTY CallsReturn
