SPECIFICATION FairSpec
CONSTANTS
  p = p
  q = q
  Value = {p, q}
  None = None
  Configs <- MCConfigs
  Levels = 3
  Suffixes = 2
  MaxFiles = 2
INVARIANTS TypeOK FirstWins NotFoundIsReal ErrorsAreNeeded
PROPERTY Terminates
