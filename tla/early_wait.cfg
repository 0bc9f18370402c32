SPECIFICATION FairClockSpec
CONSTANTS
  Main = "main"
  NoRef = "none"
  Coroutine = {"a", "b"}
  Durations = {0, 1}
  MaxTime = 2
  MaxWaiting = 3
  Script = {}
PROPERTY WaitIsHonoured
