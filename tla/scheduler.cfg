SPECIFICATION FairClockSpec
CONSTANTS
  Main = "main"
  NoRef = "none"
  Coroutine = {"a", "b"}
  Durations = {0, 1}
  MaxTime = 1
  MaxWaiting = 3
  Script = {"late_spawn", "shuffle", "throw", "refuse"}
INVARIANTS SleepersListed ZeroMeansDone
PROPERTIES OnlyDoneLeave KeepsPromise TotalWaitHonoured SleepersWake IdleExits
