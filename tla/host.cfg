SPECIFICATION HostSpec
CONSTANTS
  Core = Core
  Host = Host
  Image = {Core, Host}
  o1 = o1
  o2 = o2
  Object = {o1, o2}
  Free = Free
  Type = {"ArgsSpan", "ExecutionFeedback", "ChildProcess", "ProcessID"}
  Fallible = {"ChildProcess"}
  TagLimit = 4
  Extra = {"plugin"}
  MaxStates = 2
SYMMETRY Symmetry
INVARIANTS TypesNeverConfused TagsFit Destroyed ScriptsAreAtHome EndsInOrder
