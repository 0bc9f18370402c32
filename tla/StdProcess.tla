----------------------------- MODULE StdProcess -----------------------------
(***************************************************************************)
(* std.process as a script uses it: it asks for the arguments of the       *)
(* process and has them parsed, and it executes a program. One call ends   *)
(* before the next begins, since all of Halia runs on one thread, which    *)
(* execute blocks.                                                         *)
(***************************************************************************)
EXTENDS Execute, ArgsSpan

CONSTANT ExecuteArgs  \* bound: programs are executed with at most so many arguments of the process

AskArgs == pc = "search" /\ ArgsNext /\ UNCHANGED vars
RunProgram ==
  /\ call = "none" /\ Len(args) <= ExecuteArgs /\ Next
  /\ answer' = [asked |-> "execute"] /\ UNCHANGED <<args, call, cursor, table>>

StdVars == <<vars, argsVars>>

StdInit == Init /\ ArgsInit
StdNext == AskArgs \/ RunProgram

StdSpec == StdInit /\ [][StdNext]_StdVars

\* A call that has begun goes on when it can; so do the processes, which come
\* to their ends unless they wait for room in a pipe.
FairStdSpec ==
  /\ StdSpec
  /\ WF_StdVars(AskArgs /\ Parser)
  /\ WF_StdVars(RunProgram /\ Halia)
  /\ \A p \in Process: WF_StdVars(RunProgram /\ Runs(p))

\* Every call returns: the parsers', and execute's, if programs come to their ends.
CallsReturn ==
  /\ call # "none" ~> call = "none"
  /\ pc # "search" ~> pc = "done"
=============================================================================
