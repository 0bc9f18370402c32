------------------------------ MODULE TaskLife ------------------------------
(***************************************************************************)
(* What Halia's scheduler promises to scripts, without its vector, its     *)
(* passes or its clock: a thread runs from one co_wait to the next, sleeps *)
(* until the scheduler wakes it, and ends; the process reports success     *)
(* only when no thread is left asleep.                                     *)
(***************************************************************************)
CONSTANTS Thread, Main

VARIABLES
  life,     \* "new" | "active" | "asleep" | "over", per thread
  outcome   \* of the process: "running" | "success" | "failure" | "undefined"

vars == <<life, outcome>>

Idle == \A t \in Thread: life[t] # "active"
Turn(t, from, to) == life[t] = from /\ life' = [life EXCEPT ![t] = to]

Init == life = [t \in Thread |-> "new"] /\ outcome = "running"

\* The main script begins first; the other threads are begun by running code.
Begin(t) ==
  /\ outcome = "running"
  /\ IF t = Main THEN \A u \in Thread: life[u] = "new" ELSE ~Idle
  /\ Turn(t, "new", "active") /\ UNCHANGED outcome

Sleep(t) == outcome = "running" /\ Turn(t, "active", "asleep") /\ UNCHANGED outcome

\* Cooperative: a sleeper is woken only when no other code is running.
Wake(t) == outcome = "running" /\ Idle /\ Turn(t, "asleep", "active") /\ UNCHANGED outcome

\* The error of a thread may end the process, or be read where nothing is left
\* of it.
End(t) ==
  /\ outcome = "running" /\ Turn(t, "active", "over")
  /\ outcome' \in {"running", "failure", "undefined"}

\* Undefined behaviour of the implementation may strike at any time.
Halt ==
  /\ outcome = "running" /\ UNCHANGED life
  /\ \/ outcome' = "success" /\ \A t \in Thread: life[t] \in {"new", "over"}
     \/ outcome' = "failure" /\ Idle
     \/ outcome' = "undefined"

Next == Halt \/ \E t \in Thread: Begin(t) \/ Sleep(t) \/ Wake(t) \/ End(t)

Spec == Init /\ [][Next]_vars
============================================================================
