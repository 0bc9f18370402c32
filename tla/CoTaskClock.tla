---------------------------- MODULE CoTaskClock ----------------------------
(***************************************************************************)
(* The time a thread spends in co_wait. Three history variables record     *)
(* what the calls asked for; the scheduler never reads them.               *)
(***************************************************************************)
EXTENDS CoTasks

VARIABLES
  promise,  \* per thread: when its latest co_wait may return, as documented
  waited,   \* the threads that have called co_wait
  owed      \* per thread in `waited`: the time of its first co_wait plus all it asked for

history == <<promise, waited, owed>>

ClockInit ==
  /\ Init
  /\ promise = [t \in Thread |-> 0] /\ waited = {} /\ owed = [t \in Thread |-> 0]

Owe(t, d) ==
  /\ waited' = waited \union {t}
  /\ owed' = [owed EXCEPT ![t] = (IF t \in waited THEN @ ELSE clock) + d]

ClockNext ==
  \/ \E d \in Durations:
       /\ CoWait(d) /\ Owe(Running, d)
       /\ promise' = [promise EXCEPT ![Running] = clock + d]
  \/ \E d \in Durations: CoWaitRefused(d) /\ Owe(Running, d) /\ UNCHANGED promise
  \/ /\ \/ Finish \/ Throw \/ Host \/ Schedule \/ Tick \/ Over
        \/ \E u \in Coroutine: CoSpawn(u)
     /\ UNCHANGED history

ClockSpec == ClockInit /\ [][ClockNext]_<<vars, history>>

FairClockSpec == ClockSpec /\ WF_vars(Host \/ Schedule) /\ WF_vars(Segment) /\ WF_vars(Tick)

Woken(t) == status[t] = "yield" /\ status'[t] = "run"

\* co_wait(seconds) returns no earlier than that many seconds after the call.
WaitIsHonoured ==
  [][\A t \in Thread: Woken(t) => clock >= promise[t]]_<<vars, history>>

\* What the scheduler keeps is less: a thread is not resumed before the time of
\* its first co_wait plus all it has asked for since, whatever was pushed, erased
\* or moved in `waiting` in between. The time that it ran since its first wait
\* counts towards this, so that one wait alone may be cut short.
TotalWaitHonoured ==
  [][\A t \in Thread: Woken(t) => clock >= owed[t]]_<<vars, history>>
============================================================================
