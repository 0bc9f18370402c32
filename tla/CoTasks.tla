------------------------------ MODULE CoTasks ------------------------------
(***************************************************************************)
(* The cooperative scheduler of Halia: co_spawn and co_wait, the pass that *)
(* halia::co_tasks::schedule makes over the vector `waiting`, and the loop *)
(* of the host (core::bootstrap, and main of the console runtime) that     *)
(* calls it until the main script has ended and nothing waits.             *)
(*                                                                         *)
(* Everything runs on one operating system thread: what interleaves is the *)
(* C++ of a pass with the Lua code that the pass resumes, and with time.   *)
(* The Lua code may do whatever the API lets it do; the constant Script    *)
(* says which of the less usual things the scripts of a run do.            *)
(***************************************************************************)
EXTENDS Integers, Sequences, SequencesExt, FiniteSetsExt

CONSTANTS
  Main,       \* the main script's thread (core::main_thread)
  Coroutine,  \* the threads scripts may create
  NoRef,      \* "fixed_refs has no entry for this thread"
  Durations,  \* the arguments of co_wait
  MaxTime,    \* bound: the clock and every deadline stop here
  MaxWaiting, \* bound: add_task is called while `waiting` is shorter than this
  Script      \* what the scripts of a run do, a subset of Habits

Thread == {Main} \union Coroutine

Habits ==
  { "late_spawn",  \* co_spawn elsewhere than in the main script's first segment
    "shuffle",     \* a thread ends while it is not the last one of `waiting`
    "batch",       \* two waiting threads end before the same erase loop
    "throw",       \* a thread ends with an error
    "park",        \* coroutine.create, coroutine.resume and plain coroutine.yield
    "refuse",      \* co_wait where Luau does not permit a yield
    "drop",        \* scripts keep no reference of their own to a thread
    "host" }       \* the embedding program calls add_task

ASSUME ThreadAssumption == Main \notin Coroutine /\ NoRef \notin Thread
ASSUME TimeAssumption == Durations \subseteq Int /\ MaxTime \in Nat /\ MaxWaiting \in Nat
ASSUME ScriptAssumption == Script \subseteq Habits

VARIABLES
  pc,         \* which code runs: "start" | "lua" | "loop" | "scan" | "erase" | "exit" | "undefined"
  code,       \* the exit code of the process
  clock,      \* SteadyClock
  now,        \* the local `now` of schedule
  waiting,    \* the vector of CoTask
  cap,        \* its capacity
  residue,    \* what is left in the slots behind its end by the erase loop of this pass
  old,        \* the buffer the pass iterates over, once a push_back has freed it; else <<>>
  cursor,     \* the slot the range-for stands on
  stop,       \* the end the range-for cached; 0 when no pass is on
  completed,  \* the pointers collected by this pass, as slots of its buffer
  callstack,  \* nested lua_resume calls: the thread resumed, and by whom
  status,     \* lua_status of each thread, with "new" and "freed" around its life
  fixed_refs  \* the thread whose lua_State the ref of each anchored thread goes through

vars == <<pc, code, clock, now, waiting, cap, residue, old, cursor, stop,
          completed, callstack, status, fixed_refs>>

pass == <<now, residue, cursor, stop, completed>>
buffer == <<waiting, cap, old>>

CoTask == [state: Thread, started: Int, duration: Int]
Frame == [th: Thread, via: {"main", "schedule", "spawn", "script"}]

----------------------------------------------------------------------------
(* Reading the vector, its buffer and the call stack *)

HasEntry(t) == \E i \in DOMAIN waiting: waiting[i].state = t
FirstEntry(t, i) == waiting[i].state = t /\ \A j \in DOMAIN waiting: waiting[j].state = t => i <= j
OneEntryEach == \A i, j \in DOMAIN waiting: waiting[i].state = waiting[j].state => i = j
Running == Last(callstack).th
Via == Last(callstack).via
OnStack(t) == \E i \in DOMAIN callstack: callstack[i].th = t

\* The slots that `task` and the pointers of `completed` read.
Slots == IF old = <<>> THEN waiting \o residue ELSE old

Init ==
  /\ pc = "start" /\ code = 0 /\ clock = 0 /\ now = 0
  /\ waiting = <<>> /\ cap = 0 /\ residue = <<>> /\ old = <<>>
  /\ cursor = 0 /\ stop = 0 /\ completed = <<>>
  /\ callstack = <<>> /\ status = [t \in Thread |-> "new"]
  /\ fixed_refs = [t \in Thread |-> NoRef]

----------------------------------------------------------------------------
(* Entering and leaving Lua *)

\* lua_resume(u): the resumed code runs until it yields, ends or fails.
Enter(u, via) ==
  /\ pc' = "lua"
  /\ callstack' = Append(callstack, [th |-> u, via |-> via])
  /\ status' = [status EXCEPT ![u] = "run"]

\* Mutant: a task that yields again counts as completed.
JudgeYield(st) ==
  \/ /\ st \in {"ok", "yield"}
     /\ completed' = Append(completed, cursor)
     /\ pc' = "scan" /\ cursor' = cursor + 1 /\ UNCHANGED code
  \/ /\ st = "err"
     /\ pc' = "exit" /\ code' = -2 /\ UNCHANGED <<cursor, completed>>

\* What schedule does with the status of the task the cursor stands on. For an
\* error it reads the task again, in a buffer that may be gone by then.
Judge(st) ==
  \/ /\ st = "ok"
     /\ completed' = Append(completed, cursor)
     /\ pc' = "scan" /\ cursor' = cursor + 1 /\ UNCHANGED code
  \/ /\ st = "yield"
     /\ pc' = "scan" /\ cursor' = cursor + 1 /\ UNCHANGED <<completed, code>>
  \/ /\ st = "err"
     /\ \/ pc' = "exit" /\ code' = -2
        \/ old # <<>> /\ pc' = "undefined" /\ UNCHANGED code
     /\ UNCHANGED <<cursor, completed>>

\* Mutant: the reference of a spawned thread dies with the frame of co_spawn.
LeaveDrops(st) ==
  /\ callstack' = Front(callstack)
  /\ status' = [status EXCEPT ![Running] = st]
  /\ \/ Via = "main" /\ pc' = "loop" /\ UNCHANGED <<code, cursor, completed>>
     \/ Via \in {"script", "spawn"} /\ UNCHANGED <<pc, code, cursor, completed>>
     \/ Via = "schedule" /\ Judge(st)
  /\ UNCHANGED <<clock, now, residue, stop, fixed_refs>>

\* The running thread returns from lua_resume with status st. The status of a
\* spawned thread is not looked at: it is anchored through its spawner's state.
Leave(st) ==
  /\ callstack' = Front(callstack)
  /\ status' = [status EXCEPT ![Running] = st]
  /\ \/ Via = "main" /\ pc' = "loop" /\ UNCHANGED <<code, cursor, completed, fixed_refs>>
     \/ Via = "script" /\ UNCHANGED <<pc, code, cursor, completed, fixed_refs>>
     \/ /\ Via = "spawn"
        /\ fixed_refs' = [fixed_refs EXCEPT ![Running] = Last(Front(callstack)).th]
        /\ UNCHANGED <<pc, code, cursor, completed>>
     \/ Via = "schedule" /\ Judge(st) /\ UNCHANGED fixed_refs
  /\ UNCHANGED <<clock, now, residue, stop>>

----------------------------------------------------------------------------
(* What Lua code does *)

\* push_back: a full buffer is replaced, by one of a size the library chooses;
\* a pass that is on keeps iterating over the freed one.
PushBack(t, d) ==
  /\ waiting' = Append(waiting, [state |-> t, started |-> clock, duration |-> d])
  /\ IF Len(waiting) < cap THEN UNCHANGED <<cap, old>>
     ELSE /\ cap' \in (cap + 1)..(IF cap = 0 THEN 1 ELSE 2 * cap)
          /\ old' = IF stop > 0 /\ old = <<>> THEN waiting ELSE old

\* Mutant: co_wait does not look for an entry.
EnlistAlways(t, d) == clock + d <= MaxTime /\ PushBack(t, d)

\* Mutant: new entries go to the front.
EnlistFirst(t, d) ==
  /\ clock + d <= MaxTime
  /\ waiting' = <<[state |-> t, started |-> clock, duration |-> d]>> \o waiting
  /\ UNCHANGED <<cap, old>>

\* Mutant: a second wait replaces the duration of the first.
EnlistReplace(t, d) ==
  \/ /\ ~HasEntry(t) /\ clock + d <= MaxTime
     /\ PushBack(t, d)
  \/ \E i \in DOMAIN waiting:
       /\ FirstEntry(t, i)
       /\ waiting[i].started + d <= MaxTime
       /\ waiting' = [waiting EXCEPT ![i].duration = d]
       /\ UNCHANGED <<cap, old>>

\* Mutant: co_wait adds no entry while there are others.
EnlistOnce(t, d) ==
  /\ clock + d <= MaxTime
  /\ IF waiting = <<>> THEN PushBack(t, d) ELSE UNCHANGED buffer

\* The entry of co_wait: a second wait adds to the duration of the first.
Enlist(t, d) ==
  \/ /\ ~HasEntry(t) /\ clock + d <= MaxTime
     /\ PushBack(t, d)
  \/ \E i \in DOMAIN waiting:
       /\ FirstEntry(t, i)
       /\ waiting[i].started + waiting[i].duration + d <= MaxTime
       /\ waiting' = [waiting EXCEPT ![i].duration = @ + d]
       /\ UNCHANGED <<cap, old>>

CoWait(d) == pc = "lua" /\ Enlist(Running, d) /\ Leave("yield")

\* lua_yield raises an error that the pcall around the call catches; the entry stays.
CoWaitRefused(d) ==
  /\ pc = "lua" /\ "refuse" \in Script
  /\ Enlist(Running, d)
  /\ UNCHANGED <<pc, code, clock, callstack, status, fixed_refs, pass>>

CoSpawn(n) ==
  /\ pc = "lua" /\ n \in Coroutine /\ status[n] = "new"
  /\ "late_spawn" \in Script \/ (Len(callstack) = 1 /\ Via = "main")
  /\ Enter(n, "spawn")
  /\ UNCHANGED <<code, clock, fixed_refs, pass, buffer>>

Finish ==
  /\ pc = "lua"
  /\ HasEntry(Running) =>
       /\ "batch" \in Script \/ \A u \in Thread: HasEntry(u) => status[u] # "ok"
       /\ "shuffle" \in Script \/ (Via = "schedule" /\ cursor = Len(waiting))
  /\ Leave("ok")
  /\ UNCHANGED buffer

Throw == pc = "lua" /\ "throw" \in Script /\ Leave("err") /\ UNCHANGED buffer

Yield == pc = "lua" /\ "park" \in Script /\ Leave("yield") /\ UNCHANGED buffer

Resume(u) ==
  /\ pc = "lua" /\ "park" \in Script
  /\ status[u] = "yield" \/ (u \in Coroutine /\ status[u] = "new")
  /\ Enter(u, "script")
  /\ UNCHANGED <<code, clock, fixed_refs, pass, buffer>>

\* Luau's collector frees a thread that neither the registry, the running
\* thread nor a frame below it refers to. A frame entered by the scheduler
\* refers to nothing: its thread is freed under the code that it called.
Collect(u) ==
  /\ pc = "lua" /\ "drop" \in Script
  /\ u # Main /\ u # Running /\ fixed_refs[u] = NoRef
  /\ status[u] \notin {"new", "freed"}
  /\ \A i \in DOMAIN callstack: callstack[i].th = u => callstack[i].via = "schedule"
  /\ status' = [status EXCEPT ![u] = "freed"]
  /\ pc' = IF OnStack(u) THEN "undefined" ELSE pc
  /\ UNCHANGED <<code, clock, callstack, fixed_refs, pass, buffer>>

\* add_task does not look whether the thread has an entry.
AddTask(u) ==
  /\ pc \in {"loop", "lua"} /\ "host" \in Script
  /\ status[u] # "freed" /\ Len(waiting) < MaxWaiting
  /\ PushBack(u, 0)
  /\ UNCHANGED <<pc, code, clock, callstack, status, fixed_refs, pass>>

----------------------------------------------------------------------------
(* The loop of the host *)

Start ==
  /\ pc = "start"
  /\ Enter(Main, "main")
  /\ UNCHANGED <<code, clock, fixed_refs, pass, buffer>>

\* Mutant: the host waits for the main script only.
BusyMain == status[Main] = "yield"

Busy == status[Main] = "yield" \/ waiting # <<>>

\* Mutant: the end is off by one.
BeginShort ==
  /\ pc = "loop" /\ Busy
  /\ pc' = "scan" /\ now' = clock /\ cursor' = 1 /\ stop' = Len(waiting) - 1
  /\ UNCHANGED <<code, clock, residue, completed, callstack, status, fixed_refs, buffer>>

BeginPass ==
  /\ pc = "loop" /\ Busy
  /\ pc' = "scan" /\ now' = clock /\ cursor' = 1 /\ stop' = Len(waiting)
  /\ UNCHANGED <<code, clock, residue, completed, callstack, status, fixed_refs, buffer>>

Exit ==
  /\ pc = "loop" /\ ~Busy
  /\ pc' = "exit" /\ code' = IF status[Main] = "ok" THEN 0 ELSE -2
  /\ UNCHANGED <<clock, callstack, status, fixed_refs, pass, buffer>>

----------------------------------------------------------------------------
(* schedule: one pass over `waiting` *)

Due(task) == now - task.started >= task.duration

ScanSkip ==
  /\ pc = "scan" /\ cursor <= stop /\ ~Due(Slots[cursor])
  /\ cursor' = cursor + 1
  /\ UNCHANGED <<pc, code, clock, now, residue, stop, completed, callstack, status, fixed_refs, buffer>>

\* Mutant: a task is resumed whatever its status.
ScanResumeAny ==
  /\ pc = "scan" /\ cursor <= stop /\ Due(Slots[cursor])
  /\ Enter(Slots[cursor].state, "schedule")
  /\ UNCHANGED <<code, clock, fixed_refs, pass, buffer>>

ScanResume ==
  /\ pc = "scan" /\ cursor <= stop /\ Due(Slots[cursor])
  /\ status[Slots[cursor].state] = "yield"
  /\ Enter(Slots[cursor].state, "schedule")
  /\ UNCHANGED <<code, clock, fixed_refs, pass, buffer>>

\* Mutant: only tasks that this pass resumed are completed.
ScanJudgeResumed ==
  /\ pc = "scan" /\ cursor <= stop /\ Due(Slots[cursor])
  /\ \/ status[Slots[cursor].state] \in {"ok", "new"} /\ Judge("yield")
     \/ status[Slots[cursor].state] = "err" /\ Judge("err")
  /\ UNCHANGED <<clock, now, residue, stop, callstack, status, fixed_refs, buffer>>

\* A due task that is not suspended is judged without being run; lua_status of
\* a thread that was never started is LUA_OK.
ScanJudge ==
  /\ pc = "scan" /\ cursor <= stop /\ Due(Slots[cursor])
  /\ \/ status[Slots[cursor].state] \in {"ok", "new"} /\ Judge("ok")
     \/ status[Slots[cursor].state] = "err" /\ Judge("err")
  /\ UNCHANGED <<clock, now, residue, stop, callstack, status, fixed_refs, buffer>>

EndScan ==
  /\ pc = "scan" /\ cursor > stop
  /\ pc' = "erase"
  /\ UNCHANGED <<code, clock, callstack, status, fixed_refs, pass, buffer>>

\* Mutant: the first entry is removed.
RemoveOldest(t) ==
  \/ /\ HasEntry(t)
     /\ waiting' = Tail(waiting)
     /\ residue' = <<Last(waiting)>> \o residue
  \/ ~HasEntry(t) /\ UNCHANGED <<waiting, residue>>

\* waiting.erase(std::remove(..., *task)): the entries behind the one removed
\* move down a slot, and the last slot keeps what it held.
RemoveTask(t) ==
  \/ \E i \in DOMAIN waiting:
       /\ waiting[i].state = t
       /\ waiting' = RemoveAt(waiting, i)
       /\ residue' = <<Last(waiting)>> \o residue
  \/ ~HasEntry(t) /\ UNCHANGED <<waiting, residue>>

\* The same where some thread has two entries. std::remove is given *task, and so
\* compares with the thread that slot c holds at the time: once the entry of
\* another thread has moved into slot c, the rest is compared with that thread.
RemoveAliased(c) ==
  LET t == Slots[c].state
      Others == {i \in DOMAIN waiting: waiting[i].state # t}
      Moved == {i \in Others: old = <<>> /\ Cardinality(Others \cap 1..i) = c /\ \E j \in 1..i: waiting[j].state = t}
      Kept == {i \in DOMAIN waiting:
                IF \E m \in Moved: i > m
                THEN waiting[i].state # waiting[CHOOSE m \in Moved: TRUE].state
                ELSE i \in Others}
      Stay == SetToSortSeq(Kept, <)
  IN /\ waiting' = [k \in DOMAIN Stay |-> waiting[Stay[k]]]
     /\ residue' = SubSeq(waiting, Len(Stay) + 1, Len(waiting)) \o residue

\* The deleter of a guard calls lua_unref on the lua_State of the spawner.
Unrefs(S) == \A t \in S: fixed_refs[t] # NoRef => status[fixed_refs[t]] # "freed"

\* fixed_refs.erase(task->state) reads the slot again, after the erase.
EraseCompleted ==
  /\ pc = "erase" /\ completed # <<>>
  /\ UNCHANGED <<code, clock, now, cap, old, cursor, stop, callstack, status>>
  /\ IF OneEntryEach THEN RemoveTask(Slots[Head(completed)].state)
                     ELSE RemoveAliased(Head(completed))
  /\ LET t == Slots'[Head(completed)].state IN
       /\ pc' = IF Unrefs({t}) THEN pc ELSE "undefined"
       /\ fixed_refs' = [fixed_refs EXCEPT ![t] = NoRef]
  /\ completed' = Tail(completed)

\* Mutant: every pass clears fixed_refs.
EndPassClears ==
  /\ pc = "erase" /\ completed = <<>>
  /\ pc' = IF Unrefs(Thread) THEN "loop" ELSE "undefined"
  /\ fixed_refs' = [t \in Thread |-> NoRef]
  /\ now' = 0 /\ residue' = <<>> /\ old' = <<>> /\ cursor' = 0 /\ stop' = 0
  /\ UNCHANGED <<code, clock, waiting, cap, completed, callstack, status>>

EndPass ==
  /\ pc = "erase" /\ completed = <<>>
  /\ pc' = IF waiting # <<>> \/ Unrefs(Thread) THEN "loop" ELSE "undefined"
  /\ fixed_refs' = IF waiting = <<>> THEN [t \in Thread |-> NoRef] ELSE fixed_refs
  /\ now' = 0 /\ residue' = <<>> /\ old' = <<>> /\ cursor' = 0 /\ stop' = 0
  /\ UNCHANGED <<code, clock, waiting, cap, completed, callstack, status>>

\* Undefined behaviour: the pass reads a freed buffer, whose contents need not
\* have survived, or hands a freed lua_State to Luau.
TouchFreed ==
  /\ \/ /\ pc = "scan" /\ cursor <= stop
        /\ old # <<>> \/ (Due(Slots[cursor]) /\ status[Slots[cursor].state] = "freed")
     \/ pc = "erase" /\ completed # <<>> /\ old # <<>>
  /\ pc' = "undefined"
  /\ UNCHANGED <<code, clock, callstack, status, fixed_refs, pass, buffer>>

----------------------------------------------------------------------------

Tick ==
  /\ pc \notin {"exit", "undefined"} /\ clock < MaxTime
  /\ clock' = clock + 1
  /\ UNCHANGED <<pc, code, callstack, status, fixed_refs, pass, buffer>>

Over == pc \in {"exit", "undefined"} /\ UNCHANGED vars

Segment == (\E d \in Durations: CoWait(d)) \/ Finish \/ Throw \/ Yield
Calls == \/ \E d \in Durations: CoWaitRefused(d)
         \/ \E u \in Thread: CoSpawn(u) \/ Resume(u) \/ Collect(u) \/ AddTask(u)
Host == Start \/ BeginPass \/ Exit
Schedule == ScanSkip \/ ScanResume \/ ScanJudge \/ EndScan \/ EraseCompleted \/ EndPass \/ TouchFreed

Next == Segment \/ Calls \/ Host \/ Schedule \/ Tick \/ Over

Spec == Init /\ [][Next]_vars

\* The C++ code does not stop, time passes, and every stretch of Lua code comes
\* to its end.
FairSpec == Spec /\ WF_vars(Host \/ Schedule) /\ WF_vars(Segment) /\ WF_vars(Tick)

----------------------------------------------------------------------------
(* Properties *)

\* Every variable has its type; slots and frames are records of theirs.
TypeOK ==
  /\ pc \in {"start", "lua", "loop", "scan", "erase", "exit", "undefined"}
  /\ code \in {0, -2} /\ clock \in Nat /\ now \in Nat
  /\ waiting \in Seq(CoTask) /\ residue \in Seq(CoTask) /\ old \in Seq(CoTask)
  /\ cap \in Nat /\ cursor \in Nat /\ stop \in Nat /\ completed \in Seq(Nat)
  /\ callstack \in Seq(Frame)
  /\ status \in [Thread -> {"new", "run", "yield", "ok", "err", "freed"}]
  /\ fixed_refs \in [Thread -> Thread \union {NoRef}]

\* While a resumed task runs, however many entries it and its callees push and
\* even if the buffer is replaced, `&task` still names the thread resumed, so
\* the pointer pushed to `completed` is that of the task that ended.
CursorNamesTask ==
  pc = "lua" /\ stop > 0 =>
    /\ cursor \in DOMAIN Slots /\ cursor <= stop
    /\ Slots[cursor].state = callstack[1].th /\ callstack[1].via = "schedule"

\* A thread that sleeps in co_wait has an entry, or nothing will resume it.
\* (Without "park" a suspended thread can only be in co_wait.)
SleepersListed == \A t \in Thread: status[t] = "yield" => HasEntry(t)

\* Only the entry of a thread that has ended leaves `waiting`; the entry of a
\* thread that failed stays until schedule reports the error.
OnlyDoneLeave ==
  [][\A t \in Thread: HasEntry(t) /\ ~HasEntry(t)' => status[t] = "ok"]_vars

\* The process reports success only when every thread that ever ran has ended.
ZeroMeansDone == pc = "exit" /\ code = 0 => \A t \in Thread: status[t] # "yield"

Ended == pc \in {"exit", "undefined"}

\* co_wait returns: a thread that sleeps is resumed, unless the process ends.
SleepersWake == \A t \in Thread: status[t] = "yield" ~> (status[t] # "yield" \/ Ended)

\* When every thread created has ended the loop of the host ends, whatever
\* entries and references the passes left behind.
IdleExits ==
  (pc # "start" /\ \A t \in Thread: status[t] \in {"new", "ok", "err", "freed"}) ~> Ended

----------------------------------------------------------------------------
(* What scripts are promised: TaskLife, read off the scheduler's state.    *)

LifeOf == [new |-> "new", run |-> "active", yield |-> "asleep",
           ok |-> "over", err |-> "over", freed |-> "over"]

life == [t \in Thread |-> LifeOf[status[t]]]

outcome == CASE pc = "undefined" -> "undefined"
             [] pc = "exit"      -> IF code = 0 THEN "success" ELSE "failure"
             [] OTHER            -> "running"

Promise == INSTANCE TaskLife WITH life <- life, outcome <- outcome

\* Every step of the scheduler is one that TaskLife allows: threads are woken
\* one at a time, out of co_wait only, and none is forgotten on success.
KeepsPromise == Promise!Spec
============================================================================
