--------------------------- MODULE CoTasksPromise ---------------------------
(***************************************************************************)
(* What the scheduler promises to scripts, for every number of threads.    *)
(* When no two threads end in the same pass (Regular), no sleeper is       *)
(* dropped, only ended threads leave `waiting`, and the scheduler          *)
(* implements TaskLife. For all scripts: freed memory is touched, and a    *)
(* sleeper loses its reference, only in the cases that CoTaskTrouble       *)
(* names.                                                                  *)
(***************************************************************************)
EXTENDS CoTasksProofs

----------------------------------------------------------------------------
(* Scripts whose waiting threads do not end together                       *)

\* No two waiting threads end before the same erase loop, suspended threads
\* are in co_wait, scripts hold their threads, and the host adds none.
Regular == Script \subseteq {"late_spawn", "shuffle", "throw", "refuse"}

OverAt(k) == status[waiting[k].state] = "ok"

\* At most one entry is that of a thread that has ended; the pass has collected
\* at most that one, and until it is erased the slots agree with the vector.
OneOver ==
  /\ \A i, j \in 1..Len(waiting): OverAt(i) /\ OverAt(j) => i = j
  /\ \A k \in 1..Len(completed): completed[k] \in 1..Len(waiting) /\ OverAt(completed[k])
  /\ pc \in {"scan", "lua"} => \A k \in 1..Len(completed): completed[k] < cursor
  /\ Len(completed) <= 1
  /\ pc = "erase" /\ completed # <<>> => Agree

\* Threads that were never started have no entry, and none is freed.
Lives ==
  /\ \A t \in Thread: status[t] # "freed" /\ (status[t] = "new" => ~HasEntry(t))
  /\ pc = "start" => \A t \in Thread: status[t] = "new"

PInv == IInv /\ CursorOK /\ OneOver /\ Lives /\ SleepersListed

\* What the typed state says about indices, gathered once.
LEMMA PInvFacts ==
  ASSUME PInv
  PROVE  /\ TypeOK /\ StackOK /\ PassOK /\ Unique /\ SlotsOK /\ CursorOK /\ OneOver /\ Lives /\ SleepersListed
         /\ (pc = "lua" => Agree) /\ (pc = "scan" => Agree) /\ (stop = 0 => old = <<>>)
         /\ DOMAIN waiting = 1..Len(waiting) /\ Len(waiting) \in Nat
         /\ Len(completed) \in Nat /\ completed \in Seq(Nat)
         /\ (completed # <<>> => 1 \in 1..Len(completed))
         /\ \A k \in 1..Len(waiting): waiting[k].state \in Thread
         /\ status \in [Thread -> {"new", "run", "yield", "ok", "err", "freed"}]
         /\ cursor \in Nat /\ stop \in Nat
  <1>1. /\ TypeOK /\ StackOK /\ PassOK /\ Unique /\ SlotsOK /\ CursorOK /\ OneOver /\ Lives /\ SleepersListed
        /\ (pc = "lua" => Agree) /\ (pc = "scan" => Agree) /\ (stop = 0 => old = <<>>)
    BY DEF PInv, IInv, SlotsOK, PassOK
  <1>2. DOMAIN waiting = 1..Len(waiting) /\ Len(waiting) \in Nat /\ Len(completed) \in Nat
    BY <1>1, LenProperties DEF TypeOK
  <1>3. completed # <<>> => 1 \in 1..Len(completed)
    BY <1>1, EmptySeq DEF TypeOK
  <1>4. \A k \in 1..Len(waiting): waiting[k] \in CoTask
    BY <1>1, ElementOfSeq DEF TypeOK
  <1> QED
    BY <1>1, <1>2, <1>3, <1>4 DEF CoTask, TypeOK

\* Nothing is collected while no entry is that of an ended thread.
LEMMA NoneCollected ==
  ASSUME PInv, \A k \in 1..Len(waiting): ~OverAt(k)
  PROVE  completed = <<>>
  BY PInvFacts DEF OneOver

\* The task under the cursor ends: it is the one ended entry, and the one
\* pointer collected.
LEMMA CollectOne ==
  ASSUME PInv, completed = <<>>, completed' = Append(completed, cursor),
         cursor \in 1..Len(waiting), waiting' = waiting, cursor' = cursor + 1,
         status'[waiting[cursor].state] = "ok",
         \A k \in 1..Len(waiting): OverAt(k)' => k = cursor,
         pc' = "scan"
  PROVE  OneOver'
  <1>1. cursor \in Nat /\ completed' = <<cursor>>
    BY PInvFacts
  <1>2. Len(completed') = 1 /\ completed'[1] = cursor
    BY <1>1
  <1> QED
    BY <1>1, <1>2, PInvFacts DEF OneOver, OverAt

LEMMA CoWaitPInv ==
  ASSUME PInv, NEW d \in Durations, CoWait(d)
  PROVE  OneOver' /\ Lives' /\ SleepersListed'
  <1>1. /\ pc = "lua" /\ d \in Int /\ Running \in Thread /\ status[Running] = "run"
        /\ Enlist(Running, d) /\ Leave("yield") /\ UNCHANGED <<residue, stop>>
    BY PInvFacts, RunningFacts, TimeAssumption DEF CoWait, Leave
  <1>2. PICK t \in Thread: t = Running
    BY <1>1
  <1>3. status[t] = "run" /\ Enlist(t, d) /\ status' = [status EXCEPT ![t] = "yield"]
    BY <1>1, <1>2 DEF Leave
  <1>4. /\ Len(waiting') >= Len(waiting) /\ HasEntry(t)' /\ waiting' \in Seq(CoTask)
        /\ \A k \in 1..Len(waiting): waiting'[k].state = waiting[k].state
        /\ \A k \in 1..Len(waiting'): k > Len(waiting) => waiting'[k].state = t
    BY <1>1, <1>3, PInvFacts, EnlistPreserves
  <1>5. DOMAIN waiting' = 1..Len(waiting') /\ Len(waiting') \in Nat
    BY <1>4, LenProperties
  <1>6. \A u: HasEntry(u)' => HasEntry(u) \/ u = t
    BY <1>4, <1>5, PInvFacts DEF HasEntry
  <1>7. \A u: HasEntry(u) => HasEntry(u)'
    BY <1>4, <1>5, PInvFacts DEF HasEntry
  <1>8. /\ completed' = completed /\ cursor' >= cursor /\ pc' # "erase" /\ pc' # "start"
    BY <1>1, PInvFacts DEF Leave, Judge
  <1>9. \A k \in 1..Len(waiting): OverAt(k) <=> OverAt(k)'
    BY <1>3, <1>4, PInvFacts DEF OverAt
  <1>10. \A k \in 1..Len(waiting'): OverAt(k)' => k \in 1..Len(waiting)
    BY <1>3, <1>4, <1>5, PInvFacts DEF OverAt
  <1>11. OneOver'
    <2>1. \A i, j \in 1..Len(waiting'): OverAt(i)' /\ OverAt(j)' => i = j
      BY <1>9, <1>10, PInvFacts DEF OneOver
    <2>2. \A k \in 1..Len(completed): completed[k] \in 1..Len(waiting') /\ OverAt(completed[k])
      BY <1>4, <1>5, PInvFacts DEF OneOver
    <2>3. \A k \in 1..Len(completed): status'[waiting'[completed[k]].state] = "ok"
      BY <1>3, <1>4, PInvFacts DEF OneOver, OverAt
    <2>4. \A k \in 1..Len(completed): completed[k] < cursor'
      <3>1. \A k \in 1..Len(completed): completed[k] < cursor
        BY <1>1, PInvFacts DEF OneOver
      <3>2. cursor \in Nat /\ cursor' \in Int /\ \A k \in 1..Len(completed): completed[k] \in Nat
        BY <1>1, PInvFacts, LeavePreserves DEF OneOver, Leave, Judge
      <3> QED
        BY <3>1, <3>2, <1>8
    <2> QED
      BY <2>1, <2>2, <2>3, <2>4, <1>8, PInvFacts DEF OneOver, OverAt
  <1>12. Lives'
    BY <1>3, <1>6, <1>8, PInvFacts DEF Lives
  <1>13. SleepersListed'
    BY <1>3, <1>4, <1>7, PInvFacts DEF SleepersListed
  <1> QED
    BY <1>11, <1>12, <1>13

LEMMA FinishPInv ==
  ASSUME PInv, "batch" \notin Script, Finish
  PROVE  OneOver' /\ Lives' /\ SleepersListed'
  <1>1. /\ pc = "lua" /\ Running \in Thread /\ status[Running] = "run" /\ Leave("ok")
        /\ UNCHANGED buffer /\ (HasEntry(Running) => \A u \in Thread: HasEntry(u) => status[u] # "ok")
    BY PInvFacts, RunningFacts DEF Finish
  <1>2. PICK t \in Thread: t = Running
    BY <1>1
  <1>3. status[t] = "run" /\ status' = [status EXCEPT ![t] = "ok"] /\ waiting' = waiting
    BY <1>1, <1>2 DEF Leave, buffer
  <1>4. pc' # "erase" /\ pc' # "start"
    BY <1>1, PInvFacts DEF Leave, Judge
  <1>5. Lives' /\ SleepersListed'
    <2>1. \A u: HasEntry(u)' <=> HasEntry(u)
      BY <1>3 DEF HasEntry
    <2> QED
      BY <1>3, <1>4, <2>1, PInvFacts DEF Lives, SleepersListed
  <1>6. CASE Via = "schedule"
    <2>1. /\ completed' = Append(completed, cursor) /\ cursor' = cursor + 1 /\ pc' = "scan"
      BY <1>1, <1>6 DEF Leave, Judge
    <2>2. Len(callstack) = 1 /\ stop > 0
      BY <1>1, <1>6, PInvFacts, RunningFacts
    <2>3. cursor \in 1..Len(waiting) /\ waiting[cursor].state = t
      <3>1. Running = callstack[1].th
        BY <1>1, <2>2, PInvFacts, RunningFacts
      <3> QED
        BY <1>1, <1>2, <2>2, <3>1, PInvFacts DEF CursorOK, PassOK, Agree
    <2>4. HasEntry(t)
      BY <2>3, PInvFacts DEF HasEntry
    <2>5. \A k \in 1..Len(waiting): ~OverAt(k)
      BY <1>1, <1>2, <2>4, PInvFacts DEF OverAt, HasEntry
    <2>6. completed = <<>>
      BY <2>5, NoneCollected
    <2>7. \A k \in 1..Len(waiting): OverAt(k)' => k = cursor
      BY <1>3, <2>3, <2>5, PInvFacts DEF OverAt, Unique
    <2>8. status'[waiting[cursor].state] = "ok"
      BY <1>3, <2>3, PInvFacts
    <2> QED
      BY <1>3, <1>5, <2>1, <2>3, <2>6, <2>7, <2>8, CollectOne
  <1>7. CASE Via # "schedule"
    <2>1. completed' = completed /\ cursor' = cursor
      BY <1>1, <1>7 DEF Leave
    <2>2. CASE HasEntry(t)
      <3>1. \A k \in 1..Len(waiting): ~OverAt(k)
        BY <1>1, <1>2, <2>2, PInvFacts DEF OverAt, HasEntry
      <3>2. completed = <<>>
        BY <3>1, NoneCollected
      <3>3. \A i, j \in 1..Len(waiting): OverAt(i)' /\ OverAt(j)' => i = j
        BY <1>3, <3>1, PInvFacts DEF OverAt, Unique
      <3> QED
        BY <1>3, <1>4, <1>5, <2>1, <3>2, <3>3, EmptySeq DEF OneOver, OverAt
    <2>3. CASE ~HasEntry(t)
      <3>1. \A k \in 1..Len(waiting): OverAt(k)' <=> OverAt(k)
        BY <1>3, <2>3, PInvFacts DEF OverAt, HasEntry
      <3> QED
        BY <1>1, <1>3, <1>4, <1>5, <2>1, <3>1, PInvFacts DEF OneOver, OverAt
    <2> QED
      BY <2>2, <2>3
  <1> QED
    BY <1>6, <1>7

LEMMA ThrowPInv ==
  ASSUME PInv, Throw
  PROVE  OneOver' /\ Lives' /\ SleepersListed'
  <1>1. /\ pc = "lua" /\ Running \in Thread /\ status[Running] = "run" /\ Leave("err")
        /\ UNCHANGED buffer
    BY PInvFacts, RunningFacts DEF Throw
  <1>2. PICK t \in Thread: t = Running
    BY <1>1
  <1>3. status[t] = "run" /\ status' = [status EXCEPT ![t] = "err"] /\ waiting' = waiting
    BY <1>1, <1>2 DEF Leave, buffer
  <1>4. pc' # "erase" /\ pc' # "start" /\ completed' = completed /\ cursor' = cursor
    BY <1>1, PInvFacts DEF Leave, Judge
  <1>5. \A u: HasEntry(u)' <=> HasEntry(u)
    BY <1>3 DEF HasEntry
  <1>6. \A k \in 1..Len(waiting): OverAt(k)' <=> OverAt(k)
    BY <1>3, PInvFacts DEF OverAt
  <1>7. OneOver'
    BY <1>1, <1>3, <1>4, <1>6, PInvFacts DEF OneOver, OverAt
  <1> QED
    BY <1>3, <1>4, <1>5, <1>7, PInvFacts DEF Lives, SleepersListed

LEMMA CallsPInv ==
  ASSUME PInv, Regular, Calls
  PROVE  OneOver' /\ Lives' /\ SleepersListed'
  <1>1. ASSUME NEW d \in Durations, CoWaitRefused(d)
        PROVE  OneOver' /\ Lives' /\ SleepersListed'
    <2>1. /\ pc = "lua" /\ d \in Int /\ Running \in Thread /\ status[Running] = "run"
          /\ Enlist(Running, d)
          /\ UNCHANGED <<pc, status, residue, cursor, stop, completed>>
      BY <1>1, PInvFacts, RunningFacts, TimeAssumption DEF CoWaitRefused, pass
    <2>2. PICK t \in Thread: t = Running
      BY <2>1
    <2>3. /\ Len(waiting') >= Len(waiting) /\ HasEntry(t)' /\ waiting' \in Seq(CoTask)
          /\ \A k \in 1..Len(waiting): waiting'[k].state = waiting[k].state
          /\ \A k \in 1..Len(waiting'): k > Len(waiting) => waiting'[k].state = t
      BY <2>1, <2>2, PInvFacts, EnlistPreserves
    <2>4. DOMAIN waiting' = 1..Len(waiting') /\ Len(waiting') \in Nat
      BY <2>3, LenProperties
    <2>5. \A u: HasEntry(u)' => HasEntry(u) \/ u = t
      BY <2>3, <2>4, PInvFacts DEF HasEntry
    <2>6. \A u: HasEntry(u) => HasEntry(u)'
      BY <2>3, <2>4, PInvFacts DEF HasEntry
    <2>7. \A k \in 1..Len(waiting): OverAt(k)' <=> OverAt(k)
      BY <2>1, <2>3 DEF OverAt
    <2>8. \A k \in 1..Len(waiting'): OverAt(k)' => k \in 1..Len(waiting)
      BY <2>1, <2>2, <2>3, <2>4, PInvFacts DEF OverAt
    <2>9. OneOver'
      BY <2>1, <2>3, <2>4, <2>7, <2>8, PInvFacts DEF OneOver, OverAt
    <2> QED
      BY <2>1, <2>2, <2>5, <2>6, <2>9, PInvFacts DEF Lives, SleepersListed
  <1>2. ASSUME NEW u \in Thread, CoSpawn(u)
        PROVE  OneOver' /\ Lives' /\ SleepersListed'
    <2>1. /\ pc = "lua" /\ pc' = "lua" /\ status[u] = "new" /\ status' = [status EXCEPT ![u] = "run"]
          /\ UNCHANGED <<waiting, completed, cursor>>
      BY <1>2 DEF CoSpawn, Enter, pass, buffer
    <2>2. \A w: HasEntry(w)' <=> HasEntry(w)
      BY <2>1 DEF HasEntry
    <2>3. \A k \in 1..Len(waiting): OverAt(k)' <=> OverAt(k)
      BY <2>1, PInvFacts DEF OverAt
    <2>4. OneOver'
      BY <2>1, <2>3, PInvFacts DEF OneOver, OverAt
    <2> QED
      BY <2>1, <2>2, <2>4, PInvFacts DEF Lives, SleepersListed
  <1> QED
    BY <1>1, <1>2 DEF Calls, Regular, Resume, Collect, AddTask

LEMMA HostPInv ==
  ASSUME PInv, Host
  PROVE  OneOver' /\ Lives' /\ SleepersListed'
  <1>1. CASE Start
    <2>1. /\ pc = "start" /\ pc' = "lua" /\ status[Main] = "new" /\ status' = [status EXCEPT ![Main] = "run"]
          /\ UNCHANGED <<waiting, completed, cursor>> /\ stop = 0 /\ Main \in Thread
      BY <1>1, PInvFacts DEF Start, Enter, pass, buffer, Lives, PassOK, Thread
    <2>2. \A k \in 1..Len(completed): FALSE
      BY <2>1, PInvFacts DEF PassOK
    <2>3. \A k \in 1..Len(waiting): OverAt(k)' <=> OverAt(k)
      BY <2>1, PInvFacts DEF OverAt
    <2>4. OneOver'
      BY <2>1, <2>2, <2>3, PInvFacts DEF OneOver
    <2>5. \A w: HasEntry(w)' <=> HasEntry(w)
      BY <2>1 DEF HasEntry
    <2> QED
      BY <2>1, <2>4, <2>5, PInvFacts DEF Lives, SleepersListed
  <1>2. CASE BeginPass \/ Exit
    <2>1. /\ pc = "loop" /\ pc' \in {"scan", "exit"} /\ stop = 0
          /\ UNCHANGED <<waiting, completed, status>>
      BY <1>2, PInvFacts DEF BeginPass, Exit, pass, buffer, PassOK
    <2>2. \A k \in 1..Len(completed): FALSE
      BY <2>1, PInvFacts DEF PassOK
    <2>3. OneOver'
      BY <2>1, <2>2, PInvFacts DEF OneOver, OverAt
    <2> QED
      BY <2>1, <2>3, PInvFacts DEF Lives, SleepersListed, HasEntry
  <1> QED
    BY <1>1, <1>2 DEF Host

LEMMA ScanPInv ==
  ASSUME PInv, ScanSkip \/ ScanResume \/ ScanJudge \/ EndScan \/ TouchFreed
  PROVE  OneOver' /\ Lives' /\ SleepersListed'
  <1>0. waiting' = waiting /\ \A w: HasEntry(w)' <=> HasEntry(w)
    BY DEF ScanSkip, ScanResume, ScanJudge, EndScan, TouchFreed, buffer, HasEntry
  <1>1. CASE ScanSkip \/ EndScan \/ TouchFreed
    <2>1. /\ pc' \notin {"lua", "start"} /\ status' = status /\ completed' = completed
          /\ (pc' = "scan" => pc = "scan" /\ cursor' = cursor + 1)
          /\ (pc' = "erase" => pc = "scan" /\ UNCHANGED <<residue, stop, old>>)
      BY <1>1 DEF ScanSkip, EndScan, TouchFreed, pass, buffer
    <2>2. \A k \in 1..Len(completed): pc' = "scan" => completed[k] < cursor'
      BY <2>1, PInvFacts DEF OneOver
    <2>3. pc' = "erase" => Agree'
      BY <1>0, <2>1, PInvFacts DEF Agree
    <2>4. OneOver'
      BY <1>0, <2>1, <2>2, <2>3, PInvFacts DEF OneOver, OverAt
    <2> QED
      BY <1>0, <2>1, <2>4, PInvFacts DEF Lives, SleepersListed
  <1>2. CASE ScanResume
    <2>1. PICK u \in Thread: u = Slots[cursor].state
      <3>1. pc = "scan" /\ cursor \in 1..stop
        BY <1>2, PInvFacts DEF ScanResume, PassOK
      <3> QED
        BY <3>1, PInvFacts, SlotRead
    <2>2. /\ pc = "scan" /\ pc' = "lua" /\ status[u] = "yield" /\ status' = [status EXCEPT ![u] = "run"]
          /\ UNCHANGED <<completed, cursor>>
      BY <1>2, <2>1 DEF ScanResume, Enter, pass
    <2>3. \A k \in 1..Len(waiting): OverAt(k)' <=> OverAt(k)
      BY <1>0, <2>2, PInvFacts DEF OverAt
    <2>4. OneOver'
      BY <1>0, <2>2, <2>3, PInvFacts DEF OneOver, OverAt
    <2> QED
      BY <1>0, <2>2, <2>4, PInvFacts DEF Lives, SleepersListed
  <1>3. CASE ScanJudge
    <2>1. pc = "scan" /\ cursor \in 1..stop /\ status' = status /\ pc' # "start"
      BY <1>3, PInvFacts DEF ScanJudge, PassOK, Judge
    <2>2. Lives' /\ SleepersListed'
      BY <1>0, <2>1, PInvFacts DEF Lives, SleepersListed
    <2>3. cursor \in 1..Len(waiting) /\ Slots[cursor].state = waiting[cursor].state
      BY <2>1, PInvFacts, SlotRead
    <2>4. CASE Judge("ok") /\ status[Slots[cursor].state] \in {"ok", "new"}
      <3>1. OverAt(cursor)
        BY <2>3, <2>4, PInvFacts DEF Lives, HasEntry, OverAt
      <3>2. completed = <<>>
        BY <2>1, <2>3, <3>1, PInvFacts DEF OneOver
      <3>3. completed' = Append(completed, cursor) /\ cursor' = cursor + 1 /\ pc' = "scan"
        BY <2>4 DEF Judge
      <3>4. /\ status'[waiting[cursor].state] = "ok"
            /\ \A k \in 1..Len(waiting): OverAt(k)' => k = cursor
        BY <1>0, <2>1, <2>3, <3>1, PInvFacts DEF OneOver, OverAt
      <3> QED
        BY <1>0, <2>2, <2>3, <3>2, <3>3, <3>4, CollectOne
    <2>5. CASE Judge("err")
      <3>1. completed' = completed /\ pc' \in {"exit", "undefined"}
        BY <2>5 DEF Judge
      <3> QED
        BY <1>0, <2>1, <2>2, <3>1, PInvFacts DEF OneOver, OverAt
    <2> QED
      BY <1>3, <2>4, <2>5 DEF ScanJudge
  <1> QED
    BY <1>1, <1>2, <1>3

\* The entry the one collected pointer names, and no other, is erased.
LEMMA EraseOne ==
  ASSUME PInv, EraseCompleted
  PROVE  \E v: /\ status[v] = "ok" /\ RemoveTask(v) /\ completed' = <<>> /\ status' = status
               /\ \A k \in 1..Len(waiting): OverAt(k) => waiting[k].state = v
  <1>. DEFINE c == Head(completed)
              v == waiting[c].state
  <1>1. /\ pc = "erase" /\ completed # <<>> /\ RemoveTask(Slots[c].state)
        /\ completed' = Tail(completed) /\ status' = status
    BY PInvFacts, ErasesTask DEF EraseCompleted
  <1>2. c = completed[1] /\ Len(completed) = 1 /\ c \in 1..stop /\ Agree
    <2>1. Head(completed) = completed[1]
      OBVIOUS
    <2>2. Len(completed) = 1 /\ completed[1] \in 1..stop
      <3>. DEFINE n == Len(completed)
      <3>1. n \in Nat /\ 1 \in 1..n /\ n <= 1
        BY <1>1, PInvFacts DEF OneOver
      <3>2. \A k \in 1..n: completed[k] \in 1..stop
        BY PInvFacts DEF PassOK
      <3>. HIDE DEF n
      <3>3. n = 1 /\ completed[1] \in 1..stop
        BY <3>1, <3>2
      <3> QED
        BY <3>3 DEF n
    <2>3. Agree
      BY <1>1, PInvFacts DEF OneOver
    <2> QED
      BY <2>1, <2>2, <2>3
  <1>3. Slots[c].state = v /\ c \in 1..Len(waiting) /\ OverAt(c)
    BY <1>1, <1>2, PInvFacts, SlotRead DEF OneOver
  <1>4. completed' = <<>>
    <2>1. Tail(completed) \in Seq(Nat) /\ Len(Tail(completed)) = 0
      BY <1>1, <1>2, PInvFacts, HeadTailProperties
    <2> QED
      BY <1>1, <2>1, EmptySeq
  <1>5. \A k \in 1..Len(waiting): OverAt(k) => waiting[k].state = v
    BY <1>3, PInvFacts DEF OneOver
  <1> QED
    BY <1>1, <1>3, <1>4, <1>5 DEF OverAt

LEMMA ErasePInv ==
  ASSUME PInv, IInv', EraseCompleted \/ EndPass
  PROVE  OneOver' /\ Lives' /\ SleepersListed'
  <1>1. CASE EraseCompleted
    <2>1. PICK v: /\ status[v] = "ok" /\ RemoveTask(v) /\ completed' = <<>> /\ status' = status
                  /\ \A k \in 1..Len(waiting): OverAt(k) => waiting[k].state = v
      BY <1>1, EraseOne
    <2>2. /\ waiting' \in Seq(CoTask) /\ Unique'
          /\ \A u: HasEntry(u) /\ u # v => HasEntry(u)'
          /\ \A u: HasEntry(u)' => HasEntry(u)
      BY <2>1, PInvFacts, RemoveTaskPreserves
    <2>3. \A k \in 1..Len(waiting'): OverAt(k)' => waiting'[k].state = v
      <3>1. SUFFICES ASSUME NEW k \in 1..Len(waiting'), status[waiting'[k].state] = "ok"
                     PROVE  waiting'[k].state = v
        BY <2>1 DEF OverAt
      <3>2. PICK u: u = waiting'[k].state
        OBVIOUS
      <3>3. HasEntry(u)'
        BY <2>2, <3>2, LenProperties DEF HasEntry
      <3>4. PICK m \in 1..Len(waiting): waiting[m].state = u
        BY <2>2, <3>3, PInvFacts DEF HasEntry
      <3> QED
        BY <2>1, <3>1, <3>2, <3>4 DEF OverAt
    <2>4. OneOver'
      <3>1. \A i, j \in 1..Len(waiting'): OverAt(i)' /\ OverAt(j)' => i = j
        BY <2>2, <2>3 DEF Unique
      <3> QED
        BY <2>1, <3>1, EmptySeq DEF OneOver
    <2>5. Lives'
      <3>1. pc' # "start"
        BY <1>1 DEF EraseCompleted
      <3> QED
        BY <2>1, <2>2, <3>1, PInvFacts DEF Lives
    <2>6. SleepersListed'
      BY <2>1, <2>2, PInvFacts DEF SleepersListed
    <2> QED
      BY <2>4, <2>5, <2>6
  <1>2. CASE EndPass
    <2>1. /\ completed = <<>> /\ completed' = <<>> /\ pc' \in {"loop", "undefined"}
          /\ UNCHANGED <<waiting, status>>
      BY <1>2 DEF EndPass
    <2>2. OneOver'
      BY <2>1, EmptySeq, PInvFacts DEF OneOver, OverAt
    <2> QED
      BY <2>1, <2>2, PInvFacts DEF Lives, SleepersListed, HasEntry
  <1> QED
    BY <1>1, <1>2

LEMMA StepPInv == Regular /\ PInv /\ [Next]_vars => PInv'
  <1>. SUFFICES ASSUME Regular, PInv, [Next]_vars PROVE PInv'
    OBVIOUS
  <1>1. IInv' /\ CursorOK'
    BY StepIInv, StepCursorOK, NextIsScripts DEF PInv, Regular
  <1>2. CASE Segment
    <2>1. "batch" \notin Script /\ ~Yield
      BY DEF Regular, Yield
    <2>2. OneOver' /\ Lives' /\ SleepersListed'
      BY <1>2, <2>1, CoWaitPInv, FinishPInv, ThrowPInv DEF Segment
    <2> QED
      BY <1>1, <2>2 DEF PInv
  <1>3. CASE Tick \/ UNCHANGED vars
    <2>1. UNCHANGED <<pc, waiting, completed, cursor, status, residue, stop, old>>
      BY <1>3 DEF Tick, vars, pass, buffer
    <2>2. OneOver' /\ Lives' /\ SleepersListed'
      BY <2>1, PInvFacts DEF OneOver, OverAt, Agree, Lives, SleepersListed, HasEntry
    <2> QED
      BY <1>1, <2>2 DEF PInv
  <1> QED
    BY <1>1, <1>2, <1>3, CallsPInv, HostPInv, ScanPInv, ErasePInv DEF PInv, Next, Schedule, Over

LEMMA InitPInv == Init => PInv
  <1>1. Init => CursorOK /\ OneOver /\ Lives /\ SleepersListed
    <2>1. Len(<<>>) = 0
      BY EmptySeq
    <2> QED
      BY <2>1 DEF Init, CursorOK, OneOver, Lives, SleepersListed, HasEntry
  <1> QED
    BY <1>1, InitIInv DEF PInv

LEMMA PromiseInvariant == ASSUME Regular PROVE Spec => []PInv
  BY InitPInv, StepPInv, PTL DEF Spec

----------------------------------------------------------------------------
(* Theorems for regular scripts *)

\* No sleeper is ever without its entry in `waiting`.
THEOREM NoSleeperLost == ASSUME Regular PROVE Spec => []SleepersListed
  BY PromiseInvariant, PTL DEF PInv

\* Only the entry of an ended thread leaves `waiting`.
THEOREM OnlyDoneLeaves == ASSUME Regular PROVE Spec => OnlyDoneLeave
  <1>1. Regular /\ PInv /\ [Next]_vars =>
          [\A t \in Thread: HasEntry(t) /\ ~HasEntry(t)' => status[t] = "ok"]_vars
    <2>. SUFFICES ASSUME Regular, PInv, Next, NEW t \in Thread, HasEntry(t), ~HasEntry(t)'
                  PROVE  status[t] = "ok"
      OBVIOUS
    <2>. DEFINE Kept == \A u: HasEntry(u) => HasEntry(u)'
    <2>1. waiting' = waiting => Kept
      BY DEF HasEntry
    <2>2. ASSUME NEW u \in Thread, NEW d \in Int, Agree, Enlist(u, d), UNCHANGED <<residue, stop>>
          PROVE  Kept
      <3>1. /\ Len(waiting') >= Len(waiting) /\ waiting' \in Seq(CoTask)
            /\ \A k \in 1..Len(waiting): waiting'[k].state = waiting[k].state
        BY <2>2, PInvFacts, EnlistPreserves
      <3>2. DOMAIN waiting' = 1..Len(waiting') /\ Len(waiting') \in Nat
        BY <3>1, LenProperties
      <3> QED
        BY <3>1, <3>2, PInvFacts DEF HasEntry
    <2>3. CASE Segment
      <3>1. pc = "lua" /\ Agree /\ Running \in Thread
        BY <2>3, PInvFacts, RunningFacts DEF Segment, CoWait, Finish, Throw, Yield
      <3>2. ASSUME NEW d \in Durations, CoWait(d) PROVE Kept
        BY <2>2, <3>1, <3>2, TimeAssumption DEF CoWait, Leave
      <3>3. CASE Finish \/ Throw \/ Yield
        BY <2>1, <3>3 DEF Finish, Throw, Yield, buffer
      <3> QED
        BY <2>3, <3>2, <3>3 DEF Segment
    <2>4. CASE Calls
      <3>1. ASSUME NEW d \in Durations, CoWaitRefused(d) PROVE Kept
        <4>1. pc = "lua" /\ Agree /\ Running \in Thread
          BY <3>1, PInvFacts, RunningFacts DEF CoWaitRefused
        <4> QED
          BY <2>2, <3>1, <4>1, TimeAssumption DEF CoWaitRefused, pass
      <3>2. ASSUME NEW u \in Thread, CoSpawn(u) \/ Resume(u) \/ Collect(u) PROVE Kept
        BY <2>1, <3>2 DEF CoSpawn, Resume, Collect, buffer
      <3> QED
        BY <2>4, <3>1, <3>2 DEF Calls, AddTask, Regular
    <2>5. CASE Host \/ ScanSkip \/ ScanResume \/ ScanJudge \/ EndScan \/ EndPass \/ TouchFreed \/ Tick \/ Over
      BY <2>1, <2>5 DEF Host, Start, BeginPass, Exit, ScanSkip, ScanResume, ScanJudge, EndScan,
                        EndPass, TouchFreed, Tick, Over, vars, buffer
    <2>6. CASE EraseCompleted
      <3>1. PICK v: status[v] = "ok" /\ RemoveTask(v)
        BY <2>6, EraseOne
      <3>2. \A u: HasEntry(u) /\ u # v => HasEntry(u)'
        BY <3>1, PInvFacts, RemoveTaskPreserves
      <3> QED
        BY <3>1, <3>2
    <2> QED
      BY <2>3, <2>4, <2>5, <2>6 DEF Next, Schedule
  <1> QED
    BY <1>1, PromiseInvariant, PTL DEF Spec, OnlyDoneLeave

\* The exit code is 0 only when no thread is left asleep.
THEOREM SuccessMeansDone == ASSUME Regular PROVE Spec => []ZeroMeansDone
  <1>1. Init => ZeroMeansDone
    BY DEF Init, ZeroMeansDone
  <1>2. PInv /\ ZeroMeansDone /\ [Next]_vars => ZeroMeansDone'
    <2>. SUFFICES ASSUME PInv, ZeroMeansDone, [Next]_vars, pc' = "exit", code' = 0, NEW t \in Thread
                  PROVE  status'[t] # "yield"
      BY DEF ZeroMeansDone
    <2>1. CASE Exit
      <3>1. waiting = <<>> /\ status' = status
        BY <2>1 DEF Exit, Busy
      <3>2. ~HasEntry(t)
        BY <3>1 DEF HasEntry
      <3> QED
        BY <3>1, <3>2, PInvFacts DEF SleepersListed
    <2>2. CASE UNCHANGED <<pc, code, status>>
      BY <2>2 DEF ZeroMeansDone
    <2>3. CASE Segment
      <3>1. pc' # "exit" \/ code' = -2
        BY <2>3 DEF Segment, CoWait, Finish, Throw, Yield, Leave, Judge
      <3> QED
        BY <3>1
    <2>4. CASE ScanJudge
      BY <2>4 DEF ScanJudge, Judge
    <2>5. CASE Calls \/ Start \/ BeginPass \/ ScanResume \/ EndScan \/ EraseCompleted \/ EndPass \/ TouchFreed \/ ScanSkip
      BY <2>5 DEF Calls, CoWaitRefused, CoSpawn, Enter, Resume, Collect, AddTask, Start, BeginPass,
                  ScanResume, EndScan, EraseCompleted, EndPass, TouchFreed, ScanSkip
    <2> QED
      BY <2>1, <2>2, <2>3, <2>4, <2>5 DEF Next, Host, Schedule, Tick, Over, vars
  <1> QED
    BY <1>1, <1>2, PromiseInvariant, PTL DEF Spec

----------------------------------------------------------------------------
(* The scheduler implements TaskLife *)

LEMMA LifeOfStatus ==
  /\ LifeOf["new"] = "new" /\ LifeOf["run"] = "active" /\ LifeOf["yield"] = "asleep"
  /\ LifeOf["ok"] = "over" /\ LifeOf["err"] = "over" /\ LifeOf["freed"] = "over"
  BY DEF LifeOf

LEMMA LifeFacts ==
  ASSUME NEW t \in Thread
  PROVE  /\ status[t] = "new" => life[t] = "new"
         /\ status[t] = "run" => life[t] = "active"
         /\ status[t] = "yield" => life[t] = "asleep"
         /\ status[t] \in {"ok", "err", "freed"} => life[t] = "over"
  <1>1. life[t] = LifeOf[status[t]]
    BY DEF life
  <1> QED
    BY <1>1, LifeOfStatus

LEMMA OutcomeFacts == pc \notin {"exit", "undefined"} => outcome = "running"
  BY DEF outcome

LEMMA IdleFacts == PInv /\ pc \notin {"lua", "undefined"} => Promise!Idle
  <1>. SUFFICES ASSUME PInv, pc \notin {"lua", "undefined"}, NEW t \in Thread
                PROVE  life[t] # "active"
    BY DEF Promise!Idle
  <1>1. status[t] \in {"new", "run", "yield", "ok", "err", "freed"}
    BY PInvFacts
  <1>2. status[t] # "run"
    BY PInvFacts, EmptySeq DEF StackOK
  <1>3. CASE status[t] = "new"
    BY <1>3, LifeFacts
  <1>4. CASE status[t] = "yield"
    BY <1>4, LifeFacts
  <1>5. CASE status[t] \in {"ok", "err", "freed"}
    BY <1>5, LifeFacts
  <1> QED
    BY <1>1, <1>2, <1>3, <1>4, <1>5

\* A step that changes the status of one thread is one turn of its life.
LEMMA OneTurn ==
  ASSUME PInv, NEW t \in Thread, NEW st, status' = [status EXCEPT ![t] = st]
  PROVE  Promise!Turn(t, LifeOf[status[t]], LifeOf[st])
  <1>1. status \in [Thread -> {"new", "run", "yield", "ok", "err", "freed"}]
    BY PInvFacts
  <1>2. life = [u \in Thread |-> LifeOf[status[u]]] /\ life' = [u \in Thread |-> LifeOf[status'[u]]]
    BY DEF life
  <1>3. \A u \in Thread: status'[u] = IF u = t THEN st ELSE status[u]
    BY <1>1
  <1>4. life[t] = LifeOf[status[t]]
    BY <1>2
  <1>5. life' = [life EXCEPT ![t] = LifeOf[st]]
    BY <1>2, <1>3
  <1> QED
    BY <1>4, <1>5 DEF Promise!Turn

LEMMA StepPromise == Regular /\ PInv /\ [Next]_vars => [Promise!Next]_Promise!vars
  <1>. SUFFICES ASSUME Regular, PInv, [Next]_vars PROVE Promise!Next \/ UNCHANGED <<life, outcome>>
    BY DEF Promise!vars
  <1>1. status \in [Thread -> {"new", "run", "yield", "ok", "err", "freed"}]
    BY PInvFacts
  <1>2. UNCHANGED status => life' = life
    BY DEF life
  <1>3. UNCHANGED <<pc, code>> => outcome' = outcome
    BY DEF outcome
  <1>4. CASE Segment
    <2>1. PICK st \in {"yield", "ok", "err"}: Leave(st)
      BY <1>4 DEF Segment, CoWait, Finish, Throw, Yield
    <2>2. PICK t \in Thread: t = Running
      BY <1>4, PInvFacts, RunningFacts DEF Segment, CoWait, Finish, Throw, Yield
    <2>3. pc = "lua" /\ status[t] = "run" /\ status' = [status EXCEPT ![t] = st]
      BY <1>4, <2>1, <2>2, PInvFacts, RunningFacts DEF Segment, CoWait, Finish, Throw, Yield, Leave
    <2>4. outcome = "running"
      BY <2>3, OutcomeFacts
    <2>5. /\ pc' \in {"lua", "loop", "scan", "exit", "undefined"}
          /\ pc' = "exit" => st = "err" /\ code' = -2
          /\ pc' = "undefined" => st = "err"
      BY <2>1, <2>3 DEF Leave, Judge
    <2>6. outcome' \in {"running", "failure", "undefined"} /\ (st # "err" => outcome' = "running")
      BY <2>5 DEF outcome
    <2>7. Promise!Turn(t, "active", LifeOf[st])
      BY <2>3, LifeOfStatus, OneTurn
    <2>8. CASE st = "yield"
      BY <2>4, <2>6, <2>7, <2>8, LifeOfStatus DEF Promise!Next, Promise!Sleep
    <2>9. CASE st \in {"ok", "err"}
      BY <2>4, <2>6, <2>7, <2>9, LifeOfStatus DEF Promise!Next, Promise!End
    <2> QED
      BY <2>8, <2>9
  <1>5. CASE Calls
    <2>1. ASSUME NEW d \in Durations, CoWaitRefused(d) PROVE UNCHANGED <<life, outcome>>
      BY <1>2, <1>3, <2>1 DEF CoWaitRefused
    <2>2. ASSUME NEW u \in Thread, CoSpawn(u) PROVE Promise!Begin(u)
      <3>1. /\ pc = "lua" /\ u \in Coroutine /\ status[u] = "new" /\ pc' = "lua" /\ code' = code
            /\ status' = [status EXCEPT ![u] = "run"]
        BY <2>2 DEF CoSpawn, Enter
      <3>2. u # Main /\ outcome = "running" /\ outcome' = outcome
        BY <3>1, <1>3, ThreadAssumption, OutcomeFacts
      <3>3. ~Promise!Idle
        <4>1. PICK r \in Thread: status[r] = "run"
          BY <3>1, PInvFacts, RunningFacts
        <4>2. life[r] = "active"
          BY <4>1, LifeFacts
        <4> QED
          BY <4>2 DEF Promise!Idle
      <3>4. Promise!Turn(u, "new", "active")
        BY <3>1, LifeOfStatus, OneTurn
      <3> QED
        BY <3>2, <3>3, <3>4 DEF Promise!Begin
    <2> QED
      BY <1>5, <2>1, <2>2 DEF Calls, Regular, Resume, Collect, AddTask, Promise!Next
  <1>6. CASE Start
    <2>1. /\ pc = "start" /\ pc' = "lua" /\ code' = code /\ Main \in Thread
          /\ status' = [status EXCEPT ![Main] = "run"]
      BY <1>6 DEF Start, Enter, Thread
    <2>2. outcome = "running" /\ outcome' = "running"
      BY <2>1, OutcomeFacts DEF outcome
    <2>5. \A u \in Thread: life[u] = "new"
      <3>1. \A u \in Thread: status[u] = "new"
        BY <2>1, PInvFacts DEF Lives
      <3> QED
        BY <3>1, LifeFacts
    <2>3. Promise!Turn(Main, "new", "active")
      <3>1. status[Main] = "new"
        BY <2>1, PInvFacts DEF Lives
      <3> QED
        BY <2>1, <3>1, LifeOfStatus, OneTurn
    <2> QED
      BY <2>1, <2>2, <2>3, <2>5 DEF Promise!Begin, Promise!Next
  <1>7. CASE ScanResume
    <2>1. PICK u \in Thread: u = Slots[cursor].state
      <3>1. pc = "scan" /\ cursor \in 1..stop
        BY <1>7, PInvFacts DEF ScanResume, PassOK
      <3> QED
        BY <3>1, PInvFacts, SlotRead
    <2>2. /\ pc = "scan" /\ pc' = "lua" /\ status[u] = "yield" /\ status' = [status EXCEPT ![u] = "run"]
      BY <1>7, <2>1 DEF ScanResume, Enter
    <2>3. Promise!Idle /\ outcome = "running" /\ outcome' = "running"
      BY <2>2, IdleFacts DEF outcome
    <2>4. Promise!Turn(u, "asleep", "active")
      BY <2>2, LifeOfStatus, OneTurn
    <2> QED
      BY <2>3, <2>4 DEF Promise!Wake, Promise!Next
  <1>8. CASE Exit
    <2>1. pc = "loop" /\ pc' = "exit" /\ waiting = <<>> /\ status' = status
      BY <1>8 DEF Exit, Busy
    <2>2. Promise!Idle /\ outcome = "running" /\ life' = life
      BY <1>2, <2>1, IdleFacts, OutcomeFacts
    <2>3. \A t \in Thread: life[t] \in {"new", "over"}
      <3>1. \A t \in Thread: status[t] # "yield"
        BY <2>1, PInvFacts DEF SleepersListed, HasEntry
      <3>2. \A t \in Thread: status[t] # "run"
        BY <2>1, PInvFacts, EmptySeq DEF StackOK
      <3>3. SUFFICES ASSUME NEW t \in Thread PROVE life[t] \in {"new", "over"}
        OBVIOUS
      <3>4. status[t] \in {"new", "run", "yield", "ok", "err", "freed"}
        BY <1>1
      <3>5. CASE status[t] = "new"
        BY <3>5, LifeFacts
      <3>6. CASE status[t] \in {"ok", "err", "freed"}
        BY <3>6, LifeFacts
      <3> QED
        BY <3>1, <3>2, <3>4, <3>5, <3>6
    <2>4. outcome' \in {"success", "failure"}
      BY <2>1 DEF outcome
    <2> QED
      BY <2>2, <2>3, <2>4 DEF Promise!Halt, Promise!Next
  <1>9. CASE ScanJudge
    <2>1. pc = "scan" /\ status' = status /\ (Judge("ok") \/ Judge("err"))
      BY <1>9 DEF ScanJudge
    <2>2. Promise!Idle /\ outcome = "running" /\ life' = life
      BY <1>2, <2>1, IdleFacts, OutcomeFacts
    <2>3. outcome' \in {"running", "failure", "undefined"}
      BY <2>1 DEF Judge, outcome
    <2> QED
      BY <2>2, <2>3 DEF Promise!Halt, Promise!Next
  <1>10. CASE ScanSkip \/ EndScan \/ BeginPass \/ EraseCompleted \/ EndPass \/ TouchFreed
    <2>1. /\ pc \in {"scan", "loop", "erase"} /\ pc' \in {"scan", "loop", "erase", "undefined"}
          /\ status' = status
      BY <1>10 DEF ScanSkip, EndScan, BeginPass, EraseCompleted, EndPass, TouchFreed
    <2>2. outcome = "running" /\ life' = life /\ outcome' \in {"running", "undefined"}
      BY <1>2, <2>1 DEF outcome
    <2> QED
      BY <2>2 DEF Promise!Halt, Promise!Next
  <1>11. CASE Tick \/ UNCHANGED vars
    BY <1>2, <1>3, <1>11 DEF Tick, vars
  <1> QED
    BY <1>4, <1>5, <1>6, <1>7, <1>8, <1>9, <1>10, <1>11 DEF Next, Host, Schedule, Over

\* Every step of the scheduler is one TaskLife allows, or leaves threads and
\* outcome as they are.
THEOREM ImplementsTaskLife == ASSUME Regular PROVE Spec => KeepsPromise
  <1>1. Init => Promise!Init
    <2>. SUFFICES ASSUME Init PROVE Promise!Init
      OBVIOUS
    <2>1. status = [t \in Thread |-> "new"] /\ pc = "start"
      BY DEF Init
    <2>2. \A t \in Thread: LifeOf[status[t]] = "new"
      BY <2>1, LifeOfStatus
    <2>3. life = [t \in Thread |-> "new"]
      BY <2>2 DEF life
    <2>4. outcome = "running"
      BY <2>1, OutcomeFacts
    <2> QED
      BY <2>3, <2>4 DEF Promise!Init
  <1> QED
    BY <1>1, StepPromise, PromiseInvariant, PTL DEF Spec, KeepsPromise, Promise!Spec

----------------------------------------------------------------------------
(* Freed memory, whatever scripts and the embedding program do             *)

\* While none of the serious cases of CoTaskTrouble has come up: a coroutine with
\* an entry is held, a reference is that of a living thread and goes through the
\* lua_State of a living one, and the main thread lives.
Safe ==
  /\ \A t \in Coroutine: HasEntry(t) => Held(t)
  /\ \A t \in Thread: fixed_refs[t] # NoRef => status[t] # "freed" /\ status[fixed_refs[t]] # "freed"
  /\ status[Main] # "freed"

Serious == Shifts \/ Orphans \/ EntersUnheld \/ Doubles

LEMMA SafeFacts ==
  ASSUME Undoubled
  PROVE  /\ TypeOK /\ StackOK /\ PassOK /\ SlotsOK /\ Unique /\ CursorOK
         /\ status \in [Thread -> {"new", "run", "yield", "ok", "err", "freed"}]
         /\ fixed_refs \in [Thread -> Thread \union {NoRef}]
         /\ Main \in Thread /\ Coroutine \subseteq Thread
         /\ callstack \in Seq(Frame) /\ Len(callstack) \in Nat /\ DOMAIN callstack = 1..Len(callstack)
  BY LenProperties DEF Undoubled, IInv, TypeOK, Thread

\* Where a thread is held once it is out of co_spawn: by its guard in fixed_refs.
LEMMA HeldOutside ==
  ASSUME Undoubled, pc \notin {"lua", "undefined"}, NEW t, Held(t)
  PROVE  fixed_refs[t] # NoRef
  <1>1. callstack = <<>>
    BY SafeFacts DEF StackOK
  <1>2. DOMAIN callstack = {}
    BY <1>1
  <1> QED
    BY <1>2 DEF Held

\* A thread that may be collected is not held.
LEMMA CollectsUnheld ==
  ASSUME Undoubled, Safe, NEW u \in Thread, Collect(u)
  PROVE  ~Held(u) /\ ~HasEntry(u) /\ ~OnStack(u)
  <1>1. /\ pc = "lua" /\ u # Main /\ fixed_refs[u] = NoRef
        /\ \A i \in DOMAIN callstack: callstack[i].th = u => callstack[i].via = "schedule"
    BY DEF Collect
  <1>2. ~Held(u)
    BY <1>1 DEF Held
  <1>3. ~HasEntry(u)
    BY <1>1, <1>2 DEF Safe, Thread
  <1>4. ASSUME OnStack(u) PROVE FALSE
    <2>1. PICK i \in 1..Len(callstack): callstack[i].th = u
      BY <1>4, SafeFacts DEF OnStack
    <2>2. callstack[i].via = "schedule"
      BY <1>1, <2>1, SafeFacts
    <2>3. i = 1 /\ stop > 0
      BY <1>1, <2>1, <2>2, SafeFacts DEF StackOK
    <2>4. cursor \in 1..stop /\ waiting[cursor].state = u
      BY <1>1, <2>1, <2>3, SafeFacts DEF PassOK, CursorOK
    <2>5. cursor \in DOMAIN waiting
      BY <1>1, <2>4, SafeFacts, SlotRead DEF SlotsOK
    <2> QED
      BY <1>3, <2>4, <2>5 DEF HasEntry
  <1> QED
    BY <1>2, <1>3, <1>4

\* Returning from lua_resume lets go of no thread: the guard of co_spawn moves
\* into fixed_refs.
LEMMA LeaveSafe ==
  ASSUME Undoubled, Safe, pc = "lua", NEW st \in {"yield", "ok", "err"}, Leave(st)
  PROVE  /\ \A t: t \in Coroutine /\ Held(t) => Held(t)'
         /\ \A t \in Thread: fixed_refs'[t] # NoRef => status'[t] # "freed" /\ status'[fixed_refs'[t]] # "freed"
         /\ status'[Main] # "freed"
  <1>. DEFINE n == Len(callstack)
              w == Last(Front(callstack)).th
  <1>1. /\ n \in Nat \ {0} /\ Running \in Thread /\ Running = callstack[n].th /\ Via = callstack[n].via
        /\ Via \in {"main", "schedule"} <=> n = 1
        /\ Front(callstack) \in Seq(Frame) /\ Len(Front(callstack)) = n - 1
        /\ \A i \in 1..(n - 1): Front(callstack)[i] = callstack[i]
    BY SafeFacts, RunningFacts
  <1>2. /\ callstack' = Front(callstack) /\ status' = [status EXCEPT ![Running] = st]
        /\ DOMAIN callstack' = 1..(n - 1)
    BY <1>1, LenProperties DEF Leave
  <1>3. /\ \A t \in Thread: status[t] # "freed" => status'[t] # "freed"
        /\ status'[Running] # "freed"
    BY <1>1, <1>2, SafeFacts
  <1>4. CASE Via = "spawn"
    <2>1. fixed_refs' = [fixed_refs EXCEPT ![Running] = w]
      BY <1>4 DEF Leave
    <2>2. n - 1 \in 1..n /\ n - 1 \in 1..(n - 1)
      BY <1>1, <1>4
    <2>3. w = callstack[n - 1].th
      BY <1>1, <2>2 DEF Last
    <2>4. w \in Thread /\ status[w] = "run"
      <3>1. status[callstack[n - 1].th] = "run"
        BY <2>2, SafeFacts DEF StackOK
      <3>2. callstack[n - 1] \in Frame
        BY <2>2, SafeFacts, ElementOfSeq
      <3> QED
        BY <2>3, <3>1, <3>2 DEF Frame
    <2>. HIDE DEF w
    <2>5. \A t \in Thread: fixed_refs'[t] = IF t = Running THEN w ELSE fixed_refs[t]
      BY <2>1, SafeFacts
    <2>6. w # NoRef
      BY <2>4, ThreadAssumption
    <2>7. ASSUME NEW t \in Coroutine, Held(t) PROVE Held(t)'
      <3>1. CASE t = Running \/ fixed_refs[t] # NoRef
        BY <2>5, <2>6, <3>1, SafeFacts DEF Held
      <3>2. ASSUME t # Running, NEW i \in DOMAIN callstack, callstack[i] = [th |-> t, via |-> "spawn"]
            PROVE  Held(t)'
        <4>1. i # n /\ i \in 1..(n - 1)
          BY <1>1, <3>2, SafeFacts
        <4>2. i \in DOMAIN callstack' /\ callstack'[i] = [th |-> t, via |-> "spawn"]
          BY <1>1, <1>2, <3>2, <4>1
        <4> QED
          BY <4>2 DEF Held
      <3> QED
        BY <2>7, <3>1, <3>2 DEF Held
    <2>8. ASSUME NEW t \in Thread, fixed_refs'[t] # NoRef
          PROVE  status'[t] # "freed" /\ status'[fixed_refs'[t]] # "freed"
      <3>1. CASE t = Running
        BY <1>3, <2>4, <2>5, <3>1
      <3>2. CASE t # Running
        <4>1. fixed_refs'[t] = fixed_refs[t] /\ fixed_refs[t] \in Thread
          BY <2>5, <2>8, <3>2, SafeFacts
        <4> QED
          BY <1>3, <2>8, <4>1 DEF Safe
      <3> QED
        BY <3>1, <3>2
    <2> QED
      BY <1>3, <2>7, <2>8, SafeFacts DEF Safe
  <1>5. CASE Via # "spawn"
    <2>1. fixed_refs' = fixed_refs
      BY <1>5 DEF Leave
    <2>2. ASSUME NEW t \in Coroutine, Held(t) PROVE Held(t)'
      <3>1. ASSUME NEW i \in DOMAIN callstack, callstack[i] = [th |-> t, via |-> "spawn"]
            PROVE  Held(t)'
        <4>1. i # n /\ i \in 1..(n - 1)
          BY <1>1, <1>5, <3>1, SafeFacts
        <4>2. i \in DOMAIN callstack' /\ callstack'[i] = [th |-> t, via |-> "spawn"]
          BY <1>1, <1>2, <3>1, <4>1
        <4> QED
          BY <4>2 DEF Held
      <3> QED
        BY <2>1, <2>2, <3>1 DEF Held
    <2>3. ASSUME NEW t \in Thread, fixed_refs'[t] # NoRef
          PROVE  status'[t] # "freed" /\ status'[fixed_refs'[t]] # "freed"
      <3>1. fixed_refs[t] \in Thread
        BY <2>1, <2>3, SafeFacts
      <3> QED
        BY <1>3, <2>1, <2>3, <3>1 DEF Safe
    <2> QED
      BY <1>3, <2>2, <2>3, SafeFacts DEF Safe
  <1> QED
    BY <1>4, <1>5

\* lua_resume: the frames below stay.
LEMMA EnterSafe ==
  ASSUME Undoubled, Safe, NEW u \in Thread, NEW via \in {"main", "schedule", "spawn", "script"},
         Enter(u, via), fixed_refs' = fixed_refs
  PROVE  /\ \A t: t \in Coroutine /\ Held(t) => Held(t)'
         /\ \A t \in Thread: fixed_refs'[t] # NoRef => status'[t] # "freed" /\ status'[fixed_refs'[t]] # "freed"
         /\ status'[Main] # "freed"
  <1>1. [th |-> u, via |-> via] \in Frame
    BY DEF Frame
  <1>2. \A i \in DOMAIN callstack: i \in DOMAIN callstack' /\ callstack'[i] = callstack[i]
    <2>. DEFINE f == [th |-> u, via |-> via]
    <2>1. callstack' = Append(callstack, f) /\ f \in Frame
      BY <1>1 DEF Enter
    <2>. HIDE DEF f
    <2>2. /\ callstack' \in Seq(Frame) /\ Len(callstack') = Len(callstack) + 1
          /\ \A i \in 1..Len(callstack): callstack'[i] = callstack[i]
      BY <2>1, SafeFacts, AppendProperties
    <2>3. DOMAIN callstack' = 1..(Len(callstack) + 1)
      BY <2>2, LenProperties
    <2> QED
      BY <2>2, <2>3, SafeFacts
  <1>3. \A t \in Thread: status[t] # "freed" => status'[t] # "freed"
    BY SafeFacts DEF Enter
  <1>4. \A t: Held(t) => Held(t)'
    BY <1>2 DEF Held
  <1>5. \A t \in Thread: fixed_refs[t] # NoRef => fixed_refs[t] \in Thread
    BY SafeFacts
  <1> QED
    BY <1>3, <1>4, <1>5, SafeFacts DEF Safe

\* std::remove leaves no entry of the thread it is given.
LEMMA RemovesEntry ==
  ASSUME TypeOK, Unique, NEW t, RemoveTask(t)
  PROVE  ~HasEntry(t)'
  <1>1. waiting \in Seq(CoTask) /\ Len(waiting) \in Nat /\ DOMAIN waiting = 1..Len(waiting)
    BY LenProperties DEF TypeOK
  <1>2. CASE ~HasEntry(t) /\ UNCHANGED <<waiting, residue>>
    BY <1>2 DEF HasEntry
  <1>3. ASSUME NEW i \in DOMAIN waiting, waiting[i].state = t, waiting' = RemoveAt(waiting, i)
        PROVE  ~HasEntry(t)'
    <2>1. /\ waiting' \in Seq(CoTask) /\ Len(waiting') = Len(waiting) - 1
          /\ \A j \in 1..(Len(waiting) - 1): waiting'[j] = IF j < i THEN waiting[j] ELSE waiting[j + 1]
      BY <1>1, <1>3, RemoveAtProperties
    <2>2. DOMAIN waiting' = 1..(Len(waiting) - 1)
      BY <2>1, LenProperties
    <2>3. ASSUME NEW j \in 1..(Len(waiting) - 1) PROVE waiting'[j].state # t
      <3>1. /\ j \in 1..Len(waiting) /\ j + 1 \in 1..Len(waiting) /\ i \in 1..Len(waiting)
            /\ j < i => j # i
            /\ ~(j < i) => j + 1 # i
        BY <1>1, <1>3
      <3>2. \A k \in 1..Len(waiting): k # i => waiting[k].state # t
        BY <1>3, <3>1 DEF Unique
      <3> QED
        BY <2>1, <3>1, <3>2
    <2> QED
      BY <2>2, <2>3 DEF HasEntry
  <1> QED
    BY <1>2, <1>3 DEF RemoveTask

\* What the erase of a completed task reads, if no slot has shifted under it.
LEMMA EraseFacts ==
  ASSUME Undoubled, EraseCompleted, ~Shifts
  PROVE  \E v \in Thread:
           /\ RemoveTask(v) /\ fixed_refs' = [fixed_refs EXCEPT ![v] = NoRef]
           /\ pc' = IF Unrefs({v}) THEN pc ELSE "undefined"
  <1>. DEFINE c == Head(completed)
              v == Slots[c].state
              t == Slots'[c].state
  <1>1. pc = "erase" /\ completed # <<>> /\ RemoveTask(v) /\ t = v
    BY SafeFacts, ErasesTask DEF EraseCompleted, Shifts
  <1>2. c \in 1..stop
    <2>1. completed \in Seq(Nat) /\ Len(completed) \in Nat
      BY SafeFacts, LenProperties DEF TypeOK
    <2>2. c = completed[1] /\ 1 \in 1..Len(completed)
      BY <1>1, <2>1, EmptySeq
    <2> QED
      BY <2>2, SafeFacts DEF PassOK
  <1>. HIDE DEF c
  <1>3. Slots \in Seq(CoTask) /\ stop <= Len(Slots)
    <2>1. waiting \in Seq(CoTask) /\ residue \in Seq(CoTask) /\ old \in Seq(CoTask)
      BY SafeFacts DEF TypeOK
    <2>2. /\ waiting \o residue \in Seq(CoTask)
          /\ Len(waiting \o residue) = Len(waiting) + Len(residue)
      BY <2>1, ConcatProperties
    <2> QED
      BY <1>1, <2>1, <2>2, SafeFacts DEF Slots, SlotsOK
  <1>4. Slots[c] \in CoTask
    <2>1. stop \in Nat /\ Len(Slots) \in Nat
      BY <1>3, LenProperties, SafeFacts DEF TypeOK
    <2>2. c \in 1..Len(Slots)
      BY <1>2, <1>3, <2>1
    <2> QED
      BY <1>3, <2>2, ElementOfSeq
  <1>5. v \in Thread
    BY <1>4 DEF CoTask
  <1>6. fixed_refs' = [fixed_refs EXCEPT ![t] = NoRef] /\ pc' = IF Unrefs({t}) THEN pc ELSE "undefined"
    BY DEF EraseCompleted, c
  <1> QED
    BY <1>1, <1>5, <1>6

LEMMA EraseSafe ==
  ASSUME Undoubled, Safe, EraseCompleted, ~Shifts
  PROVE  /\ \A t: t \in Coroutine /\ HasEntry(t)' /\ Held(t) => Held(t)'
         /\ \A t \in Thread: fixed_refs'[t] # NoRef => status'[t] # "freed" /\ status'[fixed_refs'[t]] # "freed"
         /\ status'[Main] # "freed" /\ pc' = "erase"
  <1>1. PICK v \in Thread: /\ RemoveTask(v) /\ fixed_refs' = [fixed_refs EXCEPT ![v] = NoRef]
                           /\ pc' = IF Unrefs({v}) THEN pc ELSE "undefined"
    BY EraseFacts
  <1>2. status' = status /\ callstack' = callstack /\ pc = "erase"
    BY DEF EraseCompleted
  <1>3. \A t \in Thread: fixed_refs'[t] = IF t = v THEN NoRef ELSE fixed_refs[t]
    BY <1>1, SafeFacts
  <1>4. ASSUME NEW t \in Coroutine, HasEntry(t)', Held(t) PROVE Held(t)'
    <2>1. t # v
      BY <1>1, <1>4, SafeFacts, RemovesEntry
    <2>2. fixed_refs[t] # NoRef
      BY <1>2, <1>4, HeldOutside
    <2> QED
      BY <1>3, <2>1, <2>2, SafeFacts DEF Held
  <1>5. ASSUME NEW t \in Thread, fixed_refs'[t] # NoRef
        PROVE  status'[t] # "freed" /\ status'[fixed_refs'[t]] # "freed"
    BY <1>2, <1>3, <1>5 DEF Safe
  <1>6. Unrefs({v})
    BY DEF Unrefs, Safe
  <1> QED
    BY <1>1, <1>2, <1>4, <1>5, <1>6 DEF Safe

LEMMA StepSafe == Undoubled /\ Safe /\ [Next]_vars /\ ~Serious => Safe'
  <1>. SUFFICES ASSUME Undoubled, Safe, [Next]_vars, ~Serious PROVE Safe'
    OBVIOUS
  <1>. DEFINE Keeps == /\ \A t: t \in Coroutine /\ HasEntry(t)' /\ Held(t) => Held(t)'
                       /\ \A t \in Thread: fixed_refs'[t] # NoRef =>
                            status'[t] # "freed" /\ status'[fixed_refs'[t]] # "freed"
                       /\ status'[Main] # "freed"
  <1>1. CASE Segment
    <2>1. PICK st \in {"yield", "ok", "err"}: Leave(st)
      BY <1>1 DEF Segment, CoWait, Finish, Throw, Yield
    <2>2. pc = "lua"
      BY <1>1 DEF Segment, CoWait, Finish, Throw, Yield
    <2>3. Keeps
      BY <2>1, <2>2, LeaveSafe
    <2> QED
      BY <2>3 DEF Serious, EntersUnheld, Safe
  <1>2. CASE Start \/ ScanResume \/ (\E u \in Thread: CoSpawn(u) \/ Resume(u))
    <2>1. PICK u \in Thread, via \in {"main", "schedule", "spawn", "script"}:
                 Enter(u, via) /\ fixed_refs' = fixed_refs
      <3>1. CASE Start
        BY <3>1, SafeFacts DEF Start
      <3>2. CASE ScanResume
        <4>1. pc = "scan" /\ cursor \in 1..stop
          BY <3>2, SafeFacts DEF ScanResume, PassOK
        <4>2. Slots[cursor].state \in Thread
          BY <4>1, SafeFacts, SlotRead DEF SlotsOK
        <4> QED
          BY <3>2, <4>2 DEF ScanResume
      <3>3. CASE \E u \in Thread: CoSpawn(u) \/ Resume(u)
        BY <3>3 DEF CoSpawn, Resume
      <3> QED
        BY <1>2, <3>1, <3>2, <3>3
    <2>2. Keeps
      BY <2>1, EnterSafe
    <2> QED
      BY <2>2 DEF Serious, EntersUnheld, Safe
  <1>3. ASSUME NEW u \in Thread, Collect(u) PROVE Safe'
    <2>1. /\ status' = [status EXCEPT ![u] = "freed"] /\ status[u] # "freed" /\ u # Main
          /\ UNCHANGED <<fixed_refs, callstack>> /\ fixed_refs[u] = NoRef
      BY <1>3 DEF Collect
    <2>2. \A t \in Thread: fixed_refs[t] # u
      BY <2>1, SafeFacts DEF Serious, Orphans
    <2>3. \A t \in Thread: status'[t] = IF t = u THEN "freed" ELSE status[t]
      BY <2>1, SafeFacts
    <2>4. \A t \in Thread: fixed_refs[t] # NoRef => fixed_refs[t] \in Thread
      BY SafeFacts
    <2>5. Keeps
      BY <2>1, <2>2, <2>3, <2>4, SafeFacts DEF Safe, Held
    <2> QED
      BY <2>5 DEF Serious, EntersUnheld, Safe
  <1>4. CASE EraseCompleted
    <2>1. Keeps
      BY <1>4, EraseSafe DEF Serious
    <2> QED
      BY <2>1 DEF Serious, EntersUnheld, Safe
  <1>5. CASE EndPass
    <2>1. /\ UNCHANGED <<waiting, status, callstack>> /\ pc = "erase"
          /\ fixed_refs' = IF waiting = <<>> THEN [t \in Thread |-> NoRef] ELSE fixed_refs
      BY <1>5 DEF EndPass
    <2>2. waiting = <<>> => \A t: ~HasEntry(t)'
      BY <2>1 DEF HasEntry
    <2>3. Keeps
      BY <2>1, <2>2 DEF Safe, Held
    <2> QED
      BY <2>3 DEF Serious, EntersUnheld, Safe
  <1>6. CASE UNCHANGED <<callstack, status, fixed_refs>>
    <2>1. Keeps
      BY <1>6 DEF Safe, Held
    <2> QED
      BY <2>1 DEF Serious, EntersUnheld, Safe
  <1>7. CASE \/ \E d \in Durations: CoWaitRefused(d)
             \/ \E u \in Thread: AddTask(u)
             \/ BeginPass \/ Exit \/ ScanSkip \/ ScanJudge \/ EndScan \/ TouchFreed \/ Tick \/ UNCHANGED vars
    BY <1>6, <1>7 DEF CoWaitRefused, AddTask, BeginPass, Exit, ScanSkip, ScanJudge, EndScan,
                      TouchFreed, Tick, vars
  <1> QED
    BY <1>1, <1>2, <1>3, <1>4, <1>5, <1>7 DEF Next, Calls, Host, Schedule, Over

\* No step touches freed memory while the buffer of the pass is the vector's.
LEMMA StepDefined ==
  Undoubled /\ Safe /\ old = <<>> /\ pc # "undefined" /\ [Next]_vars /\ ~Serious /\ ~Regrows
    => old' = <<>> /\ pc' # "undefined"
  <1>. SUFFICES ASSUME Undoubled, Safe, old = <<>>, pc # "undefined", [Next]_vars, ~Serious, ~Regrows
                PROVE  pc' # "undefined"
    BY DEF Regrows
  <1>1. CASE Segment
    BY <1>1 DEF Segment, CoWait, Finish, Throw, Yield, Leave, Judge
  <1>2. ASSUME NEW u \in Thread, Collect(u) PROVE pc' # "undefined"
    BY <1>2, CollectsUnheld DEF Collect
  <1>3. CASE EraseCompleted
    BY <1>3, EraseSafe DEF Serious
  <1>4. CASE EndPass
    <2>1. Unrefs(Thread)
      BY DEF Unrefs, Safe
    <2> QED
      BY <1>4, <2>1 DEF EndPass
  <1>5. CASE TouchFreed
    <2>1. pc = "scan" /\ cursor <= stop /\ status[Slots[cursor].state] = "freed"
      BY <1>5 DEF TouchFreed
    <2>2. cursor \in 1..stop
      BY <2>1, SafeFacts DEF PassOK, TypeOK
    <2>3. /\ Slots[cursor].state \in Thread /\ cursor \in DOMAIN waiting
          /\ Slots[cursor].state = waiting[cursor].state
      BY <2>1, <2>2, SafeFacts, SlotRead DEF SlotsOK
    <2>4. PICK t \in Thread: t = Slots[cursor].state
      BY <2>3
    <2>5. HasEntry(t) /\ status[t] = "freed"
      BY <2>1, <2>3, <2>4 DEF HasEntry
    <2>6. t \in Coroutine
      BY <2>5 DEF Safe, Thread
    <2>7. fixed_refs[t] # NoRef
      BY <2>1, <2>5, <2>6, HeldOutside DEF Safe
    <2> QED
      BY <2>5, <2>7 DEF Safe
  <1>6. CASE \/ \E d \in Durations: CoWaitRefused(d)
             \/ \E u \in Thread: CoSpawn(u) \/ Resume(u) \/ AddTask(u)
    BY <1>6 DEF CoWaitRefused, CoSpawn, Resume, AddTask, Enter
  <1>7. CASE Host \/ ScanSkip \/ ScanResume \/ EndScan \/ Tick \/ UNCHANGED vars
    BY <1>7 DEF Host, Start, BeginPass, Exit, ScanSkip, ScanResume, EndScan, Tick, Enter, vars
  <1>8. CASE ScanJudge
    BY <1>8 DEF ScanJudge, Judge
  <1> QED
    BY <1>1, <1>2, <1>3, <1>4, <1>5, <1>6, <1>7, <1>8 DEF Next, Calls, Schedule, Over

\* The invariant, told by what has come up.
Sound ==
  \/ "doubled" \in trouble
  \/ /\ Undoubled
     /\ trouble \subseteq {"regrown"} => Safe
     /\ trouble = {} => old = <<>> /\ pc # "undefined"

LEMMA StepSound == Sound /\ [TroubleNext]_<<vars, trouble>> => Sound'
  <1>. SUFFICES ASSUME Sound, [TroubleNext]_<<vars, trouble>>, "doubled" \notin trouble' PROVE Sound'
    BY DEF Sound
  <1>1. CASE TroubleNext
    <2>1. Next /\ trouble' = trouble \union {case \in Troubles: Arises(case)}
      BY <1>1 DEF TroubleNext
    <2>2. \A case \in Troubles: Arises(case) => case \in trouble'
      BY <2>1
    <2>3. /\ Regrows => "regrown" \in trouble'
          /\ Shifts => "shifted" \in trouble'
          /\ Orphans => "orphaned" \in trouble'
          /\ EntersUnheld => "unheld" \in trouble'
          /\ Doubles => "doubled" \in trouble'
      BY <2>2 DEF Troubles, Arises
    <2>4. Undoubled /\ ~Doubles /\ "doubled" \notin trouble
      BY <2>1, <2>3 DEF Sound
    <2>5. Undoubled'
      BY <2>1, <2>4, StepUndoubled
    <2>6. ASSUME trouble' \subseteq {"regrown"} PROVE Safe'
      <3>1. ~Serious /\ trouble \subseteq {"regrown"}
        BY <2>1, <2>3, <2>6 DEF Serious
      <3> QED
        BY <2>1, <2>4, <3>1, StepSafe DEF Sound
    <2>7. ASSUME trouble' = {} PROVE old' = <<>> /\ pc' # "undefined"
      <3>1. ~Serious /\ ~Regrows /\ trouble = {}
        BY <2>1, <2>3, <2>7 DEF Serious
      <3> QED
        BY <2>1, <2>4, <3>1, StepDefined DEF Sound
    <2> QED
      BY <2>5, <2>6, <2>7 DEF Sound
  <1>2. CASE UNCHANGED <<vars, trouble>>
    <2>1. (Undoubled /\ ~Doubles) \/ vars' # vars
      BY <1>2, DoublesChanges DEF Sound, Undoubled, IInv
    <2>2. Undoubled'
      BY <1>2, <2>1, StepUndoubled
    <2>3. Safe => Safe'
      BY <1>2 DEF Safe, HasEntry, Held, vars
    <2> QED
      BY <1>2, <2>2, <2>3 DEF Sound, vars
  <1> QED
    BY <1>1, <1>2

LEMMA SoundInvariant == TroubleSpec => []Sound
  <1>1. Init /\ trouble = {} => Sound
    <2>1. Init => Safe
      <3>1. Init => Main \in Thread /\ status = [t \in Thread |-> "new"] /\ waiting = <<>>
                    /\ fixed_refs = [t \in Thread |-> NoRef]
        BY DEF Init, Thread
      <3> QED
        BY <3>1 DEF Safe, HasEntry
    <2> QED
      BY <2>1, InitUndoubled DEF Init, Sound
  <1> QED
    BY <1>1, StepSound, PTL DEF TroubleSpec, TroubleInit

\* Whatever scripts and the embedding program do: a coroutine that sleeps in
\* `waiting` is held by a reference that can be released, until a reference is
\* dropped in the place of another (line 111 after the slots have shifted), a
\* spawner is freed before its child, an entry is made for a coroutine that
\* nothing holds, or add_task doubles an entry.
THEOREM SleepersStayAnchored == TroubleSpec => []SleepersAnchored
  <1>1. Sound => SleepersAnchored
    <2>. SUFFICES ASSUME Sound, NEW t \in Coroutine, status[t] = "yield", HasEntry(t),
                         pc \notin {"exit", "undefined"}, trouble \ {"regrown"} = {}
                  PROVE  fixed_refs[t] # NoRef /\ status[fixed_refs[t]] # "freed"
      BY DEF SleepersAnchored
    <2>1. Undoubled /\ Safe /\ t \in Thread
      BY DEF Sound, Thread
    <2>2. Held(t)
      BY <2>1 DEF Safe
    <2>3. ASSUME NEW i \in DOMAIN callstack, callstack[i] = [th |-> t, via |-> "spawn"] PROVE FALSE
      <3>1. callstack # <<>> /\ i \in 1..Len(callstack)
        BY <2>1, <2>3, SafeFacts, EmptySeq
      <3>2. pc = "lua"
        BY <2>1, <3>1, SafeFacts DEF StackOK
      <3>3. status[callstack[i].th] = "run" /\ callstack[i].th = t
        BY <2>1, <2>3, <3>1, <3>2, SafeFacts DEF StackOK
      <3> QED
        BY <3>3
    <2>4. fixed_refs[t] # NoRef
      BY <2>2, <2>3 DEF Held
    <2> QED
      BY <2>1, <2>4 DEF Safe
  <1> QED
    BY <1>1, SoundInvariant, PTL

\* Whatever scripts and the embedding program do, the scheduler touches freed
\* memory only after one of the five cases of CoTaskTrouble.
THEOREM NothingFreedIsTouched == TroubleSpec => []MemorySafe
  <1>1. Sound => MemorySafe
    BY DEF Sound, MemorySafe
  <1> QED
    BY <1>1, SoundInvariant, PTL

============================================================================
