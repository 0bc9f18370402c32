--------------------------- MODULE CoTasksProofs ---------------------------
(***************************************************************************)
(* Theorems about the scheduler, for every set of threads and every bound  *)
(* on the clock. For every class of scripts: types, one entry per thread   *)
(* until add_task doubles one, and a pass that collects the task it has    *)
(* run. Without "park" and "host": what is collected has ended, and no     *)
(* thread is resumed before its first wait plus all it has asked for.      *)
(***************************************************************************)
EXTENDS CoTaskClock, CoTaskTrouble, SequenceLemmas

----------------------------------------------------------------------------
(* The inductive invariant *)

\* Lua runs exactly while frames are on the stack. The lowest frame, and only
\* that one, was entered by the host or by a pass; a thread has one frame.
StackOK ==
  /\ pc = "lua" =>
       /\ callstack # <<>>
       /\ callstack[1].via = "schedule" <=> stop > 0
       /\ \A i \in 1..Len(callstack):
            /\ callstack[i].via \in {"main", "schedule"} <=> i = 1
            /\ status[callstack[i].th] = "run"
            /\ \A j \in 1..Len(callstack): callstack[i].th = callstack[j].th => i = j
  /\ pc \notin {"lua", "undefined"} => callstack = <<>>
  /\ pc # "undefined" =>
       \A t \in Thread: status[t] = "run" => \E i \in 1..Len(callstack): callstack[i].th = t

\* The cursor and the collected pointers stay within the slots of the pass.
PassOK ==
  /\ pc \in {"start", "loop"} => stop = 0 /\ residue = <<>>
  /\ stop = 0 => old = <<>>
  /\ \A k \in 1..Len(completed): completed[k] \in 1..stop
  /\ pc = "scan" => cursor \in 1..(stop + 1)
  /\ pc = "lua" /\ stop > 0 => cursor \in 1..stop

\* Up to the cached end, the slots iterated over name the same threads as the
\* vector, even when a push_back has replaced the buffer.
Agree ==
  /\ residue = <<>> /\ stop <= Len(waiting)
  /\ old # <<>> => stop <= Len(old) /\ \A k \in 1..stop: old[k].state = waiting[k].state

SlotsOK ==
  /\ pc \in {"scan", "lua"} => Agree
  /\ pc = "erase" => stop <= IF old = <<>> THEN Len(waiting) + Len(residue) ELSE Len(old)

Unique == \A i, j \in 1..Len(waiting): waiting[i].state = waiting[j].state => i = j

IInv == TypeOK /\ StackOK /\ PassOK /\ SlotsOK /\ Unique

\* A step of scripts, of the collector, of the loop or of a pass: of anything but
\* the embedding program's calls of add_task.
ScriptStep ==
  \/ Segment \/ (\E d \in Durations: CoWaitRefused(d))
  \/ \E u \in Thread: CoSpawn(u) \/ Resume(u) \/ Collect(u)
  \/ Host \/ Schedule \/ Tick \/ UNCHANGED vars

----------------------------------------------------------------------------
(* The parts of the actions *)

\* Appending an entry for a thread that has none.
LEMMA PushBackPreserves ==
  ASSUME TypeOK, Unique, Agree, stop = 0 => old = <<>>,
         NEW t \in Thread, NEW d \in Int, ~HasEntry(t), PushBack(t, d),
         UNCHANGED <<residue, stop>>
  PROVE  /\ waiting' \in Seq(CoTask) /\ cap' \in Nat /\ old' \in Seq(CoTask)
         /\ Unique' /\ Agree' /\ (stop = 0 => old' = <<>>)
         /\ Len(waiting') = Len(waiting) + 1 /\ waiting'[Len(waiting')].state = t
         /\ \A k \in 1..Len(waiting): waiting'[k].state = waiting[k].state
  <1>. DEFINE e == [state |-> t, started |-> clock, duration |-> d]
  <1>1. e \in CoTask /\ e.state = t
    BY DEF TypeOK, CoTask
  <1>. HIDE DEF e
  <1>2. /\ waiting \in Seq(CoTask) /\ Len(waiting) \in Nat
        /\ DOMAIN waiting = 1..Len(waiting)
        /\ cap \in Nat /\ old \in Seq(CoTask) /\ stop \in Nat
    BY LenProperties DEF TypeOK
  <1>3. waiting' = Append(waiting, e)
    BY DEF PushBack, e
  <1>4. /\ waiting' \in Seq(CoTask) /\ Len(waiting') = Len(waiting) + 1
        /\ \A k \in 1..Len(waiting): waiting'[k] = waiting[k]
        /\ waiting'[Len(waiting) + 1] = e
    BY <1>1, <1>2, <1>3, AppendProperties
  <1>5. cap' \in Nat /\ old' \in {old, waiting} /\ (stop = 0 => old' = old)
    BY <1>2 DEF PushBack
  <1>6. \A k \in 1..Len(waiting): waiting[k].state # t
    BY <1>2 DEF HasEntry
  <1>7. Unique'
    BY <1>1, <1>2, <1>4, <1>6 DEF Unique
  <1>8. Agree'
    <2>1. residue' = <<>> /\ stop' = stop /\ stop <= Len(waiting) /\ stop <= Len(waiting')
      BY <1>2, <1>4 DEF Agree
    <2>2. ASSUME old' # <<>> PROVE stop <= Len(old') /\ \A k \in 1..stop: old'[k].state = waiting'[k].state
      <3>1. CASE old' = waiting
        BY <3>1, <2>1, <1>2, <1>4
      <3>2. CASE old' = old
        BY <3>2, <2>1, <2>2, <1>2, <1>4 DEF Agree
      <3> QED
        BY <3>1, <3>2, <1>5
    <2> QED
      BY <2>1, <2>2 DEF Agree
  <1> QED
    BY <1>1, <1>2, <1>4, <1>5, <1>7, <1>8

\* The vector part of co_wait: a new entry, or a longer duration.
LEMMA EnlistPreserves ==
  ASSUME TypeOK, Unique, Agree, stop = 0 => old = <<>>,
         NEW t \in Thread, NEW d \in Int, Enlist(t, d),
         UNCHANGED <<residue, stop>>
  PROVE  /\ waiting' \in Seq(CoTask) /\ cap' \in Nat /\ old' \in Seq(CoTask)
         /\ Unique' /\ Agree' /\ (stop = 0 => old' = <<>>)
         /\ Len(waiting') >= Len(waiting) /\ HasEntry(t)'
         /\ \A k \in 1..Len(waiting): waiting'[k].state = waiting[k].state
         /\ \A k \in 1..Len(waiting'): k > Len(waiting) => waiting'[k].state = t
  <1>1. /\ waiting \in Seq(CoTask) /\ Len(waiting) \in Nat
        /\ DOMAIN waiting = 1..Len(waiting)
        /\ cap \in Nat /\ old \in Seq(CoTask) /\ stop \in Nat
    BY LenProperties DEF TypeOK
  <1>2. CASE ~HasEntry(t) /\ PushBack(t, d)
    <2>1. /\ waiting' \in Seq(CoTask) /\ cap' \in Nat /\ old' \in Seq(CoTask)
          /\ Unique' /\ Agree' /\ (stop = 0 => old' = <<>>)
          /\ Len(waiting') = Len(waiting) + 1 /\ waiting'[Len(waiting')].state = t
          /\ \A k \in 1..Len(waiting): waiting'[k].state = waiting[k].state
      BY <1>2, PushBackPreserves
    <2>2. DOMAIN waiting' = 1..Len(waiting')
      BY <2>1, LenProperties
    <2> QED
      BY <1>1, <2>1, <2>2 DEF HasEntry
  <1>3. ASSUME NEW i \in DOMAIN waiting, waiting[i].state = t,
               waiting' = [waiting EXCEPT ![i].duration = @ + d],
               UNCHANGED <<cap, old>>
        PROVE  /\ waiting' \in Seq(CoTask) /\ cap' \in Nat /\ old' \in Seq(CoTask)
               /\ Unique' /\ Agree' /\ (stop = 0 => old' = <<>>)
               /\ Len(waiting') >= Len(waiting) /\ HasEntry(t)'
               /\ \A k \in 1..Len(waiting): waiting'[k].state = waiting[k].state
               /\ \A k \in 1..Len(waiting'): k > Len(waiting) => waiting'[k].state = t
    <2>. DEFINE e == [waiting[i] EXCEPT !.duration = @ + d]
    <2>1. waiting[i] \in CoTask
      BY <1>1, ElementOfSeq
    <2>2. e \in CoTask /\ e.state = waiting[i].state
      BY <2>1 DEF CoTask
    <2>3. waiting' = [waiting EXCEPT ![i] = e]
      BY <1>3
    <2>. HIDE DEF e
    <2>4. /\ waiting' \in Seq(CoTask) /\ Len(waiting') = Len(waiting)
          /\ \A k \in 1..Len(waiting): waiting'[k] = IF k = i THEN e ELSE waiting[k]
      <3>. DEFINE w == [waiting EXCEPT ![i] = e]
      <3>1. i \in 1..Len(waiting) /\ waiting' = w
        BY <1>1, <1>3, <2>3
      <3>2. /\ w \in Seq(CoTask) /\ Len(w) = Len(waiting)
            /\ \A k \in 1..Len(waiting): w[k] = IF k = i THEN e ELSE waiting[k]
        BY <1>1, <2>2, <3>1, ExceptSeq
      <3>. HIDE DEF w
      <3> QED
        BY <3>1, <3>2
    <2>5. \A k \in 1..Len(waiting): waiting'[k].state = waiting[k].state
      BY <2>2, <2>4
    <2>6. DOMAIN waiting' = 1..Len(waiting)
      BY <2>4, LenProperties
    <2>7. Unique'
      BY <2>4, <2>5 DEF Unique
    <2>8. Agree'
      BY <1>1, <1>3, <2>4, <2>5 DEF Agree
    <2>9. HasEntry(t)'
      BY <1>1, <1>3, <2>5, <2>6 DEF HasEntry
    <2> QED
      BY <1>1, <1>3, <2>4, <2>5, <2>7, <2>8, <2>9
  <1> QED
    BY <1>2, <1>3 DEF Enlist, FirstEntry

\* lua_resume pushes a frame for a thread that is not running.
LEMMA EnterPreserves ==
  ASSUME TypeOK, StackOK, NEW u \in Thread, NEW via \in {"main", "schedule", "spawn", "script"},
         Enter(u, via), stop' = stop, status[u] # "run",
         \/ pc \notin {"lua", "undefined"} /\ via = (IF stop > 0 THEN "schedule" ELSE "main")
         \/ pc = "lua" /\ via \in {"spawn", "script"}
  PROVE  /\ pc' = "lua" /\ callstack' \in Seq(Frame) /\ callstack' # <<>>
         /\ status' \in [Thread -> {"new", "run", "yield", "ok", "err", "freed"}]
         /\ StackOK' /\ callstack'[Len(callstack')].th = u
         /\ callstack # <<>> => callstack'[1] = callstack[1]
  <1>. DEFINE f == [th |-> u, via |-> via]
  <1>1. f \in Frame /\ f.th = u /\ f.via = via
    BY DEF Frame
  <1>. HIDE DEF f
  <1>2. /\ callstack \in Seq(Frame) /\ Len(callstack) \in Nat /\ stop \in Nat
        /\ \A i \in 1..Len(callstack): callstack[i] \in Frame
        /\ (callstack # <<>> => Len(callstack) > 0) /\ Len(<<>>) = 0
        /\ status \in [Thread -> {"new", "run", "yield", "ok", "err", "freed"}]
    BY LenProperties, ElementOfSeq, EmptySeq DEF TypeOK
  <1>3. callstack' = Append(callstack, f) /\ pc' = "lua"
    BY DEF Enter, f
  <1>4. /\ callstack' \in Seq(Frame) /\ Len(callstack') = Len(callstack) + 1
        /\ \A i \in 1..Len(callstack): callstack'[i] = callstack[i]
        /\ callstack'[Len(callstack) + 1] = f
    BY <1>1, <1>2, <1>3, AppendProperties
  <1>5. /\ status' \in [Thread -> {"new", "run", "yield", "ok", "err", "freed"}]
        /\ status'[u] = "run" /\ \A t \in Thread: status[t] = "run" => status'[t] = "run"
    BY <1>2 DEF Enter
  <1>6. /\ pc = "lua" => Len(callstack) > 0
        /\ pc # "lua" => Len(callstack) = 0
    BY <1>2 DEF StackOK
  <1>7. \A i \in 1..Len(callstack):
          /\ callstack[i].th \in Thread /\ callstack[i].th # u
          /\ status[callstack[i].th] = "run"
          /\ callstack[i].via \in {"main", "schedule"} <=> i = 1
          /\ \A j \in 1..Len(callstack): callstack[i].th = callstack[j].th => i = j
    BY <1>2, <1>6 DEF StackOK, Frame
  <1>8. callstack' # <<>>
    BY <1>2, <1>4
  <1>9. callstack'[1].via = "schedule" <=> stop' > 0
    <2>1. CASE pc = "lua"
      BY <2>1, <1>2, <1>4, <1>6 DEF StackOK
    <2>2. CASE pc # "lua"
      BY <2>2, <1>1, <1>2, <1>4, <1>6
    <2> QED
      BY <2>1, <2>2
  <1>10. ASSUME NEW i \in 1..Len(callstack')
         PROVE  /\ callstack'[i].via \in {"main", "schedule"} <=> i = 1
                /\ status'[callstack'[i].th] = "run"
                /\ \A j \in 1..Len(callstack'): callstack'[i].th = callstack'[j].th => i = j
    <2>1. CASE i = Len(callstack) + 1
      BY <2>1, <1>1, <1>2, <1>4, <1>5, <1>6, <1>7
    <2>2. CASE i \in 1..Len(callstack)
      BY <2>2, <1>1, <1>2, <1>4, <1>5, <1>7
    <2> QED
      BY <2>1, <2>2, <1>2, <1>4
  <1>11. ASSUME NEW t \in Thread, status'[t] = "run"
         PROVE  \E i \in 1..Len(callstack'): callstack'[i].th = t
    <2>1. CASE t = u
      BY <2>1, <1>1, <1>2, <1>4
    <2>2. CASE t # u
      <3>1. status[t] = "run" /\ pc # "undefined"
        BY <2>2, <1>2, <1>11 DEF Enter
      <3>2. PICK i \in 1..Len(callstack): callstack[i].th = t
        BY <3>1 DEF StackOK
      <3> QED
        BY <3>2, <1>2, <1>4
    <2> QED
      BY <2>1, <2>2
  <1>12. StackOK'
    BY <1>3, <1>8, <1>9, <1>10, <1>11 DEF StackOK
  <1> QED
    BY <1>1, <1>2, <1>3, <1>4, <1>5, <1>8, <1>12

\* Facts about the running thread.
LEMMA RunningFacts ==
  ASSUME TypeOK, StackOK, pc = "lua"
  PROVE  /\ Len(callstack) \in Nat \ {0}
         /\ Running \in Thread /\ status[Running] = "run"
         /\ Running = callstack[Len(callstack)].th /\ Via = callstack[Len(callstack)].via
         /\ Via \in {"main", "schedule", "spawn", "script"}
         /\ Via \in {"main", "schedule"} <=> Len(callstack) = 1
         /\ Len(callstack) = 1 => (Via = "schedule" <=> stop > 0)
         /\ Front(callstack) \in Seq(Frame) /\ Len(Front(callstack)) = Len(callstack) - 1
         /\ \A i \in 1..(Len(callstack) - 1): Front(callstack)[i] = callstack[i]
         /\ Len(callstack) > 1 => Last(Front(callstack)).th \in Thread
  <1>1. /\ callstack \in Seq(Frame) /\ callstack # <<>> /\ Len(callstack) \in Nat \ {0}
        /\ \A i \in 1..Len(callstack): callstack[i] \in Frame
    BY LenProperties, ElementOfSeq, EmptySeq DEF TypeOK, StackOK
  <1>2. /\ Front(callstack) \in Seq(Frame) /\ Len(Front(callstack)) = Len(callstack) - 1
        /\ \A i \in 1..(Len(callstack) - 1): Front(callstack)[i] = callstack[i]
        /\ Last(callstack) = callstack[Len(callstack)]
    BY <1>1, FrontProperties
  <1>3. Len(callstack) > 1 => Last(Front(callstack)) = callstack[Len(callstack) - 1]
    BY <1>1, <1>2 DEF Last
  <1>4. /\ Running = callstack[Len(callstack)].th /\ Via = callstack[Len(callstack)].via
        /\ callstack[Len(callstack)] \in Frame
    BY <1>1, <1>2 DEF Running, Via
  <1>5. Len(callstack) > 1 => Last(Front(callstack)).th \in Thread
    <2>1. Len(callstack) > 1 => callstack[Len(callstack) - 1] \in Frame
      BY <1>1
    <2> QED
      BY <2>1, <1>3 DEF Frame
  <1>6. Running \in Thread /\ status[Running] = "run" /\ Via \in {"main", "schedule", "spawn", "script"}
    BY <1>1, <1>4 DEF Frame, StackOK
  <1>7. Via \in {"main", "schedule"} <=> Len(callstack) = 1
    <2>1. \A i \in 1..Len(callstack): callstack[i].via \in {"main", "schedule"} <=> i = 1
      BY DEF StackOK
    <2>2. Len(callstack) \in 1..Len(callstack)
      BY <1>1
    <2> QED
      BY <2>1, <2>2, <1>4
  <1>8. Len(callstack) = 1 => (Via = "schedule" <=> stop > 0)
    BY <1>1, <1>4 DEF StackOK
  <1> QED
    BY <1>1, <1>2, <1>4, <1>5, <1>6, <1>7, <1>8

\* schedule's verdict on the task the cursor stands on.
LEMMA JudgePreserves ==
  ASSUME TypeOK, PassOK, cursor \in 1..stop, NEW st, Judge(st)
  PROVE  /\ pc' \in {"scan", "exit", "undefined"} /\ code' \in {0, -2}
         /\ cursor' \in Nat /\ completed' \in Seq(Nat)
         /\ pc' = "scan" => cursor' \in 1..(stop + 1)
         /\ \A k \in 1..Len(completed'): completed'[k] \in 1..stop
  <1>1. /\ stop \in Nat /\ cursor \in Nat /\ completed \in Seq(Nat) /\ code \in {0, -2}
        /\ Len(completed) \in Nat
    BY LenProperties DEF TypeOK
  <1>2. pc' \in {"scan", "exit", "undefined"} /\ code' \in {0, -2}
    BY <1>1 DEF Judge
  <1>3. cursor' \in Nat /\ (pc' = "scan" => cursor' \in 1..(stop + 1))
    BY <1>1 DEF Judge
  <1>4. completed' \in Seq(Nat) /\ \A k \in 1..Len(completed'): completed'[k] \in 1..stop
    <2>1. CASE completed' = completed
      BY <2>1, <1>1 DEF PassOK
    <2>2. CASE completed' = Append(completed, cursor)
      <3>1. /\ completed' \in Seq(Nat) /\ Len(completed') = Len(completed) + 1
            /\ \A k \in 1..Len(completed): completed'[k] = completed[k]
            /\ completed'[Len(completed) + 1] = cursor
        BY <2>2, <1>1, AppendProperties
      <3> QED
        BY <3>1, <1>1 DEF PassOK
    <2> QED
      BY <2>1, <2>2 DEF Judge
  <1> QED
    BY <1>2, <1>3, <1>4

\* Returning from lua_resume, to whoever resumed the thread.
LEMMA LeavePreserves ==
  ASSUME TypeOK, StackOK, PassOK, pc = "lua", residue = <<>>, stop = 0 => old' = <<>>,
         NEW st \in {"yield", "ok", "err"}, Leave(st)
  PROVE  /\ pc' \in {"lua", "loop", "scan", "exit", "undefined"} /\ code' \in {0, -2}
         /\ cursor' \in Nat /\ completed' \in Seq(Nat)
         /\ callstack' \in Seq(Frame)
         /\ status' = [status EXCEPT ![Running] = st]
         /\ status' \in [Thread -> {"new", "run", "yield", "ok", "err", "freed"}]
         /\ fixed_refs' \in [Thread -> Thread \union {NoRef}]
         /\ UNCHANGED <<clock, now, residue, stop>>
         /\ StackOK' /\ PassOK'
         /\ pc' = "scan" => stop > 0
  <1>. DEFINE n == Len(callstack)
  <1>1. /\ n \in Nat \ {0} /\ Running \in Thread /\ status[Running] = "run"
        /\ Running = callstack[n].th
        /\ Via \in {"main", "schedule", "spawn", "script"}
        /\ (Via \in {"main", "schedule"} <=> n = 1)
        /\ (n = 1 => (Via = "schedule" <=> stop > 0))
        /\ Front(callstack) \in Seq(Frame) /\ Len(Front(callstack)) = n - 1
        /\ \A i \in 1..(n - 1): Front(callstack)[i] = callstack[i]
        /\ (n > 1 => Last(Front(callstack)).th \in Thread)
    BY RunningFacts
  <1>2. /\ callstack' = Front(callstack) /\ status' = [status EXCEPT ![Running] = st]
        /\ UNCHANGED <<clock, now, residue, stop>>
    BY DEF Leave
  <1>3. /\ status \in [Thread -> {"new", "run", "yield", "ok", "err", "freed"}]
        /\ fixed_refs \in [Thread -> Thread \union {NoRef}]
        /\ code \in {0, -2} /\ cursor \in Nat /\ completed \in Seq(Nat) /\ stop \in Nat
        /\ callstack \in Seq(Frame) /\ \A i \in 1..n: callstack[i].th \in Thread
    <2>1. \A i \in 1..n: callstack[i] \in Frame
      BY ElementOfSeq DEF TypeOK
    <2> QED
      BY <2>1 DEF TypeOK, Frame
  <1>4. status' \in [Thread -> {"new", "run", "yield", "ok", "err", "freed"}]
    BY <1>2, <1>3
  <1>5. /\ pc' \in {"lua", "loop", "scan", "exit", "undefined"} /\ code' \in {0, -2}
        /\ cursor' \in Nat /\ completed' \in Seq(Nat)
        /\ fixed_refs' \in [Thread -> Thread \union {NoRef}]
        /\ (pc' = "lua" <=> n > 1) /\ (pc' = "scan" => stop > 0) /\ PassOK'
    <2>1. CASE Via = "main" /\ pc' = "loop" /\ UNCHANGED <<code, cursor, completed, fixed_refs>>
      BY <2>1, <1>1, <1>2, <1>3 DEF PassOK
    <2>2. CASE Via = "script" /\ UNCHANGED <<pc, code, cursor, completed, fixed_refs>>
      BY <2>2, <1>1, <1>2, <1>3 DEF PassOK
    <2>3. CASE /\ Via = "spawn"
               /\ fixed_refs' = [fixed_refs EXCEPT ![Running] = Last(Front(callstack)).th]
               /\ UNCHANGED <<pc, code, cursor, completed>>
      BY <2>3, <1>1, <1>2, <1>3 DEF PassOK
    <2>4. CASE Via = "schedule" /\ Judge(st) /\ UNCHANGED fixed_refs
      <3>1. stop > 0 /\ n = 1 /\ cursor \in 1..stop
        BY <2>4, <1>1 DEF PassOK
      <3>2. /\ pc' \in {"scan", "exit", "undefined"} /\ code' \in {0, -2}
            /\ cursor' \in Nat /\ completed' \in Seq(Nat)
            /\ (pc' = "scan" => cursor' \in 1..(stop + 1))
            /\ \A k \in 1..Len(completed'): completed'[k] \in 1..stop
        BY <2>4, <3>1, JudgePreserves
      <3>3. PassOK'
        BY <3>1, <3>2, <1>2 DEF PassOK
      <3> QED
        BY <2>4, <3>1, <3>2, <3>3, <1>3
    <2> QED
      BY <2>1, <2>2, <2>3, <2>4 DEF Leave
  <1>6. StackOK'
    <2>0. ASSUME NEW t \in Thread, status'[t] = "run"
          PROVE  \E i \in 1..Len(callstack'): callstack'[i].th = t
      <3>1. t # Running /\ status[t] = "run"
        BY <2>0, <1>1, <1>2, <1>3
      <3>2. PICK i \in 1..n: callstack[i].th = t
        BY <3>1 DEF StackOK
      <3>3. i \in 1..(n - 1)
        BY <3>1, <3>2, <1>1
      <3> QED
        BY <3>2, <3>3, <1>1, <1>2
    <2>1. CASE n = 1
      <3>1. callstack' = <<>>
        BY <2>1, <1>1, <1>2, EmptySeq
      <3> QED
        BY <3>1, <2>0, <2>1, <1>5, <1>1 DEF StackOK
    <2>2. CASE n > 1
      <3>1. /\ Len(callstack') = n - 1 /\ callstack' # <<>>
            /\ \A i \in 1..(n - 1): callstack'[i] = callstack[i]
        BY <2>2, <1>1, <1>2, EmptySeq
      <3>2. \A i \in 1..n:
              /\ callstack[i].via \in {"main", "schedule"} <=> i = 1
              /\ status[callstack[i].th] = "run"
              /\ \A j \in 1..n: callstack[i].th = callstack[j].th => i = j
        BY DEF StackOK
      <3>3. \A i \in 1..(n - 1): status'[callstack'[i].th] = "run"
        <4>1. ASSUME NEW t \in Thread, t # Running, status[t] = "run" PROVE status'[t] = "run"
          BY <4>1, <1>2, <1>3
        <4>2. ASSUME NEW i \in 1..(n - 1) PROVE status'[callstack'[i].th] = "run"
          <5>1. i \in 1..n /\ n \in 1..n /\ i # n
            BY <1>1
          <5>2. callstack[i].th \in Thread /\ status[callstack[i].th] = "run"
            BY <5>1, <1>3, <3>2
          <5>3. callstack[i].th # Running
            BY <5>1, <1>1, <3>2
          <5> QED
            BY <5>2, <5>3, <4>1, <3>1
        <4> QED
          BY <4>2
      <3>4. callstack'[1].via = "schedule" <=> stop' > 0
        BY <2>2, <1>1, <1>2, <3>1 DEF StackOK
      <3>5. \A i \in 1..(n - 1):
              /\ callstack'[i].via \in {"main", "schedule"} <=> i = 1
              /\ \A j \in 1..(n - 1): callstack'[i].th = callstack'[j].th => i = j
        BY <1>1, <3>1, <3>2
      <3> QED
        BY <3>1, <3>3, <3>4, <3>5, <2>0, <1>5, <2>2 DEF StackOK
    <2> QED
      BY <2>1, <2>2, <1>1
  <1>7. callstack' \in Seq(Frame)
    BY <1>1, <1>2
  <1> QED
    BY <1>2, <1>4, <1>5, <1>6, <1>7

\* waiting.erase(std::remove(..)): what stays keeps its order, and vector and
\* residue together keep their length.
LEMMA RemoveTaskPreserves ==
  ASSUME TypeOK, Unique, NEW t, RemoveTask(t)
  PROVE  /\ waiting' \in Seq(CoTask) /\ residue' \in Seq(CoTask) /\ Unique'
         /\ Len(waiting') + Len(residue') = Len(waiting) + Len(residue)
         /\ \A u: HasEntry(u) /\ u # t => HasEntry(u)'
         /\ \A u: HasEntry(u)' => HasEntry(u)
  <1>1. /\ waiting \in Seq(CoTask) /\ Len(waiting) \in Nat /\ DOMAIN waiting = 1..Len(waiting)
        /\ residue \in Seq(CoTask) /\ Len(residue) \in Nat
    BY LenProperties DEF TypeOK
  <1>2. CASE ~HasEntry(t) /\ UNCHANGED <<waiting, residue>>
    BY <1>1, <1>2 DEF Unique, HasEntry
  <1>3. ASSUME NEW i \in DOMAIN waiting, waiting[i].state = t,
               waiting' = RemoveAt(waiting, i), residue' = <<Last(waiting)>> \o residue
        PROVE  /\ waiting' \in Seq(CoTask) /\ residue' \in Seq(CoTask) /\ Unique'
               /\ Len(waiting') + Len(residue') = Len(waiting) + Len(residue)
               /\ \A u: HasEntry(u) /\ u # t => HasEntry(u)'
               /\ \A u: HasEntry(u)' => HasEntry(u)
    <2>. DEFINE n == Len(waiting)
    <2>1. /\ waiting' \in Seq(CoTask) /\ Len(waiting') = n - 1
          /\ \A j \in 1..(n - 1): waiting'[j] = IF j < i THEN waiting[j] ELSE waiting[j + 1]
      BY <1>1, <1>3, RemoveAtProperties
    <2>2. Last(waiting) \in CoTask
      BY <1>1, <1>3, ElementOfSeq DEF Last
    <2>3. <<Last(waiting)>> \in Seq(CoTask) /\ Len(<<Last(waiting)>>) = 1
      BY <2>2
    <2>4. residue' \in Seq(CoTask) /\ Len(residue') = 1 + Len(residue)
      BY <1>1, <1>3, <2>3, ConcatProperties
    <2>5. Unique'
      BY <1>1, <2>1 DEF Unique
    <2>6. ASSUME NEW u, HasEntry(u), u # t
          PROVE  HasEntry(u)'
      <3>1. PICK k \in 1..n: waiting[k].state = u
        BY <1>1, <2>6 DEF HasEntry
      <3>. DEFINE j == IF k < i THEN k ELSE k - 1
      <3>2. k # i /\ j \in 1..(n - 1) /\ waiting'[j] = waiting[k]
        BY <1>1, <1>3, <2>1, <2>6, <3>1
      <3>3. j \in DOMAIN waiting'
        BY <3>2, <2>1, LenProperties
      <3> QED
        BY <3>1, <3>2, <3>3 DEF HasEntry
    <2>7. ASSUME NEW u, HasEntry(u)' PROVE HasEntry(u)
      <3>1. DOMAIN waiting' = 1..(n - 1)
        BY <2>1, LenProperties
      <3>2. PICK j \in 1..(n - 1): waiting'[j].state = u
        BY <2>7, <3>1 DEF HasEntry
      <3>. DEFINE k == IF j < i THEN j ELSE j + 1
      <3>3. k \in DOMAIN waiting /\ waiting'[j] = waiting[k]
        BY <1>1, <2>1, <3>2
      <3> QED
        BY <3>2, <3>3 DEF HasEntry
    <2> QED
      BY <1>1, <2>1, <2>4, <2>5, <2>6, <2>7
  <1> QED
    BY <1>2, <1>3 DEF RemoveTask

\* With one entry per thread, std::remove removes that of the completed task.
LEMMA ErasesTask ==
  ASSUME TypeOK, Unique, EraseCompleted
  PROVE  RemoveTask(Slots[Head(completed)].state)
  <1>1. OneEntryEach
    BY LenProperties DEF TypeOK, Unique, OneEntryEach
  <1> QED
    BY <1>1 DEF EraseCompleted

\* What a slot up to the cached end reads: an entry of the thread that the
\* vector holds there.
LEMMA SlotRead ==
  ASSUME TypeOK, Agree, NEW k \in 1..stop
  PROVE  /\ k \in 1..Len(Slots) /\ Slots[k] \in CoTask /\ Slots[k].state \in Thread
         /\ Slots[k].state = waiting[k].state
         /\ DOMAIN Slots = 1..Len(Slots) /\ k \in DOMAIN waiting
  <1>1. /\ waiting \in Seq(CoTask) /\ old \in Seq(CoTask) /\ residue = <<>>
        /\ stop \in Nat /\ stop <= Len(waiting) /\ Len(waiting) \in Nat /\ Len(old) \in Nat
        /\ DOMAIN waiting = 1..Len(waiting)
    BY LenProperties DEF TypeOK, Agree
  <1>2. Slots = IF old = <<>> THEN waiting ELSE old
    BY <1>1, ConcatEmptySeq DEF Slots
  <1>3. Slots \in Seq(CoTask) /\ k \in 1..Len(Slots) /\ Slots[k].state = waiting[k].state
    BY <1>1, <1>2 DEF Agree
  <1>4. Slots[k] \in CoTask
    BY <1>3, ElementOfSeq
  <1>5. Slots[k].state \in Thread
    BY <1>4 DEF CoTask
  <1>6. DOMAIN Slots = 1..Len(Slots)
    BY <1>3, LenProperties
  <1>7. k \in DOMAIN waiting
    BY <1>1
  <1> QED
    BY <1>3, <1>4, <1>5, <1>6, <1>7

----------------------------------------------------------------------------
(* The invariant is inductive: one lemma per group of actions *)

LEMMA InitIInv == Init => IInv
  <1>. SUFFICES ASSUME Init PROVE IInv
    OBVIOUS
  <1>. USE DEF Init
  <1>1. TypeOK
    <2>1. \A S: <<>> \in Seq(S)
      BY EmptySeq
    <2> QED
      BY <2>1 DEF TypeOK
  <1>2. Len(<<>>) = 0
    BY EmptySeq
  <1> QED
    BY <1>1, <1>2 DEF IInv, StackOK, PassOK, SlotsOK, Unique

LEMMA SegmentIInv == IInv /\ Segment => IInv'
  <1>. SUFFICES ASSUME IInv, Segment PROVE IInv'
    OBVIOUS
  <1>1. TypeOK /\ StackOK /\ PassOK /\ Unique /\ pc = "lua" /\ Agree /\ residue = <<>> /\ (stop = 0 => old = <<>>)
    BY DEF IInv, Segment, CoWait, Finish, Throw, Yield, SlotsOK, PassOK, Agree
  <1>2. Running \in Thread
    BY <1>1, RunningFacts
  <1>. DEFINE Kept(st) == /\ Leave(st)
                          /\ waiting' \in Seq(CoTask) /\ cap' \in Nat /\ old' \in Seq(CoTask)
                          /\ Unique' /\ Agree' /\ (stop = 0 => old' = <<>>)
  <1>3. ASSUME NEW st \in {"yield", "ok", "err"}, Kept(st) PROVE IInv'
    <2>1. /\ pc' \in {"lua", "loop", "scan", "exit", "undefined"} /\ code' \in {0, -2}
          /\ cursor' \in Nat /\ completed' \in Seq(Nat)
          /\ callstack' \in Seq(Frame)
          /\ status' \in [Thread -> {"new", "run", "yield", "ok", "err", "freed"}]
          /\ fixed_refs' \in [Thread -> Thread \union {NoRef}]
          /\ UNCHANGED <<clock, now, residue, stop>>
          /\ StackOK' /\ PassOK'
      BY <1>1, <1>3, LeavePreserves
    <2>2. TypeOK'
      BY <1>1, <1>3, <2>1 DEF TypeOK
    <2>3. SlotsOK'
      BY <1>3, <2>1 DEF SlotsOK
    <2> QED
      BY <1>3, <2>1, <2>2, <2>3 DEF IInv
  <1>4. ASSUME NEW d \in Durations, CoWait(d) PROVE IInv'
    <2>1. d \in Int /\ Enlist(Running, d) /\ Leave("yield") /\ UNCHANGED <<residue, stop>>
      BY <1>4, TimeAssumption DEF CoWait, Leave
    <2>2. Kept("yield")
      BY <1>1, <1>2, <2>1, EnlistPreserves
    <2> QED
      BY <1>3, <2>2
  <1>5. ASSUME NEW st \in {"yield", "ok", "err"}, Leave(st), UNCHANGED buffer PROVE IInv'
    <2>1. Kept(st)
      BY <1>1, <1>5 DEF buffer, Leave, TypeOK, Unique, Agree
    <2> QED
      BY <1>3, <2>1
  <1> QED
    BY <1>4, <1>5 DEF Segment, Finish, Throw, Yield

LEMMA CallsIInv ==
  ASSUME IInv, \/ \E d \in Durations: CoWaitRefused(d)
               \/ \E u \in Thread: CoSpawn(u) \/ Resume(u) \/ Collect(u)
  PROVE  IInv'
  <1>1. /\ TypeOK /\ StackOK /\ PassOK /\ Unique /\ SlotsOK
        /\ (pc = "lua" => Agree) /\ (stop = 0 => old = <<>>)
    BY DEF IInv, SlotsOK, PassOK
  <1>2. ASSUME NEW d \in Durations, CoWaitRefused(d) PROVE IInv'
    <2>1. /\ d \in Int /\ Running \in Thread /\ Enlist(Running, d) /\ pc = "lua"
          /\ UNCHANGED <<pc, code, clock, callstack, status, fixed_refs, now, residue, cursor, stop, completed>>
      BY <1>1, <1>2, TimeAssumption, RunningFacts DEF CoWaitRefused, pass
    <2>2. /\ waiting' \in Seq(CoTask) /\ cap' \in Nat /\ old' \in Seq(CoTask)
          /\ Unique' /\ Agree' /\ (stop = 0 => old' = <<>>)
      BY <1>1, <2>1, EnlistPreserves
    <2> QED
      BY <1>1, <2>1, <2>2 DEF IInv, TypeOK, StackOK, PassOK, SlotsOK
  <1>4. ASSUME NEW u \in Thread, NEW via \in {"spawn", "script"}, pc = "lua", Enter(u, via), status[u] # "run",
               UNCHANGED <<code, clock, fixed_refs, pass, buffer>>
        PROVE  IInv'
    <2>1. UNCHANGED <<code, clock, fixed_refs, now, residue, cursor, stop, completed, waiting, cap, old>>
      BY <1>4 DEF pass, buffer
    <2>2. /\ pc' = "lua" /\ callstack' \in Seq(Frame)
          /\ status' \in [Thread -> {"new", "run", "yield", "ok", "err", "freed"}]
          /\ StackOK'
      BY <1>1, <1>4, <2>1, EnterPreserves
    <2> QED
      BY <1>1, <1>4, <2>1, <2>2 DEF IInv, TypeOK, PassOK, SlotsOK, Agree, Unique
  <1>5. ASSUME NEW u \in Thread, CoSpawn(u) PROVE IInv'
    BY <1>4, <1>5 DEF CoSpawn
  <1>6. ASSUME NEW u \in Thread, Resume(u) PROVE IInv'
    BY <1>4, <1>6 DEF Resume
  <1>7. ASSUME NEW u \in Thread, Collect(u) PROVE IInv'
    <2>1. /\ pc = "lua" /\ pc' \in {"lua", "undefined"} /\ status' = [status EXCEPT ![u] = "freed"]
          /\ (pc' = "lua" => ~OnStack(u))
          /\ UNCHANGED <<code, clock, callstack, fixed_refs, now, residue, cursor, stop, completed, waiting, cap, old>>
      BY <1>7 DEF Collect, pass, buffer
    <2>2. TypeOK'
      BY <1>1, <2>1 DEF TypeOK
    <2>3. StackOK'
      <3>1. DOMAIN callstack = 1..Len(callstack) /\ \A i \in 1..Len(callstack): callstack[i].th \in Thread
        <4>1. callstack \in Seq(Frame)
          BY <1>1 DEF TypeOK
        <4>2. DOMAIN callstack = 1..Len(callstack)
          BY <4>1, LenProperties
        <4>3. \A i \in 1..Len(callstack): callstack[i] \in Frame
          BY <4>1, ElementOfSeq
        <4> QED
          BY <4>2, <4>3 DEF Frame
      <3>2. status \in [Thread -> {"new", "run", "yield", "ok", "err", "freed"}]
        BY <1>1 DEF TypeOK
      <3>3. pc' = "lua" => \A i \in 1..Len(callstack): status'[callstack[i].th] = "run"
        BY <1>1, <2>1, <3>1, <3>2 DEF StackOK, OnStack
      <3>4. \A t \in Thread: status'[t] = "run" => status[t] = "run"
        BY <2>1, <3>2
      <3> QED
        BY <1>1, <2>1, <3>3, <3>4 DEF StackOK
    <2> QED
      BY <1>1, <2>1, <2>2, <2>3 DEF IInv, PassOK, SlotsOK, Agree, Unique
  <1> QED
    BY <1>2, <1>5, <1>6, <1>7

LEMMA AddTaskIInv ==
  ASSUME IInv, NEW u \in Thread, AddTask(u), ~HasEntry(u)
  PROVE  IInv'
  <1>1. /\ TypeOK /\ StackOK /\ PassOK /\ Unique /\ SlotsOK
        /\ (pc = "lua" => Agree) /\ (stop = 0 => old = <<>>)
    BY DEF IInv, SlotsOK, PassOK
  <1>2. /\ pc \in {"loop", "lua"} /\ PushBack(u, 0)
        /\ UNCHANGED <<pc, code, clock, callstack, status, fixed_refs, now, residue, cursor, stop, completed>>
    BY DEF AddTask, pass
  <1>3. Agree
    BY <1>1, <1>2, LenProperties DEF Agree, PassOK, TypeOK
  <1>4. /\ waiting' \in Seq(CoTask) /\ cap' \in Nat /\ old' \in Seq(CoTask)
        /\ Unique' /\ Agree' /\ (stop = 0 => old' = <<>>)
    BY <1>1, <1>2, <1>3, PushBackPreserves
  <1> QED
    BY <1>1, <1>2, <1>4 DEF IInv, TypeOK, StackOK, PassOK, SlotsOK

LEMMA HostIInv == IInv /\ Host => IInv'
  <1>. SUFFICES ASSUME IInv, Host PROVE IInv'
    OBVIOUS
  <1>1. TypeOK /\ StackOK /\ PassOK /\ Unique /\ SlotsOK
    BY DEF IInv
  <1>2. CASE Start
    <2>1. /\ pc = "start" /\ Enter(Main, "main") /\ Main \in Thread /\ stop = 0 /\ residue = <<>> /\ old = <<>>
          /\ UNCHANGED <<code, clock, fixed_refs, now, residue, cursor, stop, completed, waiting, cap, old>>
      BY <1>1, <1>2 DEF Start, pass, buffer, Thread, PassOK
    <2>2. status[Main] # "run"
      BY <1>1, <2>1, EmptySeq DEF StackOK
    <2>3. /\ pc' = "lua" /\ callstack' \in Seq(Frame)
          /\ status' \in [Thread -> {"new", "run", "yield", "ok", "err", "freed"}]
          /\ StackOK'
      BY <1>1, <2>1, <2>2, EnterPreserves
    <2>4. Agree'
      BY <1>1, <2>1, LenProperties DEF Agree, TypeOK
    <2> QED
      BY <1>1, <2>1, <2>3, <2>4 DEF IInv, TypeOK, PassOK, SlotsOK, Unique
  <1>3. CASE BeginPass
    <2>1. /\ pc = "loop" /\ pc' = "scan" /\ now' = clock /\ cursor' = 1 /\ stop' = Len(waiting)
          /\ stop = 0 /\ residue = <<>> /\ old = <<>> /\ callstack = <<>>
          /\ UNCHANGED <<code, residue, completed, callstack, status, fixed_refs, clock, waiting, cap, old>>
      BY <1>1, <1>3 DEF BeginPass, buffer, PassOK, StackOK
    <2>2. Len(waiting) \in Nat /\ Len(completed) \in Nat
      BY <1>1, LenProperties DEF TypeOK
    <2>3. \A k \in 1..Len(completed): FALSE
      BY <1>1, <2>1, <2>2 DEF PassOK
    <2> QED
      BY <1>1, <2>1, <2>2, <2>3 DEF IInv, TypeOK, StackOK, PassOK, SlotsOK, Agree, Unique
  <1>4. CASE Exit
    <2>1. /\ pc = "loop" /\ pc' = "exit" /\ code' \in {0, -2}
          /\ UNCHANGED <<now, residue, cursor, stop, completed, callstack, status, fixed_refs, clock, waiting, cap, old>>
      BY <1>4 DEF Exit, pass, buffer
    <2> QED
      BY <1>1, <2>1 DEF IInv, TypeOK, StackOK, PassOK, SlotsOK, Unique
  <1> QED
    BY <1>2, <1>3, <1>4 DEF Host

LEMMA ScanIInv == IInv /\ (ScanSkip \/ ScanResume \/ ScanJudge \/ EndScan \/ TouchFreed) => IInv'
  <1>. SUFFICES ASSUME IInv, ScanSkip \/ ScanResume \/ ScanJudge \/ EndScan \/ TouchFreed PROVE IInv'
    OBVIOUS
  <1>1. TypeOK /\ StackOK /\ PassOK /\ Unique /\ SlotsOK
    BY DEF IInv
  <1>2. /\ stop \in Nat /\ Len(waiting) \in Nat /\ Len(old) \in Nat
        /\ (pc = "scan" => Agree /\ callstack = <<>> /\ cursor \in 1..(stop + 1))
    BY <1>1, LenProperties DEF TypeOK, SlotsOK, StackOK, PassOK
  <1>3. CASE ScanSkip
    <2>1. /\ pc = "scan" /\ pc' = "scan" /\ cursor <= stop /\ cursor' = cursor + 1
          /\ UNCHANGED <<code, clock, now, residue, stop, completed, callstack, status, fixed_refs, waiting, cap, old>>
      BY <1>3 DEF ScanSkip, buffer
    <2> QED
      BY <1>1, <1>2, <2>1 DEF IInv, TypeOK, StackOK, PassOK, SlotsOK, Agree, Unique
  <1>4. CASE ScanResume
    <2>1. /\ pc = "scan" /\ cursor \in 1..stop /\ status[Slots[cursor].state] = "yield"
          /\ Enter(Slots[cursor].state, "schedule")
          /\ UNCHANGED <<code, clock, fixed_refs, now, residue, cursor, stop, completed, waiting, cap, old>>
      BY <1>2, <1>4 DEF ScanResume, pass, buffer
    <2>2. Slots[cursor].state \in Thread
      BY <1>1, <1>2, <2>1, SlotRead
    <2>3. /\ pc' = "lua" /\ callstack' \in Seq(Frame)
          /\ status' \in [Thread -> {"new", "run", "yield", "ok", "err", "freed"}]
          /\ StackOK'
      <3>. DEFINE u == Slots[cursor].state
      <3>1. u \in Thread /\ status[u] # "run" /\ Enter(u, "schedule") /\ stop > 0 /\ stop' = stop
        BY <2>1, <2>2, <1>2
      <3>. HIDE DEF u
      <3> QED
        BY <1>1, <2>1, <3>1, EnterPreserves
    <2> QED
      BY <1>1, <1>2, <2>1, <2>3 DEF IInv, TypeOK, PassOK, SlotsOK, Agree, Unique
  <1>5. CASE ScanJudge
    <2>1. /\ pc = "scan" /\ cursor \in 1..stop /\ (Judge("ok") \/ Judge("err"))
          /\ UNCHANGED <<clock, now, residue, stop, callstack, status, fixed_refs, waiting, cap, old>>
      BY <1>2, <1>5 DEF ScanJudge, buffer
    <2>2. /\ pc' \in {"scan", "exit", "undefined"} /\ code' \in {0, -2}
          /\ cursor' \in Nat /\ completed' \in Seq(Nat)
          /\ pc' = "scan" => cursor' \in 1..(stop + 1)
          /\ \A k \in 1..Len(completed'): completed'[k] \in 1..stop
      BY <1>1, <2>1, JudgePreserves
    <2> QED
      BY <1>1, <1>2, <2>1, <2>2 DEF IInv, TypeOK, StackOK, PassOK, SlotsOK, Agree, Unique
  <1>6. CASE EndScan
    <2>1. /\ pc = "scan" /\ pc' = "erase"
          /\ UNCHANGED <<code, clock, callstack, status, fixed_refs, now, residue, cursor, stop, completed, waiting, cap, old>>
      BY <1>6 DEF EndScan, pass, buffer
    <2>2. SlotsOK'
      BY <1>1, <1>2, <2>1, EmptySeq DEF SlotsOK, Agree
    <2> QED
      BY <1>1, <2>1, <2>2 DEF IInv, TypeOK, StackOK, PassOK, Unique
  <1>7. CASE TouchFreed
    <2>1. /\ pc' = "undefined"
          /\ UNCHANGED <<code, clock, callstack, status, fixed_refs, now, residue, cursor, stop, completed, waiting, cap, old>>
      BY <1>7 DEF TouchFreed, pass, buffer
    <2> QED
      BY <1>1, <2>1 DEF IInv, TypeOK, StackOK, PassOK, SlotsOK, Unique
  <1> QED
    BY <1>3, <1>4, <1>5, <1>6, <1>7

LEMMA EraseIInv == IInv /\ (EraseCompleted \/ EndPass) => IInv'
  <1>. SUFFICES ASSUME IInv, EraseCompleted \/ EndPass PROVE IInv'
    OBVIOUS
  <1>1. TypeOK /\ StackOK /\ PassOK /\ Unique /\ SlotsOK /\ Len(completed) \in Nat /\ completed \in Seq(Nat)
    BY LenProperties DEF IInv, TypeOK
  <1>2. CASE EraseCompleted
    <2>. DEFINE t == Slots'[Head(completed)].state
    <2>1. /\ pc = "erase" /\ pc' \in {"erase", "undefined"} /\ completed # <<>>
          /\ RemoveTask(Slots[Head(completed)].state)
          /\ fixed_refs' = [fixed_refs EXCEPT ![t] = NoRef]
          /\ completed' = Tail(completed)
          /\ UNCHANGED <<code, clock, now, cap, old, cursor, stop, callstack, status>>
      BY <1>1, <1>2, ErasesTask DEF EraseCompleted
    <2>2. /\ waiting' \in Seq(CoTask) /\ residue' \in Seq(CoTask) /\ Unique'
          /\ Len(waiting') + Len(residue') = Len(waiting) + Len(residue)
      BY <1>1, <2>1, RemoveTaskPreserves
    <2>. HIDE DEF t
    <2>3. fixed_refs' \in [Thread -> Thread \union {NoRef}]
      BY <1>1, <2>1 DEF TypeOK
    <2>4. /\ completed' \in Seq(Nat)
          /\ \A k \in 1..Len(completed'): completed'[k] \in 1..stop
      <3>1. /\ Tail(completed) \in Seq(Nat) /\ Len(Tail(completed)) = Len(completed) - 1
            /\ \A k \in 1..Len(Tail(completed)): Tail(completed)[k] = completed[k + 1]
        BY <1>1, <2>1, HeadTailProperties
      <3> QED
        BY <1>1, <2>1, <3>1 DEF PassOK
    <2> QED
      BY <1>1, <2>1, <2>2, <2>3, <2>4 DEF IInv, TypeOK, StackOK, PassOK, SlotsOK
  <1>3. CASE EndPass
    <2>1. /\ pc = "erase" /\ pc' \in {"loop", "undefined"} /\ completed = <<>>
          /\ fixed_refs' \in {fixed_refs, [t \in Thread |-> NoRef]}
          /\ now' = 0 /\ residue' = <<>> /\ old' = <<>> /\ cursor' = 0 /\ stop' = 0
          /\ UNCHANGED <<code, clock, waiting, cap, completed, callstack, status>>
      BY <1>3 DEF EndPass
    <2>2. <<>> \in Seq(CoTask) /\ Len(completed) = 0
      BY <2>1, EmptySeq
    <2>3. fixed_refs' \in [Thread -> Thread \union {NoRef}]
      BY <1>1, <2>1 DEF TypeOK
    <2> QED
      BY <1>1, <2>1, <2>2, <2>3 DEF IInv, TypeOK, StackOK, PassOK, SlotsOK, Unique
  <1> QED
    BY <1>2, <1>3

LEMMA StepIInv == IInv /\ ScriptStep => IInv'
  <1>. SUFFICES ASSUME IInv, ScriptStep PROVE IInv'
    OBVIOUS
  <1>1. CASE Tick
    <2>1. /\ clock' = clock + 1
          /\ UNCHANGED <<pc, code, callstack, status, fixed_refs, now, residue, cursor, stop, completed, waiting, cap, old>>
      BY <1>1 DEF Tick, pass, buffer
    <2>2. TypeOK'
      BY <2>1 DEF IInv, TypeOK
    <2>3. StackOK' /\ Unique'
      BY <2>1 DEF IInv, StackOK, Unique
    <2>4. PassOK' /\ SlotsOK'
      BY <2>1 DEF IInv, PassOK, SlotsOK, Agree
    <2> QED
      BY <2>2, <2>3, <2>4 DEF IInv
  <1>2. CASE UNCHANGED vars
    <2>1. TypeOK'
      BY <1>2 DEF vars, IInv, TypeOK
    <2>2. StackOK' /\ Unique'
      BY <1>2 DEF vars, IInv, StackOK, Unique
    <2>3. PassOK' /\ SlotsOK'
      BY <1>2 DEF vars, IInv, PassOK, SlotsOK, Agree
    <2> QED
      BY <2>1, <2>2, <2>3 DEF IInv
  <1> QED
    BY <1>1, <1>2, SegmentIInv, CallsIInv, HostIInv, ScanIInv, EraseIInv DEF ScriptStep, Schedule

----------------------------------------------------------------------------
(* Theorems for every class of scripts *)

\* Which steps of the whole system are those of scripts: all where the embedding
\* program adds no task.
LEMMA NextIsScripts ==
  /\ [Next]_vars => ScriptStep \/ \E u \in Thread: AddTask(u)
  /\ "host" \notin Script /\ [Next]_vars => ScriptStep
  BY DEF Next, Segment, Calls, Over, ScriptStep, AddTask

LEMMA Invariant == ASSUME "host" \notin Script PROVE Spec => []IInv
  BY InitIInv, StepIInv, NextIsScripts, PTL DEF Spec

\* Every variable of the scheduler keeps its type where the embedding program
\* does not call add_task: in particular every slot the scan and the erase loop
\* read holds an entry, whatever scripts do.
THEOREM TypeCorrect == ASSUME "host" \notin Script PROVE Spec => []TypeOK
  BY Invariant, PTL DEF IInv

----------------------------------------------------------------------------
(* The task under the cursor *)

CursorOK == pc = "lua" /\ stop > 0 => waiting[cursor].state = callstack[1].th

LEMMA StepCursorOK == IInv /\ IInv' /\ CursorOK /\ ScriptStep => CursorOK'
  <1>. SUFFICES ASSUME IInv, IInv', CursorOK, ScriptStep PROVE CursorOK'
    OBVIOUS
  <1>1. /\ TypeOK /\ StackOK /\ PassOK /\ Unique /\ SlotsOK
        /\ (pc = "lua" => Agree) /\ (stop = 0 => old = <<>>)
        /\ stop \in Nat /\ Len(waiting) \in Nat
        /\ (pc = "lua" /\ stop > 0 => cursor \in 1..stop /\ cursor \in 1..Len(waiting))
    BY LenProperties DEF IInv, SlotsOK, PassOK, TypeOK, Agree
  <1>2. ASSUME pc = "lua", NEW st \in {"yield", "ok", "err"}, Leave(st),
               \A k \in 1..Len(waiting): waiting'[k].state = waiting[k].state
        PROVE  CursorOK'
    <2>1. /\ Len(callstack) \in Nat /\ Len(callstack) > 0
          /\ (Via \in {"main", "schedule"} <=> Len(callstack) = 1)
      BY <1>1, <1>2, RunningFacts
    <2>0. \A i \in 1..(Len(callstack) - 1): Front(callstack)[i] = callstack[i]
      BY <1>1, <1>2, RunningFacts
    <2>2. CASE Via \in {"main", "schedule"}
      <3>1. pc' # "lua"
        BY <2>2, <1>2 DEF Leave, Judge
      <3> QED
        BY <3>1 DEF CursorOK
    <2>3. CASE Via \in {"spawn", "script"}
      <3>0. Len(callstack) > 1
        <4>. DEFINE n == Len(callstack)
        <4>1. n \in Nat /\ n > 0 /\ n # 1
          BY <2>1, <2>3
        <4>. HIDE DEF n
        <4>2. n > 1
          BY <4>1
        <4> QED
          BY <4>2 DEF n
      <3>1. cursor' = cursor /\ stop' = stop /\ callstack' = Front(callstack)
        BY <2>3, <1>2 DEF Leave
      <3>2. callstack'[1] = callstack[1]
        BY <3>0, <3>1, <2>0, <2>1
      <3> QED
        BY <3>1, <3>2, <1>1, <1>2 DEF CursorOK
    <2> QED
      BY <2>2, <2>3, <1>1, <1>2, RunningFacts
  <1>3. ASSUME NEW d \in Durations, CoWait(d) PROVE CursorOK'
    <2>1. pc = "lua" /\ d \in Int /\ Enlist(Running, d) /\ Leave("yield") /\ UNCHANGED <<residue, stop>> /\ Running \in Thread
      BY <1>1, <1>3, TimeAssumption, RunningFacts DEF CoWait, Leave
    <2>2. \A k \in 1..Len(waiting): waiting'[k].state = waiting[k].state
      BY <1>1, <2>1, EnlistPreserves
    <2> QED
      BY <1>2, <2>1, <2>2
  <1>4. CASE Finish \/ Throw \/ Yield
    BY <1>2, <1>4 DEF Finish, Throw, Yield, buffer
  <1>5. ASSUME NEW d \in Durations, CoWaitRefused(d) PROVE CursorOK'
    <2>1. /\ pc = "lua" /\ d \in Int /\ Enlist(Running, d) /\ Running \in Thread
          /\ UNCHANGED <<pc, callstack, residue, cursor, stop>>
      BY <1>1, <1>5, TimeAssumption, RunningFacts DEF CoWaitRefused, pass
    <2>2. \A k \in 1..Len(waiting): waiting'[k].state = waiting[k].state
      BY <1>1, <2>1, EnlistPreserves
    <2> QED
      BY <1>1, <2>1, <2>2 DEF CursorOK
  <1>7. ASSUME NEW u \in Thread, NEW via \in {"spawn", "script"}, pc = "lua", Enter(u, via),
               status[u] # "run", UNCHANGED <<pass, buffer>>
        PROVE  CursorOK'
    <2>1. callstack # <<>> /\ stop' = stop /\ cursor' = cursor /\ waiting' = waiting
      BY <1>1, <1>7 DEF StackOK, pass, buffer
    <2>2. callstack'[1] = callstack[1]
      BY <1>1, <1>7, <2>1, EnterPreserves
    <2> QED
      BY <1>7, <2>1, <2>2 DEF CursorOK
  <1>8. ASSUME NEW u \in Thread, CoSpawn(u) \/ Resume(u) \/ Collect(u) PROVE CursorOK'
    <2>1. CASE CoSpawn(u) \/ Resume(u)
      BY <2>1, <1>7 DEF CoSpawn, Resume
    <2>2. CASE Collect(u)
      BY <2>2 DEF Collect, pass, buffer, CursorOK
    <2> QED
      BY <1>8, <2>1, <2>2
  <1>9. CASE ScanResume
    <2>1. /\ pc = "scan" /\ cursor \in 1..stop /\ Agree /\ callstack = <<>>
      BY <1>1, <1>9 DEF ScanResume, PassOK, SlotsOK, StackOK, TypeOK
    <2>2. /\ Slots[cursor].state = waiting[cursor].state
      BY <1>1, <2>1, SlotRead
    <2>3. /\ callstack' = Append(callstack, [th |-> Slots[cursor].state, via |-> "schedule"])
          /\ waiting' = waiting /\ cursor' = cursor
      BY <1>9 DEF ScanResume, Enter, pass, buffer
    <2>4. callstack'[1].th = Slots[cursor].state
      BY <2>1, <2>3
    <2> QED
      BY <2>2, <2>3, <2>4 DEF CursorOK
  <1>10. CASE Start
    <2>1. stop' = stop /\ stop = 0
      BY <1>1, <1>10 DEF Start, pass, PassOK
    <2> QED
      BY <2>1 DEF CursorOK
  <1>11. CASE BeginPass \/ Exit \/ ScanSkip \/ ScanJudge \/ EndScan \/ TouchFreed \/ EraseCompleted \/ EndPass
    <2>1. pc' # "lua"
      BY <1>11 DEF BeginPass, Exit, ScanSkip, ScanJudge, Judge, EndScan, TouchFreed, EraseCompleted, EndPass
    <2> QED
      BY <2>1 DEF CursorOK
  <1>12. CASE Tick \/ UNCHANGED vars
    BY <1>12 DEF Tick, pass, buffer, vars, CursorOK
  <1> QED
    BY <1>3, <1>4, <1>5, <1>8, <1>9, <1>10, <1>11, <1>12 DEF ScriptStep, Segment, Host, Schedule

LEMMA AddTaskCursorOK ==
  ASSUME IInv, CursorOK, NEW u \in Thread, AddTask(u), ~HasEntry(u)
  PROVE  CursorOK'
  <1>1. /\ pc \in {"loop", "lua"} /\ PushBack(u, 0)
        /\ UNCHANGED <<pc, callstack, residue, cursor, stop>>
    BY DEF AddTask, pass
  <1>2. CASE pc = "lua" /\ stop > 0
    <2>1. TypeOK /\ Unique /\ Agree /\ (stop = 0 => old = <<>>) /\ cursor \in 1..stop
      BY <1>2 DEF IInv, SlotsOK, PassOK
    <2>2. \A k \in 1..Len(waiting): waiting'[k].state = waiting[k].state
      BY <1>1, <2>1, PushBackPreserves
    <2>3. cursor \in 1..Len(waiting)
      BY <2>1, LenProperties DEF Agree, TypeOK
    <2> QED
      BY <1>1, <1>2, <2>2, <2>3 DEF CursorOK
  <1>3. CASE ~(pc = "lua" /\ stop > 0)
    BY <1>1, <1>3 DEF CursorOK
  <1> QED
    BY <1>2, <1>3

\* The invariants hold until add_task is called for a thread that has an entry.
Undoubled == IInv /\ CursorOK

LEMMA StepUndoubled == Undoubled /\ [Next]_vars /\ ~Doubles => Undoubled'
  <1>. SUFFICES ASSUME IInv, CursorOK, [Next]_vars, ~Doubles PROVE IInv' /\ CursorOK'
    BY DEF Undoubled
  <1>1. CASE ScriptStep
    BY <1>1, StepIInv, StepCursorOK
  <1>2. ASSUME NEW u \in Thread, AddTask(u) PROVE IInv' /\ CursorOK'
    <2>1. ~HasEntry(u)
      BY <1>2 DEF Doubles
    <2> QED
      BY <1>2, <2>1, AddTaskIInv, AddTaskCursorOK
  <1> QED
    BY <1>1, <1>2, NextIsScripts

LEMMA InitUndoubled == Init => Undoubled
  BY InitIInv DEF Init, CursorOK, Undoubled

\* What a step records stays recorded.
LEMMA TroubleStep ==
  ASSUME [TroubleNext]_<<vars, trouble>>
  PROVE  [Next]_vars /\ \A case: case \in trouble => case \in trouble'
  BY DEF TroubleNext

LEMMA DoublesChanges == ASSUME TypeOK, Doubles PROVE vars' # vars
  <1>1. PICK u \in Thread: PushBack(u, 0)
    BY DEF Doubles, AddTask
  <1>2. waiting \in Seq(CoTask) /\ [state |-> u, started |-> clock, duration |-> 0] \in CoTask
    BY DEF TypeOK, CoTask
  <1>3. waiting' # waiting
    BY <1>1, <1>2, AppendProperties, LenProperties DEF PushBack
  <1> QED
    BY <1>3 DEF vars

LEMMA TroubleInvariant == TroubleSpec => [](Undoubled \/ "doubled" \in trouble)
  <1>1. Init /\ trouble = {} => Undoubled
    BY InitUndoubled
  <1>2. ASSUME Undoubled \/ "doubled" \in trouble, [TroubleNext]_<<vars, trouble>>
        PROVE  (Undoubled \/ "doubled" \in trouble)'
    <2>1. CASE "doubled" \in trouble
      BY <1>2, <2>1, TroubleStep
    <2>2. CASE Undoubled /\ ~Doubles
      BY <1>2, <2>2, TroubleStep, StepUndoubled
    <2>3. CASE Undoubled /\ Doubles
      <3>1. vars' # vars
        BY <2>3, DoublesChanges DEF Undoubled, IInv
      <3>2. TroubleNext
        BY <1>2, <3>1
      <3> QED
        BY <2>3, <3>2 DEF TroubleNext, Troubles, Arises
    <2> QED
      BY <1>2, <2>1, <2>2, <2>3
  <1> QED
    BY <1>1, <1>2, PTL DEF TroubleSpec, TroubleInit

\* Whatever scripts do, `waiting` holds at most one entry per thread until add_task
\* is called for a thread that has one.
THEOREM WaitingIsUnique == TroubleSpec => []UniqueWaiting
  <1>1. Undoubled => OneEntryEach
    BY LenProperties DEF Undoubled, IInv, TypeOK, Unique, OneEntryEach
  <1> QED
    BY <1>1, TroubleInvariant, PTL DEF UniqueWaiting

\* Whatever scripts do while a task runs, `&task` still names the thread that
\* schedule resumed: the pointer it collects is the right one. (With two entries
\* of one thread, this is checked but not proved.)
THEOREM CursorNames == TroubleSpec => [](CursorNamesTask \/ "doubled" \in trouble)
  <1>1. Undoubled => CursorNamesTask
    <2>. SUFFICES ASSUME IInv, CursorOK, pc = "lua", stop > 0
                  PROVE  /\ cursor \in DOMAIN Slots /\ cursor <= stop
                         /\ Slots[cursor].state = callstack[1].th /\ callstack[1].via = "schedule"
      BY DEF CursorNamesTask, Undoubled
    <2>1. TypeOK /\ Agree /\ cursor \in 1..stop /\ callstack[1].via = "schedule" /\ stop \in Nat
      BY DEF IInv, SlotsOK, PassOK, StackOK, TypeOK
    <2> QED
      BY <2>1, SlotRead DEF CursorOK
  <1> QED
    BY <1>1, TroubleInvariant, PTL

----------------------------------------------------------------------------
(* What a pass has collected *)

\* A thread that was never started has no entry in `waiting`.
Fresh ==
  /\ \A t \in Thread: status[t] = "new" => ~HasEntry(t)
  /\ pc = "start" => \A t \in Thread: status[t] = "new"

\* The pointers collected so far are in the order of the slots, behind the
\* cursor, and those of entries of threads that have ended.
CollectedOK ==
  pc \in {"scan", "lua"} =>
    \A k \in 1..Len(completed):
      /\ completed[k] < cursor
      /\ \A m \in 1..(k - 1): completed[m] < completed[k]
      /\ status[waiting[completed[k]].state] \in {"ok", "freed"}

\* The invariant that shows what a pass has collected.
KInv == IInv /\ CursorOK /\ Fresh /\ CollectedOK

\* A step of anything but "park" and "host" scripts.
PlainStep ==
  \/ \E d \in Durations: CoWait(d) \/ CoWaitRefused(d)
  \/ Finish \/ Throw
  \/ \E u \in Thread: CoSpawn(u) \/ Collect(u)
  \/ Host \/ Schedule \/ Tick \/ UNCHANGED vars

LEMMA KFacts ==
  ASSUME KInv
  PROVE  /\ TypeOK /\ StackOK /\ PassOK /\ Unique /\ SlotsOK /\ CursorOK /\ Fresh /\ CollectedOK
         /\ (pc = "lua" => Agree) /\ (pc = "scan" => Agree) /\ (stop = 0 => old = <<>>)
         /\ DOMAIN waiting = 1..Len(waiting) /\ Len(waiting) \in Nat
         /\ Len(completed) \in Nat /\ completed \in Seq(Nat)
         /\ \A k \in 1..Len(completed): completed[k] \in 1..stop
         /\ \A k \in 1..Len(waiting): waiting[k].state \in Thread
         /\ status \in [Thread -> {"new", "run", "yield", "ok", "err", "freed"}]
         /\ cursor \in Nat /\ stop \in Nat
  <1>1. /\ TypeOK /\ StackOK /\ PassOK /\ Unique /\ SlotsOK /\ CursorOK /\ Fresh /\ CollectedOK
        /\ (pc = "lua" => Agree) /\ (pc = "scan" => Agree) /\ (stop = 0 => old = <<>>)
        /\ \A k \in 1..Len(completed): completed[k] \in 1..stop
    BY DEF KInv, IInv, SlotsOK, PassOK
  <1>2. DOMAIN waiting = 1..Len(waiting) /\ Len(waiting) \in Nat /\ Len(completed) \in Nat
    BY <1>1, LenProperties DEF TypeOK
  <1>3. \A k \in 1..Len(waiting): waiting[k] \in CoTask
    BY <1>1, ElementOfSeq DEF TypeOK
  <1> QED
    BY <1>1, <1>2, <1>3 DEF CoTask, TypeOK

\* What a step does to the status of a thread: no thread becomes new, one that
\* has ended does not start again.
LEMMA StatusMoves ==
  ASSUME KInv, PlainStep
  PROVE  /\ \A t \in Thread: status'[t] = "new" => status[t] = "new"
         /\ \A t \in Thread: status[t] \in {"ok", "freed"} => status'[t] \in {"ok", "freed"}
         /\ pc' = "start" => pc = "start" /\ status' = status
  <1>. DEFINE Moves(t, st) == /\ status' = [status EXCEPT ![t] = st] /\ st # "new" /\ pc' # "start"
                              /\ status[t] \notin {"ok", "freed"} \/ st = "freed"
              Goal == /\ \A t \in Thread: status'[t] = "new" => status[t] = "new"
                      /\ \A t \in Thread: status[t] \in {"ok", "freed"} => status'[t] \in {"ok", "freed"}
                      /\ pc' = "start" => pc = "start" /\ status' = status
  <1>1. ASSUME NEW t \in Thread, NEW st, Moves(t, st) PROVE Goal
    BY <1>1, KFacts
  <1>2. status' = status /\ (pc' = "start" => pc = "start") => Goal
    OBVIOUS
  <1>0. SUFFICES Goal
    BY DEF Goal
  <1>. HIDE DEF Goal
  <1>3. ASSUME NEW st \in {"yield", "ok", "err"}, pc = "lua", Leave(st) PROVE Goal
    <2>1. PICK t \in Thread: t = Running
      BY <1>3, KFacts, RunningFacts
    <2>2. status[t] = "run" /\ status' = [status EXCEPT ![t] = st] /\ pc' # "start"
      BY <1>3, <2>1, KFacts, RunningFacts DEF Leave, Judge
    <2> QED
      BY <1>1, <1>3, <2>2
  <1>4. CASE (\E d \in Durations: CoWait(d)) \/ Finish \/ Throw
    BY <1>3, <1>4 DEF CoWait, Finish, Throw
  <1>5. CASE \E d \in Durations: CoWaitRefused(d)
    BY <1>2, <1>5 DEF CoWaitRefused
  <1>6. ASSUME NEW u \in Thread, CoSpawn(u) PROVE Goal
    BY <1>1, <1>6 DEF CoSpawn, Enter
  <1>7. ASSUME NEW u \in Thread, Collect(u) PROVE Goal
    <2>1. Moves(u, "freed")
      BY <1>7 DEF Collect
    <2> QED
      BY <1>1, <2>1
  <1>8. CASE Start
    <2>1. Main \in Thread /\ Moves(Main, "run")
      BY <1>8, KFacts DEF Start, Enter, Thread, Fresh
    <2> QED
      BY <1>1, <2>1
  <1>9. CASE ScanResume
    <2>1. pc = "scan" /\ cursor \in 1..stop
      BY <1>9, KFacts DEF ScanResume, PassOK
    <2>2. PICK u \in Thread: u = Slots[cursor].state
      BY <2>1, KFacts, SlotRead
    <2>3. Moves(u, "run")
      BY <1>9, <2>2 DEF ScanResume, Enter
    <2> QED
      BY <1>1, <2>3
  <1>10. CASE BeginPass \/ Exit \/ ScanSkip \/ ScanJudge \/ EndScan \/ EraseCompleted \/ EndPass \/ TouchFreed
    BY <1>2, <1>10 DEF BeginPass, Exit, ScanSkip, ScanJudge, Judge, EndScan, EraseCompleted, EndPass, TouchFreed
  <1>11. CASE Tick \/ UNCHANGED vars
    BY <1>2, <1>11 DEF Tick, vars
  <1> QED
    BY <1>4, <1>5, <1>6, <1>7, <1>8, <1>9, <1>10, <1>11 DEF PlainStep, Host, Schedule

\* What a step does to the entries: only the running thread gets one, and
\* outside the erase loop every slot keeps its thread.
LEMMA EntryMoves ==
  ASSUME KInv, PlainStep
  PROVE  /\ pc \in {"scan", "lua"} =>
              /\ Len(waiting') >= Len(waiting)
              /\ \A k \in 1..Len(waiting): waiting'[k].state = waiting[k].state
         /\ \A u: HasEntry(u)' => HasEntry(u) \/ (pc = "lua" /\ u = Running)
  <1>. DEFINE Goal == /\ pc \in {"scan", "lua"} =>
                           /\ Len(waiting') >= Len(waiting)
                           /\ \A k \in 1..Len(waiting): waiting'[k].state = waiting[k].state
                      /\ \A u: HasEntry(u)' => HasEntry(u) \/ (pc = "lua" /\ u = Running)
  <1>0. SUFFICES Goal
    OBVIOUS
  <1>1. waiting' = waiting => Goal
    BY KFacts DEF HasEntry
  <1>2. ASSUME NEW d \in Durations, CoWait(d) \/ CoWaitRefused(d) PROVE Goal
    <2>1. /\ pc = "lua" /\ d \in Int /\ Enlist(Running, d) /\ UNCHANGED <<residue, stop>>
          /\ Running \in Thread
      BY <1>2, TimeAssumption, KFacts, RunningFacts DEF CoWait, CoWaitRefused, Leave, pass
    <2>2. /\ Len(waiting') >= Len(waiting) /\ waiting' \in Seq(CoTask)
          /\ \A k \in 1..Len(waiting): waiting'[k].state = waiting[k].state
          /\ \A k \in 1..Len(waiting'): k > Len(waiting) => waiting'[k].state = Running
      BY <2>1, KFacts, EnlistPreserves
    <2>3. DOMAIN waiting' = 1..Len(waiting') /\ Len(waiting') \in Nat
      BY <2>2, LenProperties
    <2>4. \A u: HasEntry(u)' => HasEntry(u) \/ u = Running
      BY <2>2, <2>3, KFacts DEF HasEntry
    <2> QED
      BY <2>1, <2>2, <2>4
  <1>3. CASE EraseCompleted
    <2>1. pc = "erase" /\ RemoveTask(Slots[Head(completed)].state)
      BY <1>3, KFacts, ErasesTask DEF EraseCompleted
    <2>2. \A u: HasEntry(u)' => HasEntry(u)
      BY <2>1, KFacts, RemoveTaskPreserves
    <2> QED
      BY <2>1, <2>2
  <1>4. CASE Finish \/ Throw \/ (\E u \in Thread: CoSpawn(u) \/ Collect(u)) \/ Host \/ Tick \/ UNCHANGED vars
    <2>1. waiting' = waiting
      BY <1>4 DEF Finish, Throw, CoSpawn, Collect, Host, Start, BeginPass, Exit, Tick, vars, buffer
    <2> QED
      BY <1>1, <2>1
  <1>5. CASE ScanSkip \/ ScanResume \/ ScanJudge \/ EndScan \/ EndPass \/ TouchFreed
    <2>1. waiting' = waiting
      BY <1>5 DEF ScanSkip, ScanResume, ScanJudge, EndScan, EndPass, TouchFreed, buffer
    <2> QED
      BY <1>1, <2>1
  <1> QED
    BY <1>2, <1>3, <1>4, <1>5 DEF PlainStep, Schedule

LEMMA StepFresh == KInv /\ PlainStep => Fresh'
  <1>. SUFFICES ASSUME KInv, PlainStep PROVE Fresh'
    OBVIOUS
  <1>1. ASSUME NEW t \in Thread, status'[t] = "new", HasEntry(t)' PROVE FALSE
    <2>1. status[t] = "new" /\ ~HasEntry(t)
      BY <1>1, StatusMoves, KFacts DEF Fresh
    <2>2. pc = "lua" /\ t = Running
      BY <1>1, <2>1, EntryMoves
    <2> QED
      BY <2>1, <2>2, KFacts, RunningFacts
  <1>2. pc' = "start" => \A t \in Thread: status'[t] = "new"
    BY StatusMoves, KFacts DEF Fresh
  <1> QED
    BY <1>1, <1>2 DEF Fresh

\* What was collected stays collected, while nothing is added.
LEMMA CollectedKept ==
  ASSUME KInv, PlainStep, pc \in {"scan", "lua"}, completed' = completed,
         cursor' \in Nat, cursor' >= cursor
  PROVE  CollectedOK'
  <1>. SUFFICES ASSUME NEW k \in 1..Len(completed)
                PROVE  /\ completed[k] < cursor'
                       /\ \A m \in 1..(k - 1): completed[m] < completed[k]
                       /\ status'[waiting'[completed[k]].state] \in {"ok", "freed"}
    BY DEF CollectedOK
  <1>1. /\ completed[k] < cursor /\ completed[k] \in 1..stop
        /\ \A m \in 1..(k - 1): completed[m] < completed[k]
        /\ status[waiting[completed[k]].state] \in {"ok", "freed"}
    BY KFacts DEF CollectedOK
  <1>2. completed[k] \in 1..Len(waiting) /\ stop \in Nat /\ cursor \in Nat
    BY <1>1, KFacts DEF Agree
  <1>3. completed[k] < cursor'
    BY <1>1, <1>2
  <1>4. PICK t \in Thread: t = waiting[completed[k]].state
    BY <1>2, KFacts
  <1>5. waiting'[completed[k]].state = t
    BY <1>2, <1>4, EntryMoves
  <1>6. status'[t] \in {"ok", "freed"}
    BY <1>1, <1>4, StatusMoves
  <1> QED
    BY <1>1, <1>3, <1>5, <1>6

\* The slot under the cursor is collected once its thread has ended.
LEMMA CollectedGrown ==
  ASSUME KInv, PlainStep, pc \in {"scan", "lua"}, cursor \in 1..stop,
         completed' = Append(completed, cursor), cursor' = cursor + 1,
         status'[waiting[cursor].state] \in {"ok", "freed"}
  PROVE  CollectedOK'
  <1>1. /\ Len(completed') = Len(completed) + 1
        /\ \A k \in 1..Len(completed): completed'[k] = completed[k]
        /\ completed'[Len(completed) + 1] = cursor
    BY KFacts, AppendProperties
  <1>2. cursor \in 1..Len(waiting) /\ waiting'[cursor].state = waiting[cursor].state
    BY KFacts, EntryMoves DEF Agree
  <1>3. SUFFICES ASSUME NEW k \in 1..Len(completed')
                 PROVE  /\ completed'[k] < cursor + 1
                        /\ \A m \in 1..(k - 1): completed'[m] < completed'[k]
                        /\ status'[waiting'[completed'[k]].state] \in {"ok", "freed"}
    BY DEF CollectedOK
  <1>4. CASE k = Len(completed) + 1
    <2>1. \A m \in 1..Len(completed): completed[m] < cursor
      BY KFacts DEF CollectedOK
    <2>2. \A m \in 1..(k - 1): completed'[m] < completed'[k]
      BY <1>1, <1>4, <2>1, KFacts
    <2> QED
      BY <1>1, <1>2, <1>4, <2>2, KFacts
  <1>5. CASE k \in 1..Len(completed)
    <2>1. /\ completed[k] < cursor /\ completed[k] \in 1..stop
          /\ \A m \in 1..(k - 1): completed[m] < completed[k]
          /\ status[waiting[completed[k]].state] \in {"ok", "freed"}
      BY <1>5, KFacts DEF CollectedOK
    <2>2. completed[k] \in 1..Len(waiting) /\ stop \in Nat /\ cursor \in Nat
      BY <2>1, KFacts DEF Agree
    <2>3. PICK t \in Thread: t = waiting[completed[k]].state
      BY <2>2, KFacts
    <2>4. waiting'[completed[k]].state = t
      BY <2>2, <2>3, EntryMoves
    <2>5. status'[t] \in {"ok", "freed"}
      BY <2>1, <2>3, StatusMoves
    <2>6. completed'[k] = completed[k] /\ \A m \in 1..(k - 1): completed'[m] = completed[m]
      BY <1>1, <1>5, KFacts
    <2>7. completed[k] < cursor + 1
      BY <2>1, <2>2
    <2> QED
      BY <2>1, <2>4, <2>5, <2>6, <2>7
  <1> QED
    BY <1>1, <1>4, <1>5, KFacts

LEMMA StepCollected == KInv /\ PlainStep => CollectedOK'
  <1>. SUFFICES ASSUME KInv, PlainStep PROVE CollectedOK'
    OBVIOUS
  <1>1. cursor \in Nat /\ cursor + 1 \in Nat /\ cursor + 1 >= cursor /\ cursor >= cursor
    BY KFacts
  <1>2. ASSUME pc \in {"scan", "lua"}, completed' = completed, cursor' \in {cursor, cursor + 1}
        PROVE  CollectedOK'
    <2>1. cursor' \in Nat /\ cursor' >= cursor
      BY <1>1, <1>2
    <2> QED
      BY <1>2, <2>1, CollectedKept
  <1>3. ASSUME NEW st \in {"yield", "ok", "err"}, pc = "lua", Leave(st) PROVE CollectedOK'
    <2>1. CASE completed' = completed /\ cursor' \in {cursor, cursor + 1}
      BY <1>2, <1>3, <2>1
    <2>2. CASE Via = "schedule" /\ st = "ok" /\ completed' = Append(completed, cursor) /\ cursor' = cursor + 1
      <3>1. Len(callstack) = 1 /\ stop > 0
        BY <1>3, <2>2, KFacts, RunningFacts
      <3>2. Running = callstack[1].th /\ Running \in Thread
        BY <1>3, <3>1, KFacts, RunningFacts
      <3>3. cursor \in 1..stop /\ waiting[cursor].state = Running
        BY <1>3, <3>1, <3>2, KFacts DEF CursorOK, PassOK
      <3>4. status'[Running] = "ok"
        BY <1>3, <2>2, <3>2, KFacts DEF Leave
      <3> QED
        BY <1>3, <2>2, <3>3, <3>4, CollectedGrown
    <2> QED
      BY <1>3, <2>1, <2>2 DEF Leave, Judge
  <1>4. CASE (\E d \in Durations: CoWait(d)) \/ Finish \/ Throw
    BY <1>3, <1>4 DEF CoWait, Finish, Throw
  <1>5. CASE (\E d \in Durations: CoWaitRefused(d)) \/ \E u \in Thread: CoSpawn(u) \/ Collect(u)
    BY <1>2, <1>5 DEF CoWaitRefused, CoSpawn, Collect, pass
  <1>6. CASE Start \/ BeginPass
    <2>1. Len(completed) = 0 /\ completed' = completed
      <3>1. stop = 0 /\ completed' = completed
        BY <1>6, KFacts DEF Start, BeginPass, PassOK, pass
      <3>2. \A k \in 1..Len(completed): FALSE
        BY <3>1, KFacts
      <3> QED
        BY <3>1, <3>2, KFacts
    <2> QED
      BY <2>1 DEF CollectedOK
  <1>7. CASE ScanSkip \/ ScanResume
    BY <1>2, <1>7 DEF ScanSkip, ScanResume, pass
  <1>8. CASE ScanJudge
    <2>1. /\ pc = "scan" /\ cursor \in 1..stop /\ Slots[cursor].state = waiting[cursor].state
          /\ cursor \in 1..Len(waiting) /\ status' = status
      BY <1>8, KFacts, SlotRead DEF ScanJudge, PassOK
    <2>2. CASE status[Slots[cursor].state] \in {"ok", "new"} /\ Judge("ok")
      <3>1. HasEntry(waiting[cursor].state) /\ waiting[cursor].state \in Thread
        BY <2>1, KFacts DEF HasEntry
      <3>2. status'[waiting[cursor].state] = "ok"
        BY <2>1, <2>2, <3>1, KFacts DEF Fresh
      <3>3. completed' = Append(completed, cursor) /\ cursor' = cursor + 1
        BY <2>2 DEF Judge
      <3> QED
        BY <2>1, <3>2, <3>3, CollectedGrown
    <2>3. CASE Judge("err")
      BY <2>3 DEF Judge, CollectedOK
    <2> QED
      BY <1>8, <2>2, <2>3 DEF ScanJudge
  <1>9. CASE Exit \/ EndScan \/ EraseCompleted \/ EndPass \/ TouchFreed
    BY <1>9 DEF Exit, EndScan, EraseCompleted, EndPass, TouchFreed, CollectedOK
  <1>10. CASE Tick \/ UNCHANGED vars
    <2>1. UNCHANGED <<pc, completed, cursor>>
      BY <1>10 DEF Tick, pass, vars
    <2>2. CASE pc \in {"scan", "lua"}
      BY <1>2, <2>1, <2>2
    <2>3. CASE pc \notin {"scan", "lua"}
      BY <2>1, <2>3 DEF CollectedOK
    <2> QED
      BY <2>2, <2>3
  <1> QED
    BY <1>4, <1>5, <1>6, <1>7, <1>8, <1>9, <1>10 DEF PlainStep, Host, Schedule

LEMMA PlainIsStep == PlainStep => ScriptStep
  BY DEF PlainStep, ScriptStep, Segment

LEMMA StepKInv == KInv /\ PlainStep => KInv'
  BY StepIInv, StepCursorOK, StepFresh, StepCollected, PlainIsStep DEF KInv

LEMMA InitKInv == Init => KInv
  <1>1. Init => Fresh /\ CollectedOK /\ CursorOK
    BY EmptySeq DEF Init, Fresh, CollectedOK, HasEntry, CursorOK
  <1> QED
    BY <1>1, InitIInv DEF KInv

LEMMA KInvMeans == KInv => CompletedAreOver
  <1>. SUFFICES ASSUME KInv, pc \in {"scan", "lua"}, NEW k \in DOMAIN completed
                PROVE  /\ completed[k] < cursor
                       /\ \A m \in 1..(k - 1): completed[m] < completed[k]
                       /\ status[Slots[completed[k]].state] \in {"ok", "freed"}
    BY DEF CompletedAreOver
  <1>1. k \in 1..Len(completed)
    BY KFacts, LenProperties
  <1>2. completed[k] \in 1..stop
    BY <1>1, KFacts
  <1>3. Slots[completed[k]].state = waiting[completed[k]].state
    BY <1>2, KFacts, SlotRead
  <1> QED
    BY <1>1, <1>3, KFacts DEF CollectedOK

\* For scripts in which suspended threads are in co_wait, and without tasks
\* added by the host, the pointers a pass collects are in order, behind the
\* cursor, and those of threads that have ended.
THEOREM CompletedOver ==
  ASSUME "park" \notin Script, "host" \notin Script
  PROVE  TroubleSpec => []CompletedAreOver
  <1>1. [TroubleNext]_<<vars, trouble>> => PlainStep
    BY DEF TroubleNext, Next, Segment, Calls, Yield, Resume, AddTask, PlainStep, Over
  <1> QED
    BY <1>1, InitKInv, StepKInv, KInvMeans, PTL DEF TroubleSpec, TroubleInit

----------------------------------------------------------------------------
(* Time *)

\* Only the resumed thread, among those that run, has a slot of the pass.
RunnersBehind ==
  pc = "lua" /\ stop > 0 =>
    \A j \in 2..Len(callstack): \A k \in 1..stop: waiting[k].state # callstack[j].th

\* The slots the scan has not reached hold what the vector holds, also those
\* of a buffer that was replaced while the scan stood on an earlier one.
Ahead(k) == k > cursor \/ (pc = "scan" /\ k = cursor)
SlotsAhead ==
  pc \in {"scan", "lua"} /\ old # <<>> => \A k \in 1..stop: Ahead(k) => old[k] = waiting[k]

\* An entry holds what its thread is owed; a thread that waited and has no
\* entry (any more) does not run again.
EntriesOwe ==
  /\ owed \in [Thread -> Int] /\ waited \subseteq Thread
  /\ \A k \in 1..Len(waiting):
       /\ waiting[k].state \in waited
       /\ owed[waiting[k].state] = waiting[k].started + waiting[k].duration
  /\ \A t \in waited: HasEntry(t) \/ status[t] \notin {"new", "run"}

\* A pass reads the clock when it begins.
Dated == now <= clock

\* The invariant that shows when a thread is woken.
TInv == KInv /\ RunnersBehind /\ SlotsAhead /\ EntriesOwe /\ Dated

\* What an Enlist of a thread does to the entries, field by field.
LEMMA EnlistEntries ==
  ASSUME TypeOK, NEW t \in Thread, NEW d \in Int, Enlist(t, d)
  PROVE  \/ /\ ~HasEntry(t) /\ Len(waiting') = Len(waiting) + 1 /\ old' \in {old, waiting}
            /\ \A k \in 1..Len(waiting): waiting'[k] = waiting[k]
            /\ waiting'[Len(waiting) + 1].state = t
            /\ waiting'[Len(waiting) + 1].started + waiting'[Len(waiting) + 1].duration = clock + d
         \/ \E i \in 1..Len(waiting):
            /\ waiting[i].state = t /\ Len(waiting') = Len(waiting) /\ old' = old
            /\ \A k \in 1..Len(waiting): k # i => waiting'[k] = waiting[k]
            /\ waiting'[i].state = t
            /\ waiting'[i].started + waiting'[i].duration = waiting[i].started + waiting[i].duration + d
  <1>1. /\ waiting \in Seq(CoTask) /\ Len(waiting) \in Nat /\ DOMAIN waiting = 1..Len(waiting)
        /\ \A k \in 1..Len(waiting): waiting[k] \in CoTask
    BY LenProperties, ElementOfSeq DEF TypeOK
  <1>2. CASE ~HasEntry(t) /\ PushBack(t, d)
    <2>. DEFINE e == [state |-> t, started |-> clock, duration |-> d]
    <2>1. e \in CoTask /\ e.state = t /\ e.started + e.duration = clock + d
      BY DEF TypeOK, CoTask
    <2>. HIDE DEF e
    <2>2. waiting' = Append(waiting, e) /\ old' \in {old, waiting}
      BY <1>2 DEF PushBack, e
    <2>3. /\ Len(waiting') = Len(waiting) + 1
          /\ \A k \in 1..Len(waiting): waiting'[k] = waiting[k]
          /\ waiting'[Len(waiting) + 1] = e
      BY <1>1, <2>1, <2>2, AppendProperties
    <2> QED
      BY <1>2, <2>1, <2>2, <2>3
  <1>3. ASSUME NEW i \in DOMAIN waiting, waiting[i].state = t,
               waiting' = [waiting EXCEPT ![i].duration = @ + d], old' = old
        PROVE  /\ i \in 1..Len(waiting) /\ waiting[i].state = t /\ Len(waiting') = Len(waiting) /\ old' = old
               /\ \A k \in 1..Len(waiting): k # i => waiting'[k] = waiting[k]
               /\ waiting'[i].state = t
               /\ waiting'[i].started + waiting'[i].duration = waiting[i].started + waiting[i].duration + d
    <2>. DEFINE e == [waiting[i] EXCEPT !.duration = @ + d]
    <2>1. waiting[i] \in CoTask
      BY <1>1, <1>3
    <2>2. /\ e \in CoTask /\ e.state = waiting[i].state
          /\ e.started + e.duration = waiting[i].started + waiting[i].duration + d
      BY <2>1 DEF CoTask
    <2>3. waiting' = [waiting EXCEPT ![i] = e]
      BY <1>3
    <2>. HIDE DEF e
    <2>. DEFINE w == [waiting EXCEPT ![i] = e]
    <2>4. i \in 1..Len(waiting) /\ waiting' = w
      BY <1>1, <1>3, <2>3
    <2>5. Len(w) = Len(waiting) /\ \A k \in 1..Len(waiting): w[k] = IF k = i THEN e ELSE waiting[k]
      BY <1>1, <2>2, <2>4, ExceptSeq
    <2>. HIDE DEF w
    <2> QED
      BY <1>3, <2>2, <2>4, <2>5
  <1> QED
    BY <1>2, <1>3 DEF Enlist, FirstEntry

\* The erase of an entry adds none.
LEMMA RemoveTaskKeeps ==
  ASSUME TypeOK, NEW t, RemoveTask(t)
  PROVE  \A k \in 1..Len(waiting'): \E m \in 1..Len(waiting): waiting'[k] = waiting[m]
  <1>1. /\ waiting \in Seq(CoTask) /\ Len(waiting) \in Nat /\ DOMAIN waiting = 1..Len(waiting)
    BY LenProperties DEF TypeOK
  <1>2. CASE UNCHANGED waiting
    BY <1>2
  <1>3. ASSUME NEW i \in DOMAIN waiting, waiting' = RemoveAt(waiting, i)
        PROVE  \A k \in 1..Len(waiting'): \E m \in 1..Len(waiting): waiting'[k] = waiting[m]
    <2>1. /\ Len(waiting') = Len(waiting) - 1
          /\ \A j \in 1..(Len(waiting) - 1): waiting'[j] = IF j < i THEN waiting[j] ELSE waiting[j + 1]
      BY <1>1, <1>3, RemoveAtProperties
    <2>2. ASSUME NEW k \in 1..(Len(waiting) - 1)
          PROVE  \E m \in 1..Len(waiting): waiting'[k] = waiting[m]
      <3>1. k \in 1..Len(waiting) /\ k + 1 \in 1..Len(waiting)
        BY <1>1
      <3> QED
        BY <2>1, <3>1
    <2> QED
      BY <2>1, <2>2
  <1> QED
    BY <1>2, <1>3 DEF RemoveTask

\* The running thread's entry, if it has one, is not ahead of the cursor.
LEMMA RunningBehind ==
  ASSUME TInv, pc = "lua", NEW k \in 1..stop, k > cursor
  PROVE  waiting[k].state # Running
  <1>1. KInv /\ RunnersBehind
    BY DEF TInv
  <1>2. /\ Len(callstack) \in Nat \ {0} /\ Running = callstack[Len(callstack)].th
        /\ stop \in Nat /\ stop > 0 /\ cursor \in 1..stop /\ stop <= Len(waiting)
    BY <1>1, KFacts, RunningFacts DEF PassOK, Agree
  <1>3. CASE Len(callstack) = 1
    <2>1. waiting[cursor].state = Running
      BY <1>1, <1>2, <1>3, KFacts DEF CursorOK
    <2> QED
      BY <1>1, <1>2, <2>1, KFacts DEF Unique
  <1>4. CASE Len(callstack) # 1
    <2>. DEFINE n == Len(callstack)
    <2>1. n \in Nat \ {0} /\ n # 1
      BY <1>2, <1>4
    <2>. HIDE DEF n
    <2>2. n \in 2..n
      BY <2>1
    <2>. USE DEF n
    <2> QED
      BY <1>1, <1>2, <2>2 DEF RunnersBehind
  <1> QED
    BY <1>3, <1>4

LEMMA StepRunners == KInv /\ KInv' /\ RunnersBehind /\ PlainStep => RunnersBehind'
  <1>. SUFFICES ASSUME KInv, KInv', RunnersBehind, PlainStep, pc' = "lua", stop' > 0,
                       NEW j \in 2..Len(callstack'), NEW k \in 1..stop'
                PROVE  waiting'[k].state # callstack'[j].th
    BY DEF RunnersBehind
  <1>1. ASSUME pc = "lua", stop' = stop, j \in 2..Len(callstack), callstack'[j] = callstack[j]
        PROVE  waiting'[k].state # callstack'[j].th
    <2>1. waiting[k].state # callstack[j].th
      BY <1>1 DEF RunnersBehind
    <2>2. k \in 1..Len(waiting)
      BY <1>1, KFacts DEF Agree
    <2> QED
      BY <1>1, <2>1, <2>2, EntryMoves
  <1>2. ASSUME NEW st \in {"yield", "ok", "err"}, pc = "lua", Leave(st)
        PROVE  waiting'[k].state # callstack'[j].th
    <2>1. callstack' = Front(callstack) /\ stop' = stop
      BY <1>2 DEF Leave
    <2>2. /\ Len(callstack) \in Nat /\ Len(callstack') = Len(callstack) - 1
          /\ \A i \in 1..(Len(callstack) - 1): callstack'[i] = callstack[i]
      BY <1>2, <2>1, KFacts, RunningFacts
    <2> QED
      BY <1>1, <1>2, <2>1, <2>2
  <1>3. CASE (\E d \in Durations: CoWait(d)) \/ Finish \/ Throw
    BY <1>2, <1>3 DEF CoWait, Finish, Throw
  <1>4. CASE (\E d \in Durations: CoWaitRefused(d)) \/ (\E u \in Thread: Collect(u)) \/ Tick \/ UNCHANGED vars
    <2>1. UNCHANGED <<callstack, stop>> /\ pc = "lua"
      BY <1>4 DEF CoWaitRefused, Collect, Tick, pass, vars
    <2> QED
      BY <1>1, <2>1
  <1>5. ASSUME NEW u \in Thread, CoSpawn(u) PROVE waiting'[k].state # callstack'[j].th
    <2>1. /\ pc = "lua" /\ status[u] = "new" /\ UNCHANGED <<waiting, stop>>
          /\ callstack' = Append(callstack, [th |-> u, via |-> "spawn"])
      BY <1>5 DEF CoSpawn, Enter, pass, buffer
    <2>2. /\ Len(callstack) \in Nat /\ Len(callstack') = Len(callstack) + 1
          /\ \A i \in 1..Len(callstack): callstack'[i] = callstack[i]
          /\ callstack'[Len(callstack) + 1].th = u
      <3>1. callstack \in Seq(Frame) /\ [th |-> u, via |-> "spawn"] \in Frame /\ Len(callstack) \in Nat
        BY KFacts, LenProperties DEF TypeOK, Frame
      <3> QED
        BY <2>1, <3>1, AppendProperties
    <2>3. CASE j \in 2..Len(callstack)
      BY <1>1, <2>1, <2>2, <2>3
    <2>4. CASE j = Len(callstack) + 1
      <3>1. ~HasEntry(u) /\ k \in DOMAIN waiting
        BY <2>1, KFacts DEF Fresh, Agree
      <3> QED
        BY <2>1, <2>2, <2>4, <3>1 DEF HasEntry
    <2> QED
      BY <2>2, <2>3, <2>4
  <1>6. CASE ScanResume \/ Start
    <2>1. callstack = <<>> /\ callstack \in Seq(Frame)
      BY <1>6, KFacts DEF ScanResume, Start, StackOK, TypeOK
    <2>2. Len(callstack') = 1
      BY <1>6, <2>1 DEF ScanResume, Start, Enter
    <2> QED
      BY <2>2
  <1>7. CASE BeginPass \/ Exit \/ ScanSkip \/ ScanJudge \/ EndScan \/ EraseCompleted \/ EndPass \/ TouchFreed
    BY <1>7 DEF BeginPass, Exit, ScanSkip, ScanJudge, Judge, EndScan, EraseCompleted, EndPass, TouchFreed
  <1> QED
    BY <1>3, <1>4, <1>5, <1>6, <1>7 DEF PlainStep, Host, Schedule

LEMMA StepSlotsAhead == TInv /\ KInv' /\ PlainStep => SlotsAhead'
  <1>. SUFFICES ASSUME TInv, KInv', PlainStep, pc' \in {"scan", "lua"}, old' # <<>>,
                       NEW k \in 1..stop', Ahead(k)'
                PROVE  old'[k] = waiting'[k]
    BY DEF SlotsAhead
  <1>0. KInv /\ SlotsAhead
    BY DEF TInv
  <1>1. ASSUME pc \in {"scan", "lua"}, UNCHANGED <<waiting, old, stop>>, Ahead(k)
        PROVE  old'[k] = waiting'[k]
    BY <1>0, <1>1 DEF SlotsAhead
  <1>2. ASSUME NEW d \in Durations, Enlist(Running, d), pc = "lua", UNCHANGED stop, k > cursor
        PROVE  old'[k] = waiting'[k]
    <2>1. Running \in Thread /\ d \in Int /\ k \in 1..stop /\ k \in 1..Len(waiting)
      BY <1>0, <1>2, KFacts, RunningFacts, TimeAssumption DEF Agree
    <2>2. waiting[k].state # Running
      BY <1>2, <2>1, RunningBehind
    <2>3. waiting'[k] = waiting[k]
      BY <1>0, <2>1, <2>2, <1>2, KFacts, EnlistEntries
    <2>4. old' \in {old, waiting}
      BY <1>0, <2>1, <1>2, KFacts, EnlistEntries
    <2>5. old # <<>> => old[k] = waiting[k]
      BY <1>0, <1>2, <2>1 DEF SlotsAhead, Ahead
    <2> QED
      BY <2>3, <2>4, <2>5
  <1>3. ASSUME NEW st \in {"yield", "ok", "err"}, pc = "lua", Leave(st)
        PROVE  k > cursor /\ stop' = stop
    <2>1. stop' = stop /\ k \in Nat /\ cursor \in Nat
      BY <1>0, <1>3, KFacts DEF Leave
    <2>2. \/ pc' = "lua" /\ cursor' = cursor
          \/ pc' = "scan" /\ cursor' = cursor + 1
      BY <1>3 DEF Leave, Judge
    <2> QED
      BY <2>1, <2>2 DEF Ahead
  <1>4. ASSUME NEW d \in Durations, CoWait(d) PROVE old'[k] = waiting'[k]
    BY <1>2, <1>3, <1>4 DEF CoWait
  <1>5. CASE Finish \/ Throw
    <2>1. UNCHANGED <<waiting, old>> /\ pc = "lua" /\ k > cursor /\ stop' = stop
      BY <1>3, <1>5 DEF Finish, Throw, buffer
    <2> QED
      BY <1>1, <2>1 DEF Ahead
  <1>6. ASSUME NEW d \in Durations, CoWaitRefused(d) PROVE old'[k] = waiting'[k]
    <2>1. pc = "lua" /\ Enlist(Running, d) /\ UNCHANGED <<pc, cursor, stop>>
      BY <1>6 DEF CoWaitRefused, pass
    <2> QED
      BY <1>2, <2>1 DEF Ahead
  <1>7. ASSUME NEW u \in Thread, CoSpawn(u) \/ Collect(u) PROVE old'[k] = waiting'[k]
    <2>1. pc = "lua" /\ UNCHANGED <<waiting, old, cursor, stop>> /\ pc' # "scan"
      BY <1>7 DEF CoSpawn, Collect, Enter, pass, buffer
    <2> QED
      BY <1>1, <2>1 DEF Ahead
  <1>8. CASE Host \/ EndScan \/ EraseCompleted \/ EndPass \/ TouchFreed
    <2>1. CASE Start \/ BeginPass
      <3>1. stop = 0 /\ old' = old
        BY <1>0, <2>1, KFacts DEF Start, BeginPass, PassOK, buffer
      <3> QED
        BY <1>0, <3>1, KFacts
    <2>2. CASE Exit \/ EndScan \/ EraseCompleted \/ EndPass \/ TouchFreed
      BY <2>2 DEF Exit, EndScan, EraseCompleted, EndPass, TouchFreed
    <2> QED
      BY <1>8, <2>1, <2>2 DEF Host
  <1>9. CASE ScanSkip \/ ScanJudge
    <2>1. /\ pc = "scan" /\ UNCHANGED <<waiting, old, stop>> /\ pc' = "scan" /\ cursor' = cursor + 1
      BY <1>9 DEF ScanSkip, ScanJudge, Judge, buffer
    <2>2. k > cursor
      BY <1>0, <2>1, KFacts DEF Ahead
    <2> QED
      BY <1>1, <2>1, <2>2 DEF Ahead
  <1>10. CASE ScanResume
    <2>1. pc = "scan" /\ pc' = "lua" /\ UNCHANGED <<waiting, old, stop, cursor>>
      BY <1>10 DEF ScanResume, Enter, pass, buffer
    <2> QED
      BY <1>1, <2>1 DEF Ahead
  <1>11. CASE Tick \/ UNCHANGED vars
    <2>1. UNCHANGED <<pc, waiting, old, stop, cursor>>
      BY <1>11 DEF Tick, vars, pass, buffer
    <2> QED
      BY <1>1, <2>1 DEF Ahead
  <1> QED
    BY <1>4, <1>5, <1>6, <1>7, <1>8, <1>9, <1>10, <1>11 DEF PlainStep, Schedule

\* A step in which no entry is added or changed, and in which only a thread
\* that has an entry is resumed, leaves what is owed in the entries.
LEMMA EntriesOweKept ==
  ASSUME TInv, PlainStep, waiting' = waiting, UNCHANGED <<waited, owed>>,
         \A t \in Thread: status'[t] = "run" => status[t] \in {"run", "new"} \/ HasEntry(t)
  PROVE  EntriesOwe'
  <1>1. KInv /\ EntriesOwe
    BY DEF TInv
  <1>2. \A t \in waited: HasEntry(t)' \/ status'[t] \notin {"new", "run"}
    <2>1. ASSUME NEW t \in waited, ~HasEntry(t)' PROVE status'[t] \notin {"new", "run"}
      <3>1. ~HasEntry(t) /\ status[t] \notin {"new", "run"} /\ t \in Thread
        BY <1>1, <2>1 DEF EntriesOwe, HasEntry
      <3> QED
        BY <1>1, <3>1, StatusMoves
    <2> QED
      BY <2>1
  <1> QED
    BY <1>1, <1>2 DEF EntriesOwe

\* co_wait adds what it asks for to the entry and to the debt alike.
LEMMA EntriesOweGrow ==
  ASSUME TInv, NEW d \in Int, pc = "lua", Enlist(Running, d), Owe(Running, d),
         UNCHANGED <<residue, stop>>,
         \A t \in Thread: status'[t] \in {"new", "run"} => status[t] \in {"new", "run"}
  PROVE  EntriesOwe'
  <1>1. KInv /\ EntriesOwe
    BY DEF TInv
  <1>2. PICK r \in Thread: r = Running
    BY <1>1, KFacts, RunningFacts
  <1>3. status[r] = "run" /\ Enlist(r, d) /\ Owe(r, d)
    BY <1>1, <1>2, KFacts, RunningFacts
  <1>4. /\ waiting' \in Seq(CoTask) /\ HasEntry(r)' /\ Unique'
        /\ Len(waiting') >= Len(waiting)
        /\ \A k \in 1..Len(waiting): waiting'[k].state = waiting[k].state
    BY <1>1, <1>3, KFacts, EnlistPreserves
  <1>5. DOMAIN waiting' = 1..Len(waiting') /\ Len(waiting') \in Nat
    BY <1>4, LenProperties
  <1>6. /\ waited' = waited \union {r} /\ waited' \subseteq Thread
        /\ owed' = [owed EXCEPT ![r] = (IF r \in waited THEN @ ELSE clock) + d]
        /\ clock \in Int /\ owed \in [Thread -> Int]
    <2>1. waited \subseteq Thread /\ owed \in [Thread -> Int]
      BY <1>1 DEF EntriesOwe
    <2>2. clock \in Int
      BY <1>1, KFacts DEF TypeOK
    <2>3. /\ waited' = waited \union {r}
          /\ owed' = [owed EXCEPT ![r] = (IF r \in waited THEN @ ELSE clock) + d]
      BY <1>3 DEF Owe
    <2> QED
      BY <2>1, <2>2, <2>3
  <1>7. /\ owed' \in [Thread -> Int]
        /\ owed'[r] = (IF r \in waited THEN owed[r] ELSE clock) + d
        /\ \A t \in Thread: t # r => owed'[t] = owed[t]
    BY <1>6
  <1>8. \A t \in waited': HasEntry(t)' \/ status'[t] \notin {"new", "run"}
    <2>0. \A t: HasEntry(t) => HasEntry(t)'
      BY <1>1, <1>4, <1>5, KFacts DEF HasEntry
    <2>1. ASSUME NEW t \in waited', t # r, ~HasEntry(t)' PROVE status'[t] \notin {"new", "run"}
      <3>1. ~HasEntry(t)
        BY <2>0, <2>1
      <3>2. t \in waited /\ t \in Thread
        BY <1>6, <2>1
      <3> QED
        BY <1>1, <3>1, <3>2 DEF EntriesOwe
    <2> QED
      BY <1>4, <2>1
  <1>9. ASSUME NEW k \in 1..Len(waiting')
        PROVE  /\ waiting'[k].state \in waited'
               /\ owed'[waiting'[k].state] = waiting'[k].started + waiting'[k].duration
    <2>1. ASSUME k \in 1..Len(waiting), waiting'[k] = waiting[k], waiting[k].state # r
          PROVE  /\ waiting'[k].state \in waited'
                 /\ owed'[waiting'[k].state] = waiting'[k].started + waiting'[k].duration
      BY <1>1, <1>6, <1>7, <2>1, KFacts DEF EntriesOwe
    <2>2. CASE /\ ~HasEntry(r) /\ Len(waiting') = Len(waiting) + 1
               /\ \A j \in 1..Len(waiting): waiting'[j] = waiting[j]
               /\ waiting'[Len(waiting) + 1].state = r
               /\ waiting'[Len(waiting) + 1].started + waiting'[Len(waiting) + 1].duration = clock + d
      <3>1. \A j \in 1..Len(waiting): waiting[j].state # r
        BY <1>1, <2>2, KFacts DEF HasEntry
      <3>2. r \notin waited
        BY <1>1, <1>3, <2>2 DEF EntriesOwe
      <3>3. CASE k \in 1..Len(waiting)
        BY <2>1, <2>2, <3>1, <3>3
      <3>4. CASE k = Len(waiting) + 1
        BY <1>6, <1>7, <2>2, <3>2, <3>4
      <3> QED
        BY <1>1, <2>2, <3>3, <3>4, KFacts
    <2>3. ASSUME NEW i \in 1..Len(waiting),
                 /\ waiting[i].state = r /\ Len(waiting') = Len(waiting)
                 /\ \A j \in 1..Len(waiting): j # i => waiting'[j] = waiting[j]
                 /\ waiting'[i].state = r
                 /\ waiting'[i].started + waiting'[i].duration = waiting[i].started + waiting[i].duration + d
          PROVE  /\ waiting'[k].state \in waited'
                 /\ owed'[waiting'[k].state] = waiting'[k].started + waiting'[k].duration
      <3>1. r \in waited /\ owed[r] = waiting[i].started + waiting[i].duration
        BY <1>1, <2>3 DEF EntriesOwe
      <3>2. CASE k = i
        BY <1>6, <1>7, <2>3, <3>1, <3>2
      <3>3. CASE k # i
        <4>1. k \in 1..Len(waiting) /\ waiting'[k] = waiting[k] /\ waiting[k].state # r
          BY <1>1, <2>3, <3>3, KFacts DEF Unique
        <4> QED
          BY <2>1, <4>1
      <3> QED
        BY <3>2, <3>3
    <2> QED
      BY <1>1, <1>3, <2>2, <2>3, KFacts, EnlistEntries
  <1> QED
    BY <1>4, <1>5, <1>6, <1>7, <1>8, <1>9 DEF EntriesOwe

LEMMA StepEntriesOwe == TInv /\ ClockNext => EntriesOwe'
  <1>. SUFFICES ASSUME TInv, ClockNext PROVE EntriesOwe'
    OBVIOUS
  <1>0. KInv /\ EntriesOwe
    BY DEF TInv
  <1>1. ASSUME NEW d \in Durations, CoWait(d), Owe(Running, d) PROVE EntriesOwe'
    <2>1. pc = "lua" /\ Enlist(Running, d) /\ UNCHANGED <<residue, stop>> /\ d \in Int
      BY <1>1, TimeAssumption DEF CoWait, Leave
    <2>2. PICK r \in Thread: r = Running
      BY <1>0, <2>1, KFacts, RunningFacts
    <2>3. \A t \in Thread: status'[t] \in {"new", "run"} => status[t] \in {"new", "run"}
      BY <1>0, <1>1, <2>2, KFacts DEF CoWait, Leave
    <2> QED
      BY <1>1, <2>1, <2>3, EntriesOweGrow
  <1>2. ASSUME NEW d \in Durations, CoWaitRefused(d), Owe(Running, d) PROVE EntriesOwe'
    <2>1. pc = "lua" /\ Enlist(Running, d) /\ UNCHANGED <<residue, stop, status>> /\ d \in Int
      BY <1>2, TimeAssumption DEF CoWaitRefused, pass
    <2> QED
      BY <1>2, <2>1, EntriesOweGrow
  <1>3. ASSUME PlainStep, waiting' = waiting, UNCHANGED history,
               \A t \in Thread: status'[t] = "run" => status[t] \in {"run", "new"} \/ HasEntry(t)
        PROVE  EntriesOwe'
    BY <1>3, EntriesOweKept DEF history
  <1>4. ASSUME NEW st \in {"ok", "err"}, pc = "lua", Leave(st)
        PROVE  \A t \in Thread: status'[t] = "run" => status[t] = "run"
    <2>1. PICK r \in Thread: r = Running
      BY <1>0, <1>4, KFacts, RunningFacts
    <2> QED
      BY <1>0, <1>4, <2>1, KFacts DEF Leave
  <1>5. CASE (Finish \/ Throw) /\ UNCHANGED history
    <2>1. PlainStep /\ waiting' = waiting
      BY <1>5 DEF PlainStep, Finish, Throw, buffer
    <2>2. \A t \in Thread: status'[t] = "run" => status[t] = "run"
      BY <1>4, <1>5 DEF Finish, Throw
    <2> QED
      BY <1>3, <1>5, <2>1, <2>2
  <1>6. ASSUME NEW u \in Coroutine, CoSpawn(u), UNCHANGED history PROVE EntriesOwe'
    <2>1. PlainStep /\ waiting' = waiting /\ status[u] = "new" /\ status' = [status EXCEPT ![u] = "run"]
      BY <1>6 DEF PlainStep, CoSpawn, Enter, buffer, Thread
    <2>2. \A t \in Thread: status'[t] = "run" => status[t] \in {"run", "new"}
      BY <1>0, <2>1, KFacts
    <2> QED
      BY <1>3, <1>6, <2>1, <2>2
  <1>7. CASE Start /\ UNCHANGED history
    <2>1. /\ PlainStep /\ waiting' = waiting /\ status' = [status EXCEPT ![Main] = "run"]
          /\ pc = "start" /\ Main \in Thread
      BY <1>7 DEF PlainStep, Host, Start, Enter, buffer, Thread
    <2>2. \A t \in Thread: status'[t] = "run" => status[t] \in {"run", "new"}
      BY <1>0, <2>1, KFacts DEF Fresh
    <2> QED
      BY <1>3, <1>7, <2>1, <2>2
  <1>8. CASE ScanResume /\ UNCHANGED history
    <2>1. pc = "scan" /\ cursor \in 1..stop
      BY <1>0, <1>8, KFacts DEF ScanResume, PassOK
    <2>2. PICK u \in Thread: u = Slots[cursor].state
      BY <1>0, <2>1, KFacts, SlotRead
    <2>3. HasEntry(u)
      BY <1>0, <2>1, <2>2, KFacts, SlotRead DEF HasEntry
    <2>4. PlainStep /\ waiting' = waiting /\ status' = [status EXCEPT ![u] = "run"]
      BY <1>8, <2>2 DEF PlainStep, Schedule, ScanResume, Enter, buffer
    <2>5. \A t \in Thread: status'[t] = "run" => status[t] = "run" \/ HasEntry(t)
      BY <1>0, <2>3, <2>4, KFacts
    <2> QED
      BY <1>3, <1>8, <2>4, <2>5
  <1>9. CASE /\ \/ BeginPass \/ Exit \/ ScanSkip \/ ScanJudge \/ EndScan \/ EndPass \/ TouchFreed
                \/ Tick \/ UNCHANGED vars
             /\ UNCHANGED history
    <2>1. PlainStep
      BY <1>9 DEF PlainStep, Host, Schedule
    <2>2. UNCHANGED <<waiting, status>>
      BY <1>9 DEF BeginPass, Exit, ScanSkip, ScanJudge, EndScan, EndPass, TouchFreed, Tick, vars, buffer
    <2> QED
      BY <1>3, <1>9, <2>1, <2>2
  <1>10. CASE EraseCompleted /\ UNCHANGED history
    <2>. DEFINE v == Slots[Head(completed)].state
    <2>1. /\ RemoveTask(v) /\ status' = status /\ pc = "erase" /\ UNCHANGED <<waited, owed>>
      BY <1>0, <1>10, KFacts, ErasesTask DEF EraseCompleted, history
    <2>. HIDE DEF v
    <2>2. \A u: HasEntry(u) /\ u # v => HasEntry(u)'
      BY <1>0, <2>1, KFacts, RemoveTaskPreserves
    <2>3. \A k \in 1..Len(waiting'): \E m \in 1..Len(waiting): waiting'[k] = waiting[m]
      BY <1>0, <2>1, KFacts, RemoveTaskKeeps
    <2>4. \A t \in Thread: status[t] \notin {"run"}
      BY <1>0, <2>1, KFacts, EmptySeq DEF StackOK
    <2>5. \A t \in waited: HasEntry(t)' \/ status[t] \notin {"new", "run"}
      BY <1>0, <2>2, <2>4, KFacts DEF EntriesOwe, Fresh
    <2> QED
      BY <1>0, <2>1, <2>3, <2>5 DEF EntriesOwe
  <1> QED
    BY <1>1, <1>2, <1>5, <1>6, <1>7, <1>8, <1>9, <1>10 DEF ClockNext, Host, Schedule, Over

LEMMA StepDated == KInv /\ Dated /\ ClockNext => Dated'
  <1>. SUFFICES ASSUME KInv, Dated, ClockNext PROVE Dated'
    OBVIOUS
  <1>1. now \in Nat /\ clock \in Nat
    BY KFacts DEF TypeOK
  <1>2. \/ now' \in {now, clock, 0} /\ clock' = clock
        \/ now' = now /\ clock' = clock + 1
    BY DEF ClockNext, CoWait, CoWaitRefused, Finish, Throw, Leave, Host, Start, BeginPass, Exit, CoSpawn,
           Schedule, ScanSkip, ScanResume, ScanJudge, EndScan, EraseCompleted, EndPass, TouchFreed,
           Tick, Over, vars, pass
  <1> QED
    BY <1>1, <1>2 DEF Dated

LEMMA ClockIsPlain == ClockNext => PlainStep
  <1>1. (\E u \in Coroutine: CoSpawn(u)) => \E u \in Thread: CoSpawn(u)
    BY DEF Thread
  <1> QED
    BY <1>1 DEF ClockNext, PlainStep, Over

LEMMA StepTInv == TInv /\ [ClockNext]_<<vars, history>> => TInv'
  <1>. SUFFICES ASSUME TInv, [ClockNext]_<<vars, history>> PROVE TInv'
    OBVIOUS
  <1>1. CASE ClockNext
    <2>1. KInv' /\ RunnersBehind'
      BY <1>1, ClockIsPlain, StepKInv, StepRunners DEF TInv
    <2>2. SlotsAhead' /\ EntriesOwe' /\ Dated'
      BY <1>1, <2>1, ClockIsPlain, StepSlotsAhead, StepEntriesOwe, StepDated DEF TInv
    <2> QED
      BY <2>1, <2>2 DEF TInv
  <1>2. CASE UNCHANGED <<vars, history>>
    <2>1. PlainStep
      BY <1>2 DEF PlainStep
    <2>2. KInv' /\ RunnersBehind'
      BY <2>1, StepKInv, StepRunners DEF TInv
    <2>3. SlotsAhead'
      BY <2>1, <2>2, StepSlotsAhead
    <2>4. EntriesOwe' /\ Dated'
      BY <1>2 DEF TInv, EntriesOwe, Dated, vars, history, HasEntry
    <2> QED
      BY <2>2, <2>3, <2>4 DEF TInv
  <1> QED
    BY <1>1, <1>2

LEMMA InitTInv == ClockInit => TInv
  <1>1. ClockInit => RunnersBehind /\ SlotsAhead /\ EntriesOwe /\ Dated
    BY EmptySeq DEF ClockInit, Init, RunnersBehind, SlotsAhead, EntriesOwe, Dated
  <1> QED
    BY <1>1, InitKInv DEF ClockInit, TInv

LEMMA ClockInvariant == ClockSpec => []TInv
  BY InitTInv, StepTInv, PTL DEF ClockSpec

\* No thread is resumed before the time of its first co_wait plus all the
\* seconds it has asked for since.
THEOREM TotalWaitKept == ClockSpec => TotalWaitHonoured
  <1>1. TInv /\ [ClockNext]_<<vars, history>> =>
          [\A t \in Thread: Woken(t) => clock >= owed[t]]_<<vars, history>>
    <2>. SUFFICES ASSUME TInv, ClockNext, NEW t \in Thread, status[t] = "yield", status'[t] = "run"
                  PROVE  clock >= owed[t]
      BY DEF Woken
    <2>0. KInv
      BY DEF TInv
    <2>1. ASSUME NEW st \in {"yield", "ok", "err"}, pc = "lua", Leave(st) PROVE FALSE
      <3>1. PICK r \in Thread: r = Running
        BY <2>0, <2>1, KFacts, RunningFacts
      <3> QED
        BY <2>0, <2>1, <3>1, KFacts DEF Leave
    <2>2. ASSUME NEW u \in Coroutine, CoSpawn(u) PROVE FALSE
      BY <2>0, <2>2, KFacts DEF CoSpawn, Enter
    <2>3. CASE Start
      BY <2>0, <2>3, KFacts DEF Start, Fresh
    <2>4. CASE ScanResume
      <3>1. /\ pc = "scan" /\ cursor \in 1..stop /\ Due(Slots[cursor])
            /\ status' = [status EXCEPT ![Slots[cursor].state] = "run"]
        BY <2>0, <2>4, KFacts DEF ScanResume, PassOK, Enter
      <3>2. Slots[cursor] = waiting[cursor] /\ cursor \in 1..Len(waiting)
        <4>1. old # <<>> => old[cursor] = waiting[cursor]
          BY <3>1 DEF TInv, SlotsAhead, Ahead
        <4>2. residue = <<>> /\ cursor \in 1..Len(waiting)
          BY <2>0, <3>1, KFacts DEF Agree
        <4>3. old = <<>> => Slots = waiting
          BY <2>0, <4>2, KFacts, ConcatEmptySeq DEF Slots, TypeOK
        <4> QED
          BY <4>1, <4>2, <4>3 DEF Slots
      <3>. DEFINE e == waiting[cursor]
      <3>3. e \in CoTask /\ owed[e.state] = e.started + e.duration
        BY <2>0, <3>2, KFacts, ElementOfSeq DEF TInv, EntriesOwe, TypeOK
      <3>4. Due(e) /\ status' = [status EXCEPT ![e.state] = "run"]
        BY <3>1, <3>2
      <3>. HIDE DEF e
      <3>5. t = e.state
        BY <2>0, <3>4, KFacts
      <3>6. e.started \in Int /\ e.duration \in Int /\ now - e.started >= e.duration
        BY <3>3, <3>4 DEF CoTask, Due
      <3>7. now \in Nat /\ clock \in Nat /\ now <= clock
        BY <2>0, KFacts DEF TInv, Dated, TypeOK
      <3> QED
        BY <3>3, <3>5, <3>6, <3>7
    <2>5. CASE /\ \/ Exit \/ BeginPass \/ ScanSkip \/ ScanJudge \/ EndScan \/ EraseCompleted \/ EndPass
                  \/ TouchFreed \/ Tick \/ Over \/ \E d \in Durations: CoWaitRefused(d)
      <3>1. status' = status
        BY <2>5 DEF Exit, BeginPass, ScanSkip, ScanJudge, EndScan, EraseCompleted, EndPass, TouchFreed,
                    Tick, Over, CoWaitRefused, vars
      <3> QED
        BY <3>1
    <2> QED
      BY <2>1, <2>2, <2>3, <2>4, <2>5 DEF ClockNext, CoWait, Finish, Throw, Host, Schedule
  <1> QED
    BY <1>1, ClockInvariant, PTL DEF ClockSpec, TotalWaitHonoured
============================================================================
