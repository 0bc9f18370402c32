--------------------------- MODULE CoTaskTrouble ---------------------------
(***************************************************************************)
(* What the scheduler keeps, whatever scripts and the embedding program    *)
(* do. It holds slots by address and threads by references that it may     *)
(* drop; the history variable `trouble` records which of five cases that   *)
(* the code does not provide for have come up. The scheduler never reads   *)
(* it.                                                                     *)
(***************************************************************************)
EXTENDS CoTasks

VARIABLE trouble

Troubles ==
  { "regrown",   \* a push_back has replaced the buffer that a pass iterates over
    "shifted",   \* line 111 has read a slot that by then named another thread
    "orphaned",  \* a thread was freed that references are to be released through
    "unheld",    \* an entry was made for a coroutine that no reference holds
    "doubled" }  \* add_task was called for a thread that had an entry

\* The registry holds a thread from co_spawn on: first by the guard in the frame
\* of co_spawn, then by that in fixed_refs.
Held(t) ==
  \/ fixed_refs[t] # NoRef
  \/ \E i \in DOMAIN callstack: callstack[i] = [th |-> t, via |-> "spawn"]

Regrows == old = <<>> /\ old' # <<>>
Shifts == LET c == Head(completed) IN
  pc = "erase" /\ completed # <<>> /\ Slots'[c].state # Slots[c].state
Orphans == \E u \in Thread:
  status[u] # "freed" /\ status'[u] = "freed" /\ \E t \in Thread: fixed_refs[t] = u
EntersUnheld == \E t \in Coroutine: ~Held(t) /\ ~HasEntry(t) /\ HasEntry(t)'
Doubles == \E u \in Thread: HasEntry(u) /\ AddTask(u)

Arises(case) ==
  \/ case = "regrown"  /\ Regrows
  \/ case = "shifted"  /\ Shifts
  \/ case = "orphaned" /\ Orphans
  \/ case = "unheld"   /\ EntersUnheld
  \/ case = "doubled"  /\ Doubles

TroubleNext == Next /\ trouble' = trouble \union {case \in Troubles: Arises(case)}

TroubleInit == Init /\ trouble = {}

TroubleSpec == TroubleInit /\ [][TroubleNext]_<<vars, trouble>>

----------------------------------------------------------------------------
(* Properties *)

\* `waiting` holds two entries of one thread only if add_task was called for a
\* thread that had one: co_wait looks for an entry, in whatever order threads
\* wait, wait again after a refused yield, end and are resumed by hand.
UniqueWaiting == OneEntryEach \/ "doubled" \in trouble

\* The pointers of `completed` are in the order of the slots, behind the cursor,
\* and name threads that have ended, although the vector moves under the pass.
\* Only an entry of a coroutine that nothing holds, such as one that add_task is
\* given before it ever ran, may be collected and its thread started later.
CompletedAreOver ==
  pc \in {"scan", "lua"} =>
    \A k \in DOMAIN completed:
      /\ completed[k] < cursor
      /\ \A m \in 1..(k - 1): completed[m] < completed[k]
      /\ status[Slots[completed[k]].state] \in {"ok", "freed"} \/ "unheld" \in trouble

\* A coroutine that sleeps in `waiting` is held by a reference that can be
\* released, so that the collector leaves it alone until its deadline. Only four
\* cases undo this: a reference dropped in the place of another, a spawner freed
\* first, an entry without a reference, and two entries of one thread.
SleepersAnchored ==
  \A t \in Coroutine: status[t] = "yield" /\ HasEntry(t) /\ pc \notin {"exit", "undefined"} =>
    \/ fixed_refs[t] # NoRef /\ status[fixed_refs[t]] # "freed"
    \/ trouble \ {"regrown"} # {}

\* Freed memory (the buffer under a pass, a thread that is due, the lua_State
\* that a reference is released through) is touched in no sixth case.
MemorySafe == pc = "undefined" => trouble # {}
============================================================================
