----------------------------- MODULE ModuleCache -----------------------------
(***************************************************************************)
(* lua_require: the cache `_MODULES`, and the threads that run the bodies  *)
(* of modules. Requires nest, since a body requires other modules before   *)
(* its own result is stored; a body that yields has failed for the code    *)
(* that required it, but the scheduler resumes what is left of it later.   *)
(*                                                                         *)
(* The program, with its scripts and coroutines, is what runs when no body *)
(* does. Lua code may do whatever it likes; Script restricts it.           *)
(***************************************************************************)
EXTENDS Integers, Sequences, SequencesExt

CONSTANTS
  Module,    \* the files a require may resolve to
  MaxRuns,   \* bound: how often one module is read to be run
  MaxCalls,  \* nested resumes at which Luau reports "C stack overflow"
  Script     \* what the scripts of a run do, a subset of Habits

Habits ==
  { "drop",    \* nothing refers to the thread of a body that has yielded
    "yield" }  \* bodies call co_wait or coroutine.yield

ASSUME BoundAssumption == MaxRuns \in Nat /\ MaxCalls \in Nat \ {0}
ASSUME ScriptAssumption == Script \subseteq Habits

VARIABLES
  pc,       \* "lua": code runs | "raise": it fails | "exit" | "undefined"
  modules,  \* _MODULES: the result of a module, and the run that it is from
  stack,    \* the bodies that run, each required by the one below it
  runs,     \* how often each module was read to be run
  waiting,  \* the threads of bodies that called co_wait
  got,      \* history: the runs whose table a require of the module returned
  cyclic    \* history: the modules that were required while they were loading

vars == <<pc, modules, stack, runs, waiting, got, cyclic>>

Nothing == [kind |-> "nil", run |-> 0]
Table(n) == [kind |-> "table", run |-> n]
Error(n) == [kind |-> "string", run |-> n]
Entry == [kind: {"nil", "table", "string"}, run: Nat]

\* A body; `late` once the scheduler, and no require, has resumed it.
Body == [module: Module, run: Nat, late: BOOLEAN]

Init ==
  /\ pc = "lua"
  /\ modules = [m \in Module |-> Nothing]
  /\ stack = <<>> /\ runs = [m \in Module |-> 0]
  /\ waiting = {} /\ got = [m \in Module |-> {}] /\ cyclic = {}

Loading(m) == \E k \in DOMAIN stack: stack[k].module = m /\ ~stack[k].late
Top == Last(stack)

\* The body on top was run by a require, which waits for its result.
Required == stack # <<>> /\ ~Top.late

----------------------------------------------------------------------------
(* require, in whatever code runs *)

\* finishrequire, for a cached entry: a string is raised as an error.
RequireCached(m) ==
  /\ pc = "lua" /\ modules[m].kind # "nil"
  /\ IF modules[m].kind = "table"
     THEN got' = [got EXCEPT ![m] = @ \union {modules[m].run}] /\ UNCHANGED pc
     ELSE pc' = "raise" /\ UNCHANGED got
  /\ UNCHANGED <<modules, stack, runs, waiting, cyclic>>

\* A body, or what it calls, may require a module that is still loading.
Cyclic(m) == IF Loading(m) THEN cyclic \union {m} ELSE cyclic

\* The file was read and compiled: lua_resume runs it in a thread of its own.
RequireFile(m) ==
  /\ pc = "lua" /\ modules[m].kind = "nil"
  /\ runs[m] < MaxRuns /\ Len(stack) < MaxCalls
  /\ runs' = [runs EXCEPT ![m] = @ + 1]
  /\ stack' = Append(stack, [module |-> m, run |-> runs'[m], late |-> FALSE])
  /\ cyclic' = Cyclic(m)
  /\ UNCHANGED <<pc, modules, waiting, got>>

\* It does not compile, or the nested resumes are too many: nothing runs, and
\* the message is stored and raised.
RequireFails(m) ==
  /\ pc = "lua" /\ modules[m].kind = "nil"
  /\ runs[m] < MaxRuns
  /\ runs' = [runs EXCEPT ![m] = @ + 1]
  /\ modules' = [modules EXCEPT ![m] = Error(runs'[m])]
  /\ pc' = "raise" /\ cyclic' = Cyclic(m)
  /\ UNCHANGED <<stack, waiting, got>>

\* No such file: an error that is not stored.
RequireNothing == pc = "lua" /\ pc' = "raise" /\ UNCHANGED <<modules, stack, runs, waiting, got, cyclic>>

----------------------------------------------------------------------------
(* How a body ends *)

\* Mutant: the table is returned, but not stored.
ReturnsUncached ==
  /\ pc = "lua" /\ Required
  /\ got' = [got EXCEPT ![Top.module] = @ \union {Top.run}]
  /\ stack' = Front(stack)
  /\ UNCHANGED <<pc, modules, runs, waiting, cyclic>>

\* A table or a function: stored, and returned to the code that required it.
Returns ==
  /\ pc = "lua" /\ Required
  /\ modules' = [modules EXCEPT ![Top.module] = Table(Top.run)]
  /\ got' = [got EXCEPT ![Top.module] = @ \union {Top.run}]
  /\ stack' = Front(stack)
  /\ UNCHANGED <<pc, runs, waiting, cyclic>>

\* It returned nothing or something else, or failed: a message is stored, and
\* raised in the code that required it.
Fails ==
  /\ pc \in {"lua", "raise"} /\ Required
  /\ modules' = [modules EXCEPT ![Top.module] = Error(Top.run)]
  /\ pc' = "raise" /\ stack' = Front(stack)
  /\ UNCHANGED <<runs, waiting, got, cyclic>>

\* Mutant: a body that yields has succeeded.
YieldsTable ==
  /\ pc = "lua" /\ Required /\ "yield" \in Script
  /\ modules' = [modules EXCEPT ![Top.module] = Table(Top.run)]
  /\ got' = [got EXCEPT ![Top.module] = @ \union {Top.run}]
  /\ waiting' \in {waiting, waiting \union {[Top EXCEPT !.late = TRUE]}}
  /\ stack' = Front(stack)
  /\ UNCHANGED <<pc, runs, cyclic>>

\* "module can not yield": a failure too, but the thread stays suspended, and
\* waits if it called co_wait.
Yields ==
  /\ pc = "lua" /\ Required /\ "yield" \in Script
  /\ modules' = [modules EXCEPT ![Top.module] = Error(Top.run)]
  /\ waiting' \in {waiting, waiting \union {[Top EXCEPT !.late = TRUE]}}
  /\ pc' = "raise" /\ stack' = Front(stack)
  /\ UNCHANGED <<runs, got, cyclic>>

----------------------------------------------------------------------------
(* Errors *)

Throw == pc = "lua" /\ pc' = "raise" /\ UNCHANGED <<modules, stack, runs, waiting, got, cyclic>>

\* A pcall, in the body on top or in the program.
Catch == pc = "raise" /\ pc' = "lua" /\ UNCHANGED <<modules, stack, runs, waiting, got, cyclic>>

\* The scheduler reports the error of a task, and the process ends.
ProgramFails ==
  /\ pc = "raise" /\ stack = <<>>
  /\ pc' = "exit" /\ UNCHANGED <<modules, stack, runs, waiting, got, cyclic>>

----------------------------------------------------------------------------
(* The rest of a body that yielded *)

\* schedule resumes the thread: nothing of the require is left below it.
ResumeLate(b) ==
  /\ pc = "lua" /\ stack = <<>> /\ b \in waiting
  /\ stack' = <<b>> /\ waiting' = waiting \ {b}
  /\ UNCHANGED <<pc, modules, runs, got, cyclic>>

\* Mutant: a body that ends late stores its table all the same.
LateStores ==
  /\ pc \in {"lua", "raise"} /\ stack # <<>> /\ Top.late
  /\ stack' = Front(stack)
  /\ IF pc = "raise" THEN pc' = "exit" /\ UNCHANGED <<modules, waiting>>
     ELSE /\ UNCHANGED <<pc, waiting>>
          /\ modules' = [modules EXCEPT ![Top.module] = Table(Top.run)]
  /\ UNCHANGED <<runs, got, cyclic>>

\* It ends, yields again or fails; nobody asks for its result.
LateEnds ==
  /\ pc \in {"lua", "raise"} /\ stack # <<>> /\ Top.late
  /\ stack' = Front(stack)
  /\ IF pc = "raise" THEN pc' = "exit" /\ UNCHANGED waiting
     ELSE UNCHANGED pc /\ waiting' \in {waiting, waiting \union {Top}}
  /\ UNCHANGED <<modules, runs, got, cyclic>>

\* require drops its reference to the thread when it raises: the collector may
\* free it, and schedule then resumes freed memory.
FreeWaiting ==
  /\ pc = "lua" /\ "drop" \in Script /\ stack = <<>> /\ waiting # {}
  /\ pc' = "undefined" /\ UNCHANGED <<modules, stack, runs, waiting, got, cyclic>>

----------------------------------------------------------------------------

Over == pc \in {"exit", "undefined"} /\ UNCHANGED vars

Next ==
  \/ \E m \in Module: RequireCached(m) \/ RequireFile(m) \/ RequireFails(m)
  \/ RequireNothing \/ Throw \/ Catch \/ ProgramFails
  \/ Returns \/ Fails \/ Yields
  \/ \E b \in waiting: ResumeLate(b)
  \/ LateEnds \/ FreeWaiting \/ Over

Spec == Init /\ [][Next]_vars

----------------------------------------------------------------------------
(* Properties *)

TypeOK ==
  /\ pc \in {"lua", "raise", "exit", "undefined"}
  /\ modules \in [Module -> Entry] /\ stack \in Seq(Body)
  /\ runs \in [Module -> Nat] /\ waiting \subseteq Body
  /\ got \in [Module -> SUBSET Nat] /\ cyclic \subseteq Module

\* All code that requires a module gets the same table, whatever fails, yields
\* or is retried in between. A module in a cycle runs again, and gives another;
\* the modules that are in no cycle are not affected.
SingleInstance == \A m \in Module \ cyclic: \A n1, n2 \in got[m]: n1 = n2

\* What was stored for a module in no cycle stays: a table, or the message of its
\* failure even when the rest of its body runs to its end later.
StoredOnce ==
  [][\A m \in Module \ cyclic: modules[m].kind # "nil" => modules'[m] = modules[m]]_vars

\* Nobody is given the table of a body that has not run to its end, cycles
\* included: the body is neither on the stack nor waiting to be resumed.
TablesAreFinished ==
  /\ \A b \in waiting: b.run \notin got[b.module]
  /\ \A k \in DOMAIN stack: stack[k].run \notin got[stack[k].module]
============================================================================
