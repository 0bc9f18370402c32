# Verification of Halia

Halia runs Luau scripts: it embeds the Luau VM, gives scripts a library under
`std` (coroutines that wait, events, files, processes, vectors) and a `require`
of their own. This directory holds TLA+ models of the parts of it that have
state and order, TLC configurations that check them on small instances, and
proofs, checked by TLAPS, that hold for every instance. Paths below are relative
to `src/`, and `core/` is short for `src/core/`.

Run `tlc -config X.cfg M` for a run and `tlapm M.tla` for a module of proofs.
`PROJECT.json` maps every definition to the lines it translates.

## 1. Inventory

| Component | State | Operations | Interacts with |
|---|---|---|---|
| Scheduler, `core/library/co_tasks.cpp` | the vector `waiting` of (thread, start, duration); the map `fixed_refs` of registry references | `co_spawn`, `co_wait`, `add_task`, `all_done`, `schedule` | resumes Lua code, which calls back into it; the collector |
| Host loop, `core/core.cpp` (`bootstrap`), `runtimes/console/main.cpp` | status of the main script, exit code | load, resume, call `schedule` until all is done | the scheduler |
| Event, `core/library/Event.cpp` | the vector `refs` of (id, registry reference), `curr_id`, the creating `lua_State` | `connect`, `disconnect`, `fire`, destructor | handlers, which call it again; other threads; the collector |
| Module loading, `core/etc/lua_base_impl.cpp` | the table `_MODULES` | `require` (nested, cyclic, failing, yielding bodies) | resolver, scheduler |
| Require resolver, `core/etc/Require.cpp` | parsed configs, the last searched directory, the two paths under construction | one search per `require` | configs, path utilities, `_MODULES` |
| Path utilities, `core/etc/FileUtils.cpp` | none | `resolve_path`, `split_path`, `join_paths`, ... | file system |
| Process library, `core/library/process/` | two pipes during `execute`; the arguments of the process | `execute`, look-ups, child objects; `at`, `size`, `totable`, `parse_params`, `parse_flags` | other processes |
| Userdata and tags, `core/include/halia/type_utils.hpp` | one static tag per type and image, the registry and its counter, Luau's table of destructors | `type_tag`, `is_type`, `check`, `create`, `create_raw` | every binding, every image, the collector |
| Bindings, `core/library/{filesystem,math,process}/` | the objects | methods, fields, operators, members of `std` | `create`, `check` |
| Start-up, `core/core.cpp`, `core/Builtin_library.hpp` | the Luau state, `std`, the statics `loaded`, `builtin_module_cache_ref`, `already_registered`, `main_script_thread` | `init`, `load`, `add_library`, `bootstrap`, the destructors of the statics | all of the above |
| Front ends, `CLI/main.cpp`, printing, `Flat_stack`, `resources/` | none, or not used | | |

Everything but child processes runs on one operating-system thread. What is hard
is re-entrance: C++ loops (`schedule`, `fire`, `find_module`, nested `require`)
hold iterators, pointers and cached ends across calls into Lua code that changes
what they point into. Then there are failures in the middle of an operation
(a refused yield, a handler or module that raises an error, a constructor that
throws), time (deadlines, a second wait), the garbage collector, and statics that
outlive a Luau state. The `hazards` of `PROJECT.json` list these at their lines.

What makes each component correct:

- Scheduler: every sleeper has its one entry, is anchored and is woken, never before its
  time; only entries of ended threads leave; freed memory is left alone; the loop ends, with 0
  only if all is done.
- Event: ids stay sorted; a fire calls what was connected, once each; a slot that
  is still to be read names a live function.
- Module loading: one instance per module, stored once, finished when handed out.
- Resolver: the nearest module wins; "not found" and errors are justified; it
  ends; a chunkname leads to the file it was read from.
- `execute`: what it returns is all that was written; it returns.
- Arguments: the parsers return exactly what is there; `at` never reads outside.
- Start-up: scripts run only where everything static belongs to their state; the end of the
  process releases before it closes.
- Userdata and bindings: no value is taken for another type; tags fit; destructors run, and run
  on objects.

## 2. Modules

| Module | Models | Extends / uses |
|---|---|---|
| `TaskLife` | abstract: what the scheduler promises to scripts | |
| `CoTasks` | scheduler and host loop | implements `TaskLife` (`Promise`) |
| `CoTaskClock` | the same with history variables about time | `CoTasks` |
| `CoTaskTrouble` | the same with a history of the cases the code does not provide for | `CoTasks` |
| `CoTasksProofs`, `CoTasksPromise`, `SequenceLemmas` | proofs | |
| `Event`, `EventProofs` | one Event, and proofs | |
| `ModuleCache` | `lua_require` | |
| `Paths`, `RequireChain` | path arithmetic; the names along a chain of requires | |
| `RequireProofs` | proofs about `RequireChain` and `ModuleCache` | both |
| `RequireSearch`, `RequireSearchProofs` | one search of the resolver, and proofs | |
| `Execute` | `execute`, its program and a process left behind | |
| `ArgsSpan` | `std.process.args` and its two parsers | |
| `StdProcess`, `StdProcessProofs` | both as a script uses them, and proofs | `Execute`, `ArgsSpan` |
| `Userdata` | tags, objects, destructors | |
| `Bindings` | where scripts make objects | `Userdata` |
| `HostLife`, `HostLifeProofs` | the life of a process, and proofs, also those about `Userdata` | `Bindings`, implements `Userdata` |
| `MC...` | model values, symmetry, sets of inputs | |

### CoTasks
`waiting`, `cap`, `residue` and `old` are the vector: its elements, capacity, what
the erase loop leaves behind its end, and the buffer a pass still iterates over
after a `push_back` has replaced it. `cursor` and `stop` are the range-for of
`schedule`; `completed` its vector of pointers, as slots. `callstack` is the nesting
of `lua_resume`; `status` is `lua_status`; `fixed_refs` maps a thread to the
`lua_State` through which its reference will be released. `pc` tells which code runs.

A pass is `BeginPass`, then `ScanSkip`, `ScanResume` or `ScanJudge` per slot,
`EndScan`, `EraseCompleted` per pointer, `EndPass`. Between `ScanResume` and the
return, Lua code runs: `CoWait`, `CoWaitRefused` (the yield is not permitted and a
`pcall` catches the error: the entry stays), `CoSpawn`, `Finish`, `Throw`, `Yield`,
`Resume`, `Collect`, and `AddTask` of the host. `Leave` is the return of
`lua_resume`, and `Judge` what `schedule` makes of it. `EraseCompleted` re-reads the
slot after the erase, as the code does.

Reading a freed buffer is undefined behaviour: the pass either reads what was there
(`Slots`) or ends in `pc = "undefined"` (`TouchFreed`). The constant `Script` says
which of eight habits the scripts of a run have, so that each property is checked
for the largest class of scripts for which the code keeps it.

`CoTaskClock` records, per thread, when its latest `co_wait` may return as documented
(`promise`), whether it has waited at all (`waited`), and the time of its first wait plus all
it has asked for since (`owed`). It leaves out threads resumed by hand, the collector and
`add_task`. Durations may be negative, as any number a script passes.

The scheduler holds slots by address and threads by references that it may drop. With
the collector, threads resumed by hand and a host that calls `add_task`, it does go wrong:
`CoTaskTrouble` records in `trouble` how.

- "regrown": the resumed code pushes to a full vector, and the buffer under the pass goes
  (co_tasks.cpp:71, 97).
- "shifted": line 111 reads a slot after the erase of line 110 has moved another thread into
  it, and drops this thread's reference. It takes an entry that ends before the last slot.
- "orphaned": the collector frees a coroutine through whose state the reference of one that it
  spawned is to be released (lines 26-27).
- "unheld": `co_wait` or `add_task` enters a coroutine that no reference holds (one made by
  `coroutine.create`, or one that lost its reference in the second case).
- "doubled": `add_task` is called for a thread that has an entry (lines 83-89).

The properties say that a sleeper without a live reference needs one of the last four, a touch of
freed memory one of the five, a second entry the fifth. So what the model says of scripts that a host
runs is not that nothing goes wrong, but exactly what has to come before. With two entries
for one thread, `std::remove` compares with an element that it moves itself, which
`RemoveAliased` spells out.

Abstracted: coroutine arguments, error texts, doubles (durations are small integers;
`duration_cast` of NaN or huge values is not modelled), addresses of freed threads are
not used again, `pcall` within a segment, the errors of `co_spawn`'s first segment are dropped as
in the code.

### Event
`refs`, `cap` and `residue` as above; every frame of `stack` that is a `fire` has its
own cursor, cached end and, once a reallocation freed it, its buffer. `Connect`,
`Disconnect` (a `lower_bound`, then an erase, which does not release the reference),
`Fire`, `ReadSlot`, `HandlerDone`, `EndFire`, `Destroy`. An event used from a thread
that did not create it works on the creator's stack (`Foreign`, `StrayPop`, `args`).
A disconnect of an id that is not connected raises an error through the creator's state
(`DisconnectMissing`): in a handler it ends the handler, in another thread it is undefined. A handler
fails with a text (`HandlerDone`) or with another value, for which `fire` prints a null pointer
(`HandlerFails`). The event keeps the creator's `lua_State`: `FreeCreator` is the collector freeing
an ended coroutine, or `lua_close` freeing the threads before the event; `UseFreed` and `Destroy`
then touch freed memory. `misuse` is history: which of five things scripts did that the
code does not provide for (a reallocation under a fire, destruction under a fire, use from
another thread, an error without text, a creator that goes first). `SafeUse` says that nothing
else is undefined. One event; arguments are reduced to whether they are the given ones. It is
assumed that they have the declared types, and that twice as many and two fit into the stack
that Luau guarantees a C function (`fire` pushes without `lua_checkstack`; about 18 do).

### ModuleCache
`modules` is `_MODULES`; `stack` the bodies that run, each required by the one below;
`waiting` the threads of bodies that called `co_wait`. `RequireCached`, `RequireFile`,
`RequireFails`, `RequireNothing` are the four ways through `lua_require` before the
body runs; `Returns`, `Fails`, `Yields` those after it. `ResumeLate` and `LateEnds` are
the scheduler running what is left of a body whose `require` has already failed.
`FreeWaiting` is the collector: the only reference to such a thread is on a stack that
is gone. `got` is history: the runs whose table some `require` returned; so is `cyclic`: the modules
required while they were loading, for which the code promises nothing (each body of the
cycle runs, and stores, once more).

### Paths, RequireChain, RequireSearch
A path is a flag and a sequence of components, which are strings. `ResolvePath` is a loop over
the components (`Resolution`, a recursive function), with the `numPrependedParents` of the
code; `Walk` is the reference, a walk through the directories of a file system. `RequireChain` runs a chain of
requires: at each, the chunkname and the absolute path are both resolved (lines 91-111),
and only the first is known to the next module. `RequireSearch` is one search: the
default path, the alias, or the loop over `config.paths`, whose end a parse moves.
POSIX paths; no symbolic links; the text of configs is Luau's business and is reduced to
what a config defines; `pcall` as the requiring context is not modelled.

### Execute
`system` waits for exit; then `out` and `err` are read to their ends, symbol by symbol.
Text is told apart as far as newlines. The program may leave a process behind (`Fork`)
that holds the pipes.

### ArgsSpan and StdProcess
An argument is a word behind some dashes; the same word may stand behind none, one and two.
`At` compares the index as the code does: an `int` becomes a `size_t` of width `SizeLimit`,
so that a negative index is large. `ParserBegins`, `Param`, `Flag` and `Return` are the
two loops, one iteration a step. `IsFlag` reads the terminator behind a lone dash, and of
an empty argument, as the C string has one. `StdProcess` interleaves whole calls: `execute`
blocks the one thread, so no parser runs during it. The arguments that `execute_command`
joins into one are the program's business.

### Userdata and Bindings
`tag[i][t]` is the static local of `type_tag<t>` in image `i`. `Reopen` is a second `init`
(the old state is closed and its objects freed). `Step` is everything else. The registry is keyed
by `typeid(...).name()`, which is taken to tell the bound types apart. Userdata of Luau's own
(`newproxy`) is left out: it carries tag 0, which `unique_tag_incr` also gives to the first type.

`Bindings` says which types of objects a use of each type and each table of `std` makes, in the
core library's image; which name selects what, values and argument errors are abstracted, and a use
that makes nothing changes nothing. The operating system obeys, except that a child process may fail
to start, within the constructor of `boost::process::child` (`CreateThrows`).

### HostLife
Every static carries the number of the Luau state that it belongs to. `Open`,
`RegisterLibrary` for fs, math and process in turn, and `Load` are `init`; `Start`, `Lua`
and `Return` are `bootstrap` around the loop that `CoTasks` models; `Exit`, `Release`, `Close` and
`Over` are the destructors of `fixed_refs` and `main_state`. `lua_close` destroys the events
that are left, through threads that it may have freed before (`CloseState`); a reference in
`fixed_refs` may have been made in the name of a coroutine that was freed since (`orphaned`).
Three things come out of it:

- A second `init` in one process, after a script or after a load error, ends in
  `std::terminate` (`RegisterStale`): `builtin_module_cache_ref` is a reference of the
  closed state, and the error raised by reading a field of nil leaves a `noexcept` function.
  This is why `already_registered` of Event.cpp never gets the chance to be wrong.
- `add_library` runs its loader, which may fail, and caches the result, and then cannot assign to
  the read-only `std`: it throws (`AddLibrary`). Before `init` it uses a null state.
- What is left in `fixed_refs` is released while the state is open only because
  `co_tasks.cpp` is linked behind `core.cpp` (`CoTasksFirst`; the list of sources of CMakeLists.txt:23,
  which `file (GLOB_RECURSE ...)` sorts).

`Lua` is the scripts of `Bindings` and the embedding program's own objects (`Step`), so that
`HostLife` implements `Userdata`, and the tables under `std` are those that init has filled.
Abstracted: the scheduler's state at the end is whether a reference is left.

## 3. Runs

| Run | Instance | Shows |
|---|---|---|
| `scheduler` | main and 2 coroutines, durations 0 and 1, clock to 1; spawns anywhere, entries that end in any slot, errors, refused yields; 834k states | `SleepersListed`, `ZeroMeansDone`, `OnlyDoneLeave`, `TotalWaitHonoured`; refinement of `TaskLife` (`KeepsPromise`); `SleepersWake`, `IdleExits` |
| `chaos` | all eight habits at once, vector to 3 entries by `add_task`, waits of 1, one case of `trouble`; 3.5M states | `UniqueWaiting`, `CursorNamesTask`, `CompletedAreOver`, `SleepersAnchored`, `MemorySafe` |
| `lost_sleeper` | two tasks end in one pass | violates `SleepersWake` (finding) |
| `early_wait` | waits only; clock to 2 | violates `WaitIsHonoured` (finding) |
| `event` | 2 functions, 3 connections, nesting 2, every habit; 8.5M states | `SortedById`, `RefsOwned`, `SafeUse`, `FireExact` |
| `event_args` | an event used from another thread | violates `HandlersGetArgs` (finding) |
| `require_chain` | chains of 4 requires, 6 relative paths, 2 aliases, 1 search directory | `Normalized`, `ChunkNamesFile`, `ReadsWhatIsAsked` |
| `search` | 3 levels, 5 kinds of config, 2 suffixes, up to 2 modules on disk or cached | `TypeOK`, `FirstWins`, `NotFoundIsReal`, `ErrorsAreNeeded`, `Terminates` |
| `modules` | 3 modules, 3 runs of each, 4 nested calls, cycles included; 222k states | `SingleInstance`, `TablesAreFinished`, `StoredOnce` |
| `process` | up to 4 arguments of 2 words and at most 2 dashes, pipes of 3, texts up to 3; 552k states | `FeedbackComplete`, `ParsesExactly`, `AtStaysInside`, `CallsReturn` |
| `host` | 2 Luau states, 1 added library, 4 types in 2 images, 2 objects, 4 tags; 5.4M states | `TypesNeverConfused`, `TagsFit`, `Destroyed`, `ScriptsAreAtHome`, `EndsInOrder` |
| `raw_destroyed` | the same | violates `OnlyMadeAreDestroyed` (finding) |

Why the bounds are enough. The interesting cases of `schedule` need two entries that move, or
one that moves and one that is pushed: three threads give both, and the capacity chosen freely
in `PushBack` makes every `push_back` reallocate or not. Durations 0 and 1 give entries that are
due at once and entries that are skipped (`chaos`, whose properties do not speak of time, has
only the second kind, which is due once the clock has moved); `early_wait` takes a clock of 2,
for a wait after a wait. `MaxWaiting = 3` lets `add_task` give a thread a second entry beside
another's. In `chaos`, the constraint `OneTrouble` cuts off what follows once a second case of
`trouble` comes up: each property of that run speaks of whether one came up at all, or of what
holds while none or one has; the state in which the second arises is still checked. `scheduler`
is about scripts for which the promises hold: two entries that end before one erase loop are
left to `lost_sleeper`, dropped references and hosts to `chaos`. For `event`, three connections
and two nested fires give a reallocation under two iterators and an erase before, at and behind
the cursor. In `require_chain`, four requires let an error in a chunkname surface, which takes
two. In `search`, three levels tell nearest, next and last apart. In `process`, three symbols
hold a line and a rest; four arguments hold a parameter with its value, a repetition of it, and
one that ends the list; `MaxDashes = 2` is what the code looks at. `IntLimit = 5` and `SizeLimit
= 10` keep the conversion of a negative index, which lands behind every argument as it does at
2^31 and 2^64 (`WidthAssumption`). `ExecuteArgs = 0` executes programs only where there are no
arguments: the two parts share no state, and the product of both would only be larger. In
`host`, `MaxStates = 2` gives a state before and one after; tags, statics and `std` of a third
would be those of the second. Two objects of four types (one of which the loader of a library
makes, one whose constructor throws, one that an object makes) leave two types out at any time,
and the destructor table forgets between.

Deadlock is checked in all runs but `require_chain`, which stops at `MaxDepth`; the other
models stutter explicitly where the program has ended (`Over`, `Done`, `Ended`).

Fairness. `CoTasks!FairSpec` assumes that the C++ of host and pass does not stop, that time
passes, and that a segment of Lua code ends at some time in a wait, a return or an error.
The loop of `bootstrap` never blocks, so the first two are what the program does; the last is
what cooperative scheduling asks of scripts, and no script is assumed to resume anything.
`CoTaskClock!FairClockSpec` assumes the same. `RequireSearch!FairSpec` is a loop that runs.
`StdProcess!FairStdSpec` lets a parser that runs, Halia and each process go on when they
can: one thread runs the first two, and a process that waits for room in a pipe is not assumed
to leave. A program that never exits would break `CallsReturn`, which speaks of programs that
come to their ends.

## 4. Proofs

All theorems hold for any number of threads, connections, modules, types and any bounds.

- `CoTasksProofs`: `TypeCorrect`, for hosts without `add_task`; `WaitingIsUnique` and `CursorNames`,
  for all scripts and hosts as long as `add_task` is not called for a thread that has an entry.
  Uniqueness is inductive only together with what pushes and erases rely on (`IInv`): threads on the call
  stack are running and distinct, the lowest entered by the host or the pass (`StackOK`);
  cursor and collected pointers stay within the slots of the pass (`PassOK`); and up to the
  cached end the slots name the same threads as the vector, although the buffer may have been
  replaced (`SlotsOK`). `CursorNames` adds that the cursor's entry is that of the thread resumed
  (`CursorOK`), which the vector's growth and moves leave so.
- `CoTasksProofs`, for scripts that only suspend in `co_wait`, and a host that adds nothing:
  `CompletedOver`, by `KInv`: the pointers collected are
  in the order of the slots, behind the cursor, and of ended threads; a thread that never ran has
  no entry (`Fresh`), which keeps `Enlist` off the collected ones. And `TotalWaitKept`, by `TInv`:
  an entry holds what its thread is owed (`EntriesOwe`), the slots that the scan has not reached
  are those of the vector even in a replaced buffer (`SlotsAhead`), of the threads that run, only
  the resumed one has a slot of the pass (`RunnersBehind`), and a pass read the clock at its
  beginning (`Dated`). It holds for negative durations, too.
- `CoTasksPromise`: for regular scripts (`Regular`: `Script` within `late_spawn`, `shuffle`,
  `throw`, `refuse`; no two ended entries in one erase loop, no threads resumed by hand, none
  freed, none added by the host) `NoSleeperLost`, `OnlyDoneLeaves`,
  `SuccessMeansDone` and `ImplementsTaskLife`. `PInv` adds to `IInv` and `CursorOK`
  that at most one entry is of an ended thread, which at most one
  collected pointer names (`OneOver`), that no thread is freed (`Lives`), and `SleepersListed`.
  Without `OneOver` the second erase would read a shifted slot: the run `lost_sleeper`.
- `CoTasksPromise`, for all scripts and hosts: `SleepersStayAnchored` and `NothingFreedIsTouched`, over
  `TroubleSpec`. `Safe` says that every coroutine with an entry is held, by a reference or by the
  frame of the `co_spawn` that runs it, and that every reference is that of a living thread and
  goes through the state of a living one. Every step that is not one of the four serious cases
  (`Serious`) keeps it, and `Sound` puts it together: unless "doubled" came up `IInv` and `CursorOK`
  hold; if at most "regrown" did, so does `Safe`; and if nothing did, no buffer was replaced. The
  theorems are conditional on `trouble` as the properties are: the content is that the list of
  cases is complete.
- `EventProofs`: `TypeCorrect`, `AlwaysSorted`, `DisconnectFinds`, `NeverCallsOthers`,
  `FiresExactly`, `OnlyMisuseHurts`. The invariant says of each frame that its slots hold live references and,
  while nothing was disconnected, that it has called the first of them in order (`FrameOK`);
  of vector and residue that their references are live, and distinct in the vector
  (`VectorOK`); and that the event exists while `fire` runs (`ControlOK`). `SafeInv` adds for
  `SafeUse` that a frame with a freed buffer, an event destroyed under a fire and a freed
  creator each have left their mark in `misuse`; the errors of `disconnect` and of handlers leave
  theirs as they occur. That `disconnect` leaks its reference is what makes `RefsOwned` true.
- `RequireProofs` on `ModuleCache`: `TypeCorrect`, `OnlyFinished` (every module), `OneInstance` and
  `StoredForGood` (modules in no cycle). `BodyInv`: module and run identify a body, runs are
  counted up, and no body that runs or waits has been handed out. `StoreInv`: a module in no
  cycle that is loading has no result and is loading once, and what was handed out is stored.
- `RequireProofs` on `RequireChain`: `AlwaysNormalized`, `ChunkAlwaysNamesFile`,
  `AlwaysReadsWhatIsAsked`, for paths and chains of any length. The loop of `resolve_path` is an
  induction over components, and is made one over a set of numbers: a number at which the
  claim fails would have a least one below it (`LeastNumber`, `Induction`, from the library's
  theorem on well-founded relations). The loop invariants: resolving a rooted path is walking it
  (`RootedResolution`); resolving a relative one leaves some "..", then names
  (`UnrootedResolution`), and leads where the path leads from the current directory. `NameInv`
  says that file and chunkname are in normal form; `PlaceInv`, that the chunkname leads to the file
  and that the file is the one asked for. What they assume, and why:
  - `Texts`: a text that ends in ".luau" is not empty, "." or "..". No prover here looks into texts.
  - `PlainDirectories`: the directories of `paths` are free of "." and "..". An absolute one is
    taken from the config as it is written (Require.cpp:224), and its dots would reach the names.
  - `EndsInNames`: a require ends in a name. After `require("..")` the suffix makes of the chunkname
    and of the absolute path names of different files, and at the root a name with an empty
    component (section 5).
  - `~Climbs` and `MainDir = Cwd`, for the second and third: two divergences of section 5.
- `RequireSearchProofs`: `TypeCorrect`, `FirstAlwaysWins`, `NotFoundAlwaysReal`,
  `ErrorsAlwaysNeeded`. The invariant: the alias known is that of the last config parsed and
  no config below has one (`AliasInv`); while the loop runs, the end of `paths` is the paths
  of the latest config, those before the index are in vain, and so is every config below
  (`InLatest`). `NotFoundAlwaysReal` stops at the first config without paths because the
  loop does: there, and only there, the index passes the end with configs left to parse.
  `SearchDescends`, with `DescentIsWellFounded`: the directories left, the paths left and the
  parts of the search left, compared in this order, go down with every step, so that no search
  runs for ever; that it is never stuck either, and so `Terminates`, is for TLC.
- `HostLifeProofs` on `Userdata`: `TypeCorrect`, `NeverConfused`, `TagsAlwaysFit`,
  `DestroyedAlways`. The invariant: the counter is the number of registered types, registered
  tags are distinct, and every image that knows a tag knows the registry's. `TagsAlwaysFit` assumes
  that there are no more types than tags (`LimitAssumption`); no code checks that.
- `StdProcessProofs`: `TypesCorrect`, `ExecuteIsComplete`, `ParsersAreExact`, `AtIsInside`.
  For `execute`: what was written is what was read, as lines and the line under way, followed
  by what the pipe holds; and once `err` is read, no process is left that could write. For
  the parsers, a loop invariant: the table is that of the first `cursor` arguments
  (`ParamsOf`, `FlagsOf`). `AtIsInside` needs `WidthAssumption`: `argc` is an `int`, and a
  negative `int` as `size_t` is larger than any `int`.
- `HostLifeProofs` on `HostLife`: `AlwaysAtHome` and `AlwaysInOrder`; the invariant says for
  each phase what the statics may belong to. `AlwaysInOrder` leaves undefined behaviour three causes:
  a library added before any `init`, events, and an orphaned reference. `HostKeepsUserdata` shows
  that every step of a process is a step of `Userdata` or a stutter, so that the theorems about
  `Userdata` carry over (`HostObjectsAreSound`).
- `SequenceLemmas`: what appending and removing do to positions, cited by the others.

Assumptions are the `ASSUME`s of the modules, which every run evaluates, and the hypotheses
named above. `MCRequireChain` has TLC evaluate those hypotheses for its run, save `Texts`, which
ranges over all strings.

Only model-checked: liveness (`SleepersWake`, `IdleExits`, `Terminates`, `CallsReturn`), which is
beyond the prover; and `CompletedAreOver` with "park" and "host" scripts. Every invariant and
every other action property that a passing run checks has a theorem.

## 5. Where the code and its documents disagree

Listed with a run of their own:

- `lost_sleeper`: pointers into `waiting` are used after an erase (co_tasks.cpp:109).
- `early_wait`: a wait after a wait keeps the first start, and returns early (co_tasks.cpp:77,
  Halia.core.d.luau:180).
- `event_args`: `fire` copies arguments from the creator's stack (Event.cpp:44).
- `raw_destroyed`: a constructor that throws leaves raw memory that a destructor runs on
  (type_utils.hpp:42).

Reached by the models, without a run of their own:

- Two handlers that disconnect themselves in one fire: one connection is skipped, one is
  called after its disconnect (`Event!SelfDisconnectIsFinal`, Event.cpp:35).
- `resolve_path` drops a `..` if the base begins with one (FileUtils.cpp:157): the second
  `require("../a")` in a row names the module wrongly (`Climbs = TRUE`).
- `require(".")` next to the main script names the module `/init.luau` (Require.cpp:76), at the
  root of the file system the absolute name begins with two slashes (Require.cpp:66), and
  a main script outside the current directory is named without its directory (core.cpp:47).
- `require("..")` and the like are given chunknames that lead elsewhere, and dots in an absolute
  directory of `paths` stay in the names of its modules (hypotheses of the theorems on
  `RequireChain`; Require.cpp:63, 224).
- A config that adds no path hides the search paths above it (`SearchesAllConfigs`,
  Require.cpp:46 and the comment in line 56).
- A program that writes more than a pipe holds never exits while `execute` waits for it
  (process/init.cpp:15; `CallsReturn` with `Capacity` below `MaxSize`).
- `init` replaces `main_state` (core.cpp:104) as if it could be called again, yet a second
  call terminates the process; `add_library` never adds (core.cpp:141). See HostLife.
- With a collector that runs, the five cases of `trouble` in `CoTaskTrouble` (co_tasks.cpp:26, 71,
  97, 111, and 84 for a host that adds a thread twice), and the five of `misuse` in `Event`
  (Event.cpp:16, 36, 39, 44, 47, 76).

Noted and not modelled. A method name that is no enumerator makes `find_if` return the end of the
array, and the name and value behind it are read (constext.hpp:133), where core.cpp:68 expects an
exception. Declarations of Halia.core.d.luau that the code does not keep: `native_exit_code` raises
an error; `failed_before_executing` is registered as `failed_before_execution`, and the unknown key
is returned itself; `DirectoryEntry:path` is `file_path`; `Vector3:abs`, and `-` and `/` of vectors,
give nothing; `std.filesystem`, `fs.Path` and `process.Child` are registered as `fs`, `File_path` and
`Child_process`. `write_file` writes nothing and returns true
(filesystem/init.cpp:67); `co_spawn` drops the error of the first segment; a Connection is a
bare id that disconnects whatever has this id in another event; `disconnect` leaks its
registry reference; `lua_tostring` of an error value that is no string is null
(co_tasks.cpp:105); the unregistered `create` of process/init.cpp lacks returns; `luaL_sandbox` seals `std` but
not the tables below it, which scripts may change.

## 6. Not modelled

- I/O or data without order: reading and listing files, the file system's reaction to
  `std.fs`, Boost's child objects, floating-point values, printing, compile options and
  native code generation.
- Code that nothing calls: `process/Process.cpp` and the `create` of `process/init.cpp`,
  `get_source_files`, `traverse_directory` and `read_stdin` of `FileUtils.cpp`, `Flat_stack`,
  `push_luau_module` and `set_luau_module_global`, `push_if_callback`, `register_event_type`.
- Which method, field or operator a name selects (`Namecall_atom.hpp`, `constext.hpp`, the switches
  of the bindings), and what uses give beside objects.
- Assignment to fields of objects, which always raises an error and changes nothing.
- `CLI/main.cpp` passes its arguments on to the console executable. The scripts of
  `resources/` belong to another engine and are not loaded; `task.luau` shows how Event is used.

## 7. Plan

The modules were written in the order CoTasks with TaskLife, Event, ModuleCache, RequireChain,
RequireSearch, Execute, Userdata, Bindings, ArgsSpan with StdProcess, HostLife. Next:

1. Runs for the disagreements of section 5 that have a property but no run
   (`SelfDisconnectIsFinal`, `SearchesAllConfigs`).
2. `Scripts`: `ModuleCache` composed with `CoTasks`, to follow the thread of a module that
   waits into `waiting`, where nothing but a stack refers to it.
3. Proofs: `CompletedOver` for scripts that resume threads by hand; `SafeUse` across a second
   `Event`.
