------------------------------ MODULE HostLife ------------------------------
(***************************************************************************)
(* The life of a process that embeds Halia: init opens a Luau state, puts  *)
(* the core libraries under `std`, seals it and loads the main script; the *)
(* host runs the script, may add libraries and may call init again; and at *)
(* the end the static objects of the core library are destroyed. What is   *)
(* static outlives a Luau state, so each such value carries the number of  *)
(* the state that it belongs to, 0 where there is none.                    *)
(***************************************************************************)
EXTENDS Bindings

CONSTANTS
  Extra,     \* the names of the libraries that the host adds
  MaxStates  \* bound: the Luau states that init opens

ASSUME StatesAssumption == MaxStates \in Nat \ {0}
ASSUME ExtraAssumption == Extra \intersect {"fs", "math", "process"} = {}

VARIABLES
  phase,    \* which code runs: "host" | "init" | "lua" | "exit", or how it ended:
            \* "over" | "terminated" (std::terminate) | "undefined"
  state,    \* main_state
  loaded,   \* CoreLibrary::loaded of the core libraries that were loaded
  cache,    \* the state that builtin_module_cache_ref belongs to
  cached,   \* the libraries in the cache
  std,      \* the names in the table `std`
  ready,    \* the latest init has returned no error
  main,     \* the state that main_script_thread belongs to
  events,   \* the state that event_ctor has registered its metatables in
  anchors,  \* the state that the references in fixed_refs belong to
  orphaned, \* one of them is to be released through a coroutine that was freed
  code      \* what bootstrap or main has returned

hostVars == <<phase, state, loaded, cache, cached, std, ready, main, events, anchors, orphaned, code>>
statics == <<loaded, cache, events>>
lifeVars == <<vars, hostVars>>

NoCode == 1

Library == <<"fs", "math", "process">>
Libraries == {Library[n]: n \in DOMAIN Library}
Functions == {"co_wait", "co_spawn", "Event"}

HostInit ==
  /\ Init
  /\ phase = "host" /\ state = 0 /\ loaded = {} /\ cache = 0 /\ cached = {} /\ std = {}
  /\ ready = FALSE /\ main = 0 /\ events = 0
  /\ anchors = 0 /\ orphaned = FALSE /\ code = NoCode

----------------------------------------------------------------------------
(* init *)

\* lua_close destroys the events that are left, whose destructors unref through
\* the thread that made them; Luau may have freed this thread before.
CloseState(next) == phase' = next \/ (events # 0 /\ phase' = "undefined")

\* main_state is replaced: the new state is made, and the old one is closed.
Open ==
  /\ phase = "host" /\ state < MaxStates
  /\ CloseState("init") /\ state' = state + 1
  /\ cached' = {} /\ std' = {} /\ ready' = FALSE /\ code' = NoCode
  /\ Reopen /\ UNCHANGED <<statics, main, anchors, orphaned>>

\* The loader of the process library makes the object std.process.args.
RunLoader(l) ==
  \/ l = "process" /\ "ArgsSpan" \in Type /\ \E o \in Object: Create(Core, "ArgsSpan", o)
  \/ ~(l = "process" /\ "ArgsSpan" \in Type) /\ UNCHANGED vars

\* The core library that init registers next.
IsNext(l) == \E n \in DOMAIN Library: l = Library[n] /\ \A m \in 1..(n - 1): Library[m] \in std

\* Mutant: a library that was loaded before is not looked up.
RegisterForgives(l) ==
  /\ phase = "init" /\ l \notin std /\ IsNext(l)
  /\ cache' = IF cache = 0 THEN state ELSE cache
  /\ loaded' = loaded \union {l}
  /\ std' = std \union {l} /\ cached' = cached \union {l}
  /\ RunLoader(l) /\ UNCHANGED <<phase, state, ready, main, events, anchors, orphaned, code>>

\* CoreLibrary::load and the assignment to std[l].
RegisterLibrary(l) ==
  /\ phase = "init" /\ l \notin std /\ IsNext(l)
  /\ l \notin loaded /\ cache \in {0, state}
  /\ cache' = state /\ loaded' = loaded \union {l}
  /\ std' = std \union {l} /\ cached' = cached \union {l}
  /\ RunLoader(l) /\ UNCHANGED <<phase, state, ready, main, events, anchors, orphaned, code>>

\* The cache is one of a state that was closed: the reference is nil in this
\* one, and reading a field of nil raises an error, which init, being noexcept,
\* lets nobody catch.
RegisterStale(l) ==
  /\ phase = "init" /\ l \notin std /\ IsNext(l)
  /\ cache \notin {0, state}
  /\ phase' = "terminated"
  /\ UNCHANGED <<vars, state, statics, cached, std, ready, main, anchors, orphaned, code>>

\* The libraries are registered; luaL_sandbox seals `std`, and the main script
\* is read, compiled and loaded, or cannot be.
Load(ok) ==
  /\ phase = "init" /\ Libraries \subseteq std
  /\ std' = std \union Functions
  /\ ready' = ok /\ main' = IF ok THEN state ELSE main
  /\ phase' = "host"
  /\ UNCHANGED <<vars, state, statics, cached, anchors, orphaned, code>>

----------------------------------------------------------------------------
(* add_library *)

\* The table is read-only by the time a host has a state to add to: the loader
\* runs and its result is cached, and then the assignment raises an error. Or the
\* loader itself fails, or does not return one value. Either error leaves
\* add_library as an exception.
AddLibrary(l) ==
  /\ phase = "host" /\ state > 0
  /\ \/ cached' = cached \union {l}
     \/ l \notin cached /\ UNCHANGED cached
  /\ \/ phase' = "host"       \* the host catches it
     \/ phase' = "terminated"
  /\ UNCHANGED <<vars, state, statics, std, ready, main, anchors, orphaned, code>>

\* Undefined behaviour: before init there is no state.
AddLibraryEarly(l) ==
  /\ phase = "host" /\ state = 0
  /\ phase' = "undefined"
  /\ UNCHANGED <<vars, state, statics, cached, std, ready, main, anchors, orphaned, code>>

----------------------------------------------------------------------------
(* bootstrap, and main of the console runtime *)

LoadFails ==
  /\ phase = "host" /\ state > 0 /\ ~ready /\ code = NoCode
  /\ code' = -1
  /\ UNCHANGED <<vars, phase, state, statics, cached, std, ready, main, anchors, orphaned>>

Start ==
  /\ phase = "host" /\ ready /\ code = NoCode
  /\ phase' = "lua"
  /\ UNCHANGED <<vars, state, statics, cached, std, ready, main, anchors, orphaned, code>>

\* Scripts run, and the embedding program's code that they call.
Lua ==
  /\ phase = "lua"
  /\ Script \/ Step
  /\ UNCHANGED hostVars

\* std.Event(): the first call registers the metatables of events.
NewEvent ==
  /\ phase = "lua"
  /\ events' = IF events = 0 THEN state ELSE events
  /\ UNCHANGED <<vars, phase, state, loaded, cache, cached, std, ready, main, anchors, orphaned, code>>

\* The loop of the host ends. A coroutine that never waited, or all of them
\* after an error, may still have a reference in fixed_refs, and the coroutine
\* that spawned it, in whose name it was made, may have been freed.
Return(c) ==
  /\ phase = "lua"
  /\ phase' = "host" /\ code' = c
  /\ \/ anchors' = 0 /\ orphaned' = FALSE
     \/ anchors' = state /\ orphaned' \in BOOLEAN
  /\ UNCHANGED <<vars, state, statics, cached, std, ready, main>>

----------------------------------------------------------------------------
(* The end of the process *)

Exit ==
  /\ phase = "host" /\ phase' = "exit"
  /\ UNCHANGED <<vars, state, statics, cached, std, ready, main, anchors, orphaned, code>>

\* Mutant: the static objects of core.cpp are destroyed first.
CoreFirst == FALSE

\* The list of sources is sorted, so co_tasks.cpp is linked behind core.cpp: its
\* static objects are made after and destroyed before those of core.cpp.
CoTasksFirst == TRUE

\* The destructor of fixed_refs: the deleter of each reference uses the thread
\* that it was made in.
Release ==
  /\ phase = "exit" /\ anchors # 0
  /\ anchors' = 0
  /\ \/ phase' = phase
     \/ (anchors # state \/ orphaned) /\ phase' = "undefined"
  /\ UNCHANGED <<vars, state, statics, cached, std, ready, main, orphaned, code>>

\* The destructor of main_state: lua_close, with the destructors of all objects.
Close ==
  /\ phase = "exit" /\ state > 0 /\ (CoTasksFirst => anchors = 0)
  /\ Reopen
  /\ state' = 0 /\ CloseState(phase)
  /\ UNCHANGED <<statics, cached, std, ready, main, anchors, orphaned, code>>

\* All static objects are destroyed.
Over ==
  /\ phase = "exit" /\ state = 0 /\ anchors = 0
  /\ phase' = "over"
  /\ UNCHANGED <<vars, state, statics, cached, std, ready, main, anchors, orphaned, code>>

Ended == phase \in {"over", "terminated", "undefined"} /\ UNCHANGED lifeVars

HostNext ==
  \/ Open \/ (\E l \in Libraries: RegisterLibrary(l) \/ RegisterStale(l)) \/ (\E ok \in BOOLEAN: Load(ok))
  \/ \E l \in Extra: AddLibrary(l) \/ AddLibraryEarly(l)
  \/ LoadFails \/ Start \/ Lua \/ NewEvent \/ (\E c \in {0, -2}: Return(c))
  \/ Exit \/ Release \/ Close \/ Over \/ Ended

HostSpec == HostInit /\ [][HostNext]_lifeVars
----------------------------------------------------------------------------
(* Properties *)

\* Whenever Lua code runs, all that is static belongs to the state it runs in,
\* however many states came and went, inits failed and libraries were added:
\* the thread of the script, the cache of libraries, the metatables of events
\* and the references of coroutines; and `std` has what it should have.
ScriptsAreAtHome ==
  phase = "lua" =>
    /\ main = state /\ cache = state
    /\ events \in {0, state} /\ anchors \in {0, state}
    /\ std = Libraries \union Functions /\ Libraries \subseteq cached

\* However a process ends, after whatever inits, scripts and failures, undefined
\* behaviour has one of three causes: the host added a library before any init;
\* scripts made events, and one was destroyed after the thread that made it; or a
\* reference in fixed_refs outlived the coroutine in whose name it was made. In
\* particular no reference is released through a Luau state that is closed.
EndsInOrder == phase = "undefined" => cache = 0 \/ events # 0 \/ orphaned
=============================================================================
