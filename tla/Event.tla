------------------------------- MODULE Event -------------------------------
(***************************************************************************)
(* One Event: the vector `refs` of connections, and fire, which iterates   *)
(* over it while the handlers it calls connect, disconnect and fire again. *)
(* A fire keeps the end of the vector it found, and pointers into its      *)
(* buffer: an erase shifts the slots under them, and a push_back that      *)
(* needs a larger buffer frees the one they point into.                    *)
(*                                                                         *)
(* An Event keeps the lua_State that created it, and fetches handlers and  *)
(* arguments through it. Code that runs on another thread (a coroutine, a  *)
(* required module, or the rest of the program for an Event that a module  *)
(* created) therefore calls with the wrong stack.                          *)
(***************************************************************************)
EXTENDS Integers, Sequences, SequencesExt

CONSTANTS
  Handler,   \* Lua functions
  Nil,       \* what lua_getref returns for a ref that is free
  MaxId,     \* bound: connections made
  MaxDepth,  \* bound: nested calls of fire and co_spawn
  Script     \* what the scripts of a run do, a subset of Habits

Habits ==
  { "connect",     \* connect while the event fires
    "disconnect",  \* disconnect while the event fires
    "foreign",     \* use the event from a thread that did not create it
    "drop",        \* forget the event
    "error",       \* let a handler fail with a value that is neither string nor number
    "orphan" }     \* let the thread that created the event go before the event

ASSUME HandlerAssumption == Nil \notin Handler
ASSUME BoundAssumption == MaxId \in Nat /\ MaxDepth \in Nat
ASSUME ScriptAssumption == Script \subseteq Habits

Ref == 1..MaxId

VARIABLES
  pc,        \* "lua" | "fire": which code runs; or "undefined"
  refs,      \* the vector of connections
  residue,   \* what erase and the moves it makes left behind its end
  cap,       \* its capacity
  curr_id,   \* the id of the latest connection
  registry,  \* Luau's registry: the function each ref stands for
  alive,     \* "held" by scripts, "dropped" by them, or "destroyed"
  stack,     \* the nested calls of fire and co_spawn
  creator,   \* the thread that created the event: "alive" or "freed"
  misuse     \* history: what scripts did that the code does not provide for

vars == <<pc, refs, residue, cap, curr_id, registry, alive, stack, creator, misuse>>
vector == <<refs, residue, cap>>
story == <<creator, misuse>>

Misuse ==
  { "connect",  \* the vector was reallocated while the event fired
    "drop",     \* the event was destroyed while it fired
    "error",    \* a handler failed with an error that has no text
    "foreign",  \* another thread than the creator connected, fired, or failed to disconnect
    "orphan" }  \* the creator was freed before the event

Pair == [id: Nat, ref: Ref]

\* A call of fire: the slot it reads next, the end it cached, and the buffer
\* it iterates over once that was freed. The last four are history: what was
\* connected when it began, the slots it has read, whether nothing was
\* disconnected since, and the handlers that disconnected themselves.
FireFrame == [kind: {"fire"}, cursor: Nat, stop: Nat, old: Seq(Pair), args: {"given", "stray"},
              start: Seq(Pair), called: Seq(Pair), clean: BOOLEAN, left: SUBSET Nat]
SpawnFrame == [kind: {"spawn"}]

Top == Last(stack)
Firing == \E k \in DOMAIN stack: stack[k].kind = "fire"
Foreign == stack # <<>> /\ Top.kind = "spawn"
FireFrames == {k \in DOMAIN stack: stack[k].kind = "fire"}

Init ==
  /\ pc = "lua" /\ refs = <<>> /\ residue = <<>> /\ cap = 0 /\ curr_id = 0
  /\ registry = [r \in Ref |-> Nil] /\ alive = "held" /\ stack = <<>>
  /\ creator = "alive" /\ misuse = {}

----------------------------------------------------------------------------
(* connect and disconnect *)

\* The frames that iterate over the current buffer, after it is freed.
Strand(s) == [k \in DOMAIN s |->
  IF s[k].kind = "fire" /\ s[k].old = <<>> THEN [s[k] EXCEPT !.old = refs \o residue] ELSE s[k]]

\* refs.push_back: in place while there is room, else into a larger buffer.
PushBack(e) ==
  /\ refs' = Append(refs, e)
  /\ IF Len(refs) < cap
     THEN /\ residue' = (IF residue = <<>> THEN <<>> ELSE Tail(residue))
          /\ UNCHANGED <<cap, stack, misuse>>
     ELSE /\ cap' \in (cap + 1)..(IF cap = 0 THEN 1 ELSE 2 * cap)
          /\ residue' = <<>> /\ stack' = Strand(stack)
          /\ misuse' = IF Firing THEN misuse \union {"connect"} ELSE misuse

\* Mutant: connections are numbered by their position.
ConnectAtEnd(h) ==
  /\ pc = "lua" /\ alive = "held" /\ curr_id < MaxId /\ ~Foreign
  /\ Firing => "connect" \in Script
  /\ curr_id' = curr_id + 1
  /\ \E r \in Ref:
       /\ registry[r] = Nil
       /\ registry' = [registry EXCEPT ![r] = h]
       /\ PushBack([id |-> Len(refs) + 1, ref |-> r])
  /\ UNCHANGED <<pc, alive, creator>>

Connect(h) ==
  /\ pc = "lua" /\ alive = "held" /\ curr_id < MaxId /\ ~Foreign
  /\ Firing => "connect" \in Script
  /\ curr_id' = curr_id + 1
  /\ \E r \in Ref:
       /\ registry[r] = Nil
       /\ registry' = [registry EXCEPT ![r] = h]
       /\ PushBack([id |-> curr_id + 1, ref |-> r])
  /\ UNCHANGED <<pc, alive, creator>>

\* std::lower_bound over `refs`, which it takes to be sorted by id.
LowerBound(i, id) ==
  /\ i \in 1..(Len(refs) + 1)
  /\ \A j \in 1..(i - 1): refs[j].id < id
  /\ i <= Len(refs) => refs[i].id >= id

\* refs.erase: the connections behind move down, the last slot keeps its pair.
EraseAt(i) ==
  /\ refs' = RemoveAt(refs, i)
  /\ residue' = <<Last(refs)>> \o residue

\* History: frames are no longer clean, and the running handler may be the one that left.
Mark(s, id) == [k \in DOMAIN s |->
  IF s[k].kind # "fire" THEN s[k]
  ELSE [s[k] EXCEPT !.clean = FALSE,
                    !.left = IF Last(s[k].called).id = id THEN @ \union {id} ELSE @]]

\* Mutant: disconnect releases the reference of the connection.
DisconnectUnrefs(id) ==
  /\ pc = "lua" /\ alive = "held"
  /\ Firing => "disconnect" \in Script
  /\ \E i \in DOMAIN refs:
       /\ LowerBound(i, id) /\ refs[i].id = id /\ EraseAt(i)
       /\ registry' = [registry EXCEPT ![refs[i].ref] = Nil]
  /\ stack' = Mark(stack, id)
  /\ UNCHANGED <<pc, cap, curr_id, alive, story>>

\* Mutant: disconnect gives memory back.
DisconnectShrinks(id) ==
  /\ pc = "lua" /\ alive = "held"
  /\ Firing => "disconnect" \in Script
  /\ \E i \in DOMAIN refs: LowerBound(i, id) /\ refs[i].id = id /\ refs' = RemoveAt(refs, i)
  /\ residue' = <<>> /\ cap' = Len(refs) - 1 /\ stack' = Mark(Strand(stack), id)
  /\ UNCHANGED <<pc, curr_id, registry, alive, story>>

\* The ref is not released.
Disconnect(id) ==
  /\ pc = "lua" /\ alive = "held"
  /\ Firing => "disconnect" \in Script
  /\ \E i \in DOMAIN refs: LowerBound(i, id) /\ refs[i].id = id /\ EraseAt(i)
  /\ stack' = Mark(stack, id)
  /\ UNCHANGED <<pc, cap, curr_id, registry, alive, story>>

\* An id that is not connected is an error, raised through the creator's state:
\* it ends the handler that called (or a pcall in it catches it, and nothing
\* changes). Undefined behaviour where another thread runs: the handler that
\* catches the error is that thread's, and Luau requires it to be the creator's.
DisconnectMissing(id) ==
  /\ pc = "lua" /\ alive = "held" /\ creator = "alive"
  /\ Firing => "disconnect" \in Script
  /\ \A i \in DOMAIN refs: LowerBound(i, id) => refs[i].id # id
  /\ \/ Foreign /\ pc' = "undefined" /\ misuse' = misuse \union {"foreign"}
     \/ stack # <<>> /\ ~Foreign /\ pc' = "fire" /\ UNCHANGED misuse
  /\ UNCHANGED <<vector, curr_id, registry, alive, stack, creator>>

----------------------------------------------------------------------------
(* fire *)

Fire ==
  /\ pc = "lua" /\ alive = "held" /\ creator = "alive" /\ Len(stack) < MaxDepth
  /\ pc' = "fire"
  /\ stack' = Append(stack,
       [kind |-> "fire", cursor |-> 1, stop |-> Len(refs), old |-> <<>>,
        args |-> IF Foreign THEN "stray" ELSE "given",
        start |-> refs, called |-> <<>>, clean |-> TRUE, left |-> {}])
  /\ misuse' = IF Foreign THEN misuse \union {"foreign"} ELSE misuse
  /\ UNCHANGED <<vector, curr_id, registry, alive, creator>>

\* The slots a call of fire reads.
Slots(f) == IF f.old = <<>> THEN refs \o residue ELSE f.old

\* Mutant: a loop over indices, that looks at the size of the vector each time.
PastSize(f) == f.cursor > (IF f.old = <<>> THEN Len(refs) ELSE f.stop)

\* The range-for compares with the end it cached.
PastEnd(f) == f.cursor > f.stop

ReadSlot ==
  /\ pc = "fire" /\ ~PastEnd(Top)
  /\ LET e == Slots(Top)[Top.cursor] IN
       /\ stack' = [stack EXCEPT ![Len(stack)].cursor = @ + 1, ![Len(stack)].called = Append(@, e)]
       /\ pc' = IF registry[e.ref] = Nil THEN pc ELSE "lua"
  /\ UNCHANGED <<vector, curr_id, registry, alive, story>>

\* Undefined behaviour: the next slot is in a freed buffer.
ReadFreed ==
  /\ pc = "fire" /\ ~PastEnd(Top) /\ Top.old # <<>>
  /\ pc' = "undefined" /\ UNCHANGED <<vector, curr_id, registry, alive, stack, story>>

\* The handler returns, or fails with a text that fire prints. fire goes on to use
\* the event, which the call removed from its stack.
HandlerDone ==
  /\ pc = "lua" /\ stack # <<>> /\ Top.kind = "fire"
  /\ pc' = IF alive = "destroyed" THEN "undefined" ELSE "fire"
  /\ UNCHANGED <<vector, curr_id, registry, alive, stack, story>>

\* Undefined behaviour: for any other error lua_tostring returns a null pointer,
\* which goes to std::cerr; a build may get away with it.
HandlerFails ==
  /\ pc = "lua" /\ "error" \in Script /\ stack # <<>> /\ Top.kind = "fire"
  /\ pc' \in {"undefined", IF alive = "destroyed" THEN "undefined" ELSE "fire"}
  /\ misuse' = misuse \union {"error"}
  /\ UNCHANGED <<vector, curr_id, registry, alive, stack, creator>>

EndFire ==
  /\ pc = "fire" /\ PastEnd(Top)
  /\ pc' = "lua" /\ stack' = Front(stack)
  /\ UNCHANGED <<vector, curr_id, registry, alive, story>>

----------------------------------------------------------------------------
(* Other threads, and the end of the event *)

\* Code goes on in another thread, and comes back from it.
Spawn ==
  /\ pc = "lua" /\ "foreign" \in Script /\ Len(stack) < MaxDepth
  /\ stack' = Append(stack, [kind |-> "spawn"])
  /\ UNCHANGED <<pc, vector, curr_id, registry, alive, story>>

SpawnDone ==
  /\ pc = "lua" /\ Foreign
  /\ stack' = Front(stack)
  /\ UNCHANGED <<pc, vector, curr_id, registry, alive, story>>

\* connect from another thread finds no function on the creator's stack: it
\* connects nothing, returns the null connection and pops that stack, as fire
\* does. Undefined behaviour: the values popped were in use.
StrayPop ==
  /\ pc = "lua" /\ Foreign /\ alive = "held"
  /\ pc' = "undefined" /\ misuse' = misuse \union {"foreign"}
  /\ UNCHANGED <<vector, curr_id, registry, alive, stack, creator>>

\* The creator is a coroutine that has ended and that the collector frees, or
\* the main script's thread, which lua_close may free before the event.
FreeCreator ==
  /\ pc = "lua" /\ "orphan" \in Script /\ creator = "alive" /\ stack = <<>>
  /\ creator' = "freed" /\ misuse' = misuse \union {"orphan"}
  /\ UNCHANGED <<pc, vector, curr_id, registry, alive, stack>>

\* Undefined behaviour: connect, fire and the error of disconnect use the
\* lua_State of the creator. A disconnect that finds its id does not.
UseFreed ==
  /\ pc = "lua" /\ creator = "freed" /\ alive = "held"
  /\ pc' = "undefined" /\ UNCHANGED <<vector, curr_id, registry, alive, stack, story>>

Drop ==
  /\ pc = "lua" /\ "drop" \in Script /\ alive = "held"
  /\ alive' = "dropped" /\ UNCHANGED <<pc, vector, curr_id, registry, stack, story>>

\* ~Event, run by Luau's collector or lua_close: it releases the references of
\* its connections through the lua_State of the creator.
Destroy ==
  /\ pc = "lua" /\ alive = "dropped"
  /\ alive' = "destroyed"
  /\ pc' = IF creator = "freed" /\ refs # <<>> THEN "undefined" ELSE pc
  /\ misuse' = IF Firing THEN misuse \union {"drop"} ELSE misuse
  /\ registry' = [r \in Ref |-> IF \E i \in DOMAIN refs: refs[i].ref = r THEN Nil ELSE registry[r]]
  /\ refs' = <<>> /\ residue' = <<>> /\ cap' = 0
  /\ UNCHANGED <<curr_id, stack, creator>>

Done == pc = "undefined" /\ UNCHANGED vars
Idle == pc = "lua" /\ stack = <<>> /\ alive = "destroyed" /\ UNCHANGED vars

Loop == ReadSlot \/ ReadFreed \/ EndFire
Lua == \/ \E h \in Handler: Connect(h)
       \/ \E id \in 0..MaxId: Disconnect(id) \/ DisconnectMissing(id)
       \/ Fire \/ Spawn \/ SpawnDone \/ StrayPop \/ Drop \/ Destroy \/ FreeCreator \/ UseFreed

Next == Loop \/ HandlerDone \/ HandlerFails \/ Lua \/ Done \/ Idle

Spec == Init /\ [][Next]_vars

----------------------------------------------------------------------------
(* Properties *)

\* The types of the vector and of what iterates over it.
VectorTypes ==
  /\ pc \in {"lua", "fire", "undefined"}
  /\ refs \in Seq(Pair) /\ residue \in Seq(Pair) /\ cap \in Nat /\ curr_id \in Nat
  /\ registry \in [Ref -> Handler \union {Nil}]
  /\ alive \in {"held", "dropped", "destroyed"}
  /\ stack \in Seq(FireFrame \union SpawnFrame)

TypeOK == VectorTypes /\ creator \in {"alive", "freed"} /\ misuse \subseteq Misuse

\* `refs` is sorted by id, without repetition, as std::lower_bound in
\* disconnect needs it, whatever was connected and disconnected before.
SortedById ==
  /\ \A i \in DOMAIN refs: refs[i].id \in 1..curr_id
  /\ \A i, j \in DOMAIN refs: i < j => refs[i].id < refs[j].id

\* Each connection owns a registry reference that is live and its own; so does
\* each slot a fire has yet to read, although its connection may have left
\* `refs` since: fire never calls a function that was not connected.
RefsOwned ==
  /\ \A i, j \in DOMAIN refs: refs[i].ref = refs[j].ref => i = j
  /\ \A i \in DOMAIN refs: registry[refs[i].ref] # Nil
  /\ alive # "destroyed" =>
       \A k \in FireFrames: \A n \in stack[k].cursor..stack[k].stop:
         registry[Slots(stack[k])[n].ref] # Nil

\* A fire during which nothing is disconnected returns when it has called
\* exactly the connections that were there when it began, in order and once
\* each, although handlers connect others, fire the event again, or make the
\* vector reallocate.
FireExact ==
  [][EndFire /\ Top.clean => Top.called = Top.start]_vars

\* A handler that disconnects itself while it runs is not called again by the
\* same fire (the coroutine that it resumes waits for something else by then).
SelfDisconnectIsFinal ==
  \A k \in FireFrames: \A m, n \in DOMAIN stack[k].called:
    m < n /\ stack[k].called[m].id \in stack[k].left => stack[k].called[n].id # stack[k].called[m].id

\* Undefined behaviour is reached only where scripts let the vector reallocate or
\* the event be destroyed under a fire, let a handler fail with an error that has
\* no text, use the event from another thread than its creator (to connect, to
\* fire, or to disconnect what is not connected), or let that thread be freed
\* before the event. Whatever else they do is safe: nested fires, handlers that
\* fail, disconnects of any connection by any handler, of a connected one by any
\* thread, and events that are forgotten. (Arguments have the types that
\* Halia.core.d.luau declares, and fit into the C stack that Luau guarantees.)
SafeUse == pc = "undefined" => misuse # {}

\* Handlers are called with the arguments that were given to fire.
HandlersGetArgs == pc = "lua" /\ stack # <<>> /\ Top.kind = "fire" => Top.args = "given"
============================================================================
