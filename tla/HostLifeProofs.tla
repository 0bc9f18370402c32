---------------------------- MODULE HostLifeProofs ----------------------------
(***************************************************************************)
(* Theorems about userdata, and about the life of the host that holds      *)
(* them. The first part is about Userdata alone: the tags tell the types   *)
(* apart and fit into Luau's tables, and every constructed object meets    *)
(* its destructor, for any number of types, images and objects. The second *)
(* is about HostLife, for any number of Luau states: what is static        *)
(* belongs to the state in which scripts run, and undefined behaviour has  *)
(* one of three causes. What is shown of tags and objects holds there as   *)
(* well, since every step of a host is a step of Userdata or leaves tags   *)
(* and objects alone.                                                      *)
(***************************************************************************)
EXTENDS HostLife, FiniteSetTheorems, TLAPS

----------------------------------------------------------------------------
(* Userdata: the inductive invariant *)

Tagged == {t \in Type: type_registry[t] # nulltag}

\* Tags were given out in order, none is held by two types, and an image that
\* knows the tag of a type knows the registry's.
Below == \A t \in Type: type_registry[t] = nulltag \/ type_registry[t] < unique_tag_incr
Distinct == \A t, u \in Tagged: type_registry[t] = type_registry[u] => t = u
Agreed == \A i \in Image, t \in Type: tag[i][t] \in {nulltag, type_registry[t]}
Counted == unique_tag_incr = Cardinality(Tagged)

TagInv == Below /\ Distinct /\ Agreed /\ Counted

\* Every object bears its type's tag, and that tag's destructor is known if
\* anything was constructed.
Stamped ==
  \A o \in Object: object[o] # Free =>
    object[o].type \in Tagged /\ object[o].tag = type_registry[object[o].type]
Known ==
  /\ \A o \in Object: object[o] # Free /\ object[o].made => object[o].tag \in udatagc
  /\ ~leaked

IInv == TypeOK /\ TagInv /\ Stamped /\ Known

\* A userdata is a record with these three fields.
LEMMA UserdataFields ==
  ASSUME NEW d \in Userdata
  PROVE  d.type \in Type /\ d.tag \in Nat /\ d.made \in BOOLEAN /\ d # Free
  BY FreeAssumption DEF Userdata

\* Of a finite set of types, those with a tag are finitely many, too.
LEMMA TaggedFinite == IsFiniteSet(Tagged) /\ Cardinality(Tagged) <= Cardinality(Type)
  <1>1. Tagged \subseteq Type
    BY DEF Tagged
  <1> QED
    BY <1>1, TypeAssumption, FS_Subset

TagTypes ==
  /\ tag \in [Image -> [Type -> Nat \union {nulltag}]]
  /\ type_registry \in [Type -> Nat \union {nulltag}]
  /\ unique_tag_incr \in Nat

\* type_tag (type_utils.hpp:14-26) leaves the registry sound, gives the type a
\* tag that the image then knows, and changes no tag that was given out.
LEMMA TypeTagKeeps ==
  ASSUME TagTypes, TagInv, NEW i \in Image, NEW t \in Type, TypeTag(i, t)
  PROVE  /\ TagTypes' /\ TagInv'
         /\ t \in Tagged' /\ tag'[i][t] = type_registry'[t]
         /\ \A u \in Tagged: u \in Tagged' /\ type_registry'[u] = type_registry[u]
  <1>1. CASE tag[i][t] # nulltag /\ UNCHANGED tags
    <2>1. TagTypes' /\ TagInv' /\ Tagged' = Tagged
      BY <1>1 DEF TagTypes, TagInv, Below, Distinct, Agreed, Counted, Tagged, tags
    <2>2. tag[i][t] = type_registry[t]
      BY <1>1 DEF TagInv, Agreed
    <2> QED
      BY <1>1, <2>1, <2>2 DEF tags, Tagged
  <1>2. CASE tag[i][t] = nulltag /\ Register(t) /\ tag' = [tag EXCEPT ![i][t] = type_registry'[t]]
    <2>1. CASE type_registry[t] # nulltag /\ UNCHANGED <<type_registry, unique_tag_incr>>
      <3>1. TagTypes' /\ tag'[i][t] = type_registry'[t]
        BY <1>2, <2>1 DEF TagTypes
      <3>2. Tagged' = Tagged /\ t \in Tagged
        BY <2>1 DEF Tagged
      <3>3. Agreed'
        BY <1>2, <2>1 DEF TagTypes, TagInv, Agreed
      <3>4. Below' /\ Distinct' /\ Counted'
        BY <2>1, <3>2 DEF TagInv, Below, Distinct, Counted
      <3> QED
        BY <2>1, <3>1, <3>2, <3>3, <3>4 DEF TagInv
    <2>2. CASE /\ type_registry[t] = nulltag
               /\ type_registry' = [type_registry EXCEPT ![t] = unique_tag_incr]
               /\ unique_tag_incr' = unique_tag_incr + 1
      <3>1. unique_tag_incr # nulltag
        BY DEF TagTypes, nulltag
      <3>2. TagTypes' /\ tag'[i][t] = type_registry'[t] /\ type_registry'[t] = unique_tag_incr
        BY <1>2, <2>2 DEF TagTypes
      <3>3. \A u \in Type: u # t => type_registry'[u] = type_registry[u]
        BY <2>2 DEF TagTypes
      <3>4. Tagged' = Tagged \union {t} /\ t \notin Tagged
        BY <2>2, <3>1, <3>2, <3>3 DEF Tagged
      <3>5. Below'
        BY <2>2, <3>2, <3>3 DEF TagTypes, TagInv, Below
      <3>6. Distinct'
        BY <3>2, <3>3, <3>4 DEF TagTypes, TagInv, Below, Distinct, Tagged
      <3>7. Agreed'
        BY <1>2, <2>2, <3>3 DEF TagTypes, TagInv, Agreed
      <3>8. Counted'
        BY <2>2, <3>4, TaggedFinite, FS_AddElement DEF TagInv, Counted
      <3>9. \A u \in Tagged: u \in Tagged' /\ type_registry'[u] = type_registry[u]
        BY <3>3, <3>4 DEF Tagged
      <3> QED
        BY <3>2, <3>4, <3>5, <3>6, <3>7, <3>8, <3>9 DEF TagInv
    <2> QED
      BY <1>2, <2>1, <2>2 DEF Register
  <1> QED
    BY <1>1, <1>2 DEF TypeTag

\* No type has a tag at first, and there are no objects.
LEMMA InitInv == Init => IInv
  <1> SUFFICES ASSUME Init PROVE IInv
    OBVIOUS
  <1>1. Tagged = {}
    BY DEF Init, Tagged
  <1>2. TypeOK
    BY DEF Init, TypeOK
  <1>3. TagInv
    BY <1>1, FS_EmptySet DEF Init, TagInv, Below, Distinct, Agreed, Counted
  <1>4. Stamped /\ Known
    BY DEF Init, Stamped, Known
  <1> QED
    BY <1>2, <1>3, <1>4 DEF IInv

\* A new object at o, with the tag that type_tag just gave, keeps the objects
\* sound: Create and CreateThrows differ in what they construct only.
LEMMA NewObject ==
  ASSUME IInv, NEW i \in Image, NEW t \in Type, NEW o \in Object, TypeTag(i, t),
         NEW made \in BOOLEAN,
         object' = [object EXCEPT ![o] = [type |-> t, tag |-> tag'[i][t], made |-> made]],
         udatagc \subseteq udatagc', udatagc' \subseteq udatagc \union {tag'[i][t]},
         made => tag'[i][t] \in udatagc',
         UNCHANGED <<leaked, overrun>>
  PROVE  IInv'
  <1>1. /\ TagTypes' /\ TagInv' /\ t \in Tagged' /\ tag'[i][t] = type_registry'[t]
        /\ \A u \in Tagged: u \in Tagged' /\ type_registry'[u] = type_registry[u]
    BY TypeTagKeeps DEF IInv, TypeOK, TagTypes
  <1>2. tag'[i][t] \in Nat
    BY <1>1 DEF TagTypes, Tagged
  <1>3. [type |-> t, tag |-> tag'[i][t], made |-> made] \in Userdata
    BY <1>2 DEF Userdata
  <1>4. TypeOK'
    BY <1>1, <1>2, <1>3 DEF IInv, TypeOK, TagTypes
  <1>5. \A p \in Object: p # o => object'[p] = object[p]
    BY DEF IInv, TypeOK
  <1>6. object'[o] = [type |-> t, tag |-> tag'[i][t], made |-> made]
    BY DEF IInv, TypeOK
  <1>7. Stamped'
    BY <1>1, <1>5, <1>6 DEF IInv, Stamped
  <1>8. Known'
    BY <1>5, <1>6 DEF IInv, Known
  <1> QED
    BY <1>1, <1>4, <1>7, <1>8 DEF IInv

\* Every step of the bindings and of the collector keeps the invariant.
LEMMA StepInv == IInv /\ [Next]_vars => IInv'
  <1> SUFFICES ASSUME IInv, [Next]_vars PROVE IInv'
    OBVIOUS
  <1>1. ASSUME NEW i \in Image, NEW t \in Type, Ask(i, t) PROVE IInv'
    <2>1. /\ TagTypes' /\ TagInv'
          /\ \A u \in Tagged: u \in Tagged' /\ type_registry'[u] = type_registry[u]
      BY <1>1, TypeTagKeeps DEF Ask, IInv, TypeOK, TagTypes
    <2> QED
      BY <1>1, <2>1 DEF Ask, heap, IInv, TypeOK, TagTypes, Stamped, Known
  <1>2. ASSUME NEW i \in Image, NEW t \in Type, NEW o \in Object, Create(i, t, o) PROVE IInv'
    <2>1. udatagc \subseteq udatagc' /\ tag'[i][t] \in udatagc'
      BY <1>2 DEF Create
    <2> QED
      BY <1>2, <2>1, NewObject DEF Create
  <1>3. ASSUME NEW i \in Image, NEW t \in Type, NEW o \in Object, CreateThrows(i, t, o)
        PROVE  IInv'
    BY <1>3, NewObject DEF CreateThrows
  <1>4. ASSUME NEW o \in Object, Collect(o) PROVE IInv'
    <2>1. ~Leaks(o)
      BY DEF IInv, Known, Leaks
    <2>2. TypeOK' /\ TagInv' /\ Tagged' = Tagged
      BY <1>4 DEF Collect, tags, IInv, TypeOK, TagInv, Below, Distinct, Agreed, Counted, Tagged
    <2>3. \A p \in Object: object'[p] \in {object[p], Free}
      BY <1>4 DEF Collect, IInv, TypeOK
    <2>4. Stamped'
      BY <1>4, <2>2, <2>3 DEF Collect, tags, IInv, Stamped
    <2>5. ~leaked'
      BY <1>4, <2>1, Zenon DEF Collect, IInv, Known
    <2>6. Known'
      BY <1>4, <2>3, <2>5 DEF Collect, IInv, Known
    <2> QED
      BY <2>2, <2>4, <2>6 DEF IInv
  <1>5. CASE Reopen
    <2>1. \A o \in Object: ~Leaks(o)
      BY DEF IInv, Known, Leaks
    <2>2. TypeOK' /\ TagInv'
      BY <1>5 DEF Reopen, tags, IInv, TypeOK, TagInv, Below, Distinct, Agreed, Counted, Tagged
    <2>3. \A o \in Object: object'[o] = Free
      BY <1>5 DEF Reopen
    <2>4. ~leaked'
      BY <1>5, <2>1 DEF Reopen, IInv, Known
    <2> QED
      BY <2>2, <2>3, <2>4 DEF IInv, Stamped, Known
  <1>6. CASE UNCHANGED vars
    BY <1>6 DEF vars, tags, heap, IInv, TypeOK, TagInv, Below, Distinct, Agreed, Counted,
                Tagged, Stamped, Known
  <1> QED
    BY <1>1, <1>2, <1>3, <1>4, <1>5, <1>6 DEF Next, Step

THEOREM Invariance == Spec => []IInv
  BY InitInv, StepInv, PTL DEF Spec

\* Tags, registry and objects always have the values the code can give them
\* (type_utils.hpp:14-61).
THEOREM TypeCorrect == Spec => []TypeOK
  <1>1. IInv => TypeOK
    BY DEF IInv
  <1> QED
    BY <1>1, Invariance, PTL

\* is_type (type_utils.hpp:27-33) holds of an object for the type it was created
\* with and no other, whatever images created it and ask.
THEOREM NeverConfused == Spec => []TypesNeverConfused
  <1>1. ASSUME IInv PROVE TypesNeverConfused
    <2> SUFFICES ASSUME NEW o \in Object, NEW i \in Image, NEW t \in Type,
                        object[o] # Free, tag[i][t] # nulltag
                 PROVE  object[o].tag = tag[i][t] <=> object[o].type = t
      BY DEF TypesNeverConfused
    <2>3. object[o].type \in Tagged /\ object[o].tag = type_registry[object[o].type]
      BY <1>1 DEF IInv, Stamped
    <2>4. tag[i][t] = type_registry[t] /\ t \in Tagged
      BY <1>1 DEF IInv, TagInv, Agreed, Tagged
    <2> QED
      BY <1>1, <2>3, <2>4 DEF IInv, TagInv, Distinct
  <1> QED
    BY <1>1, Invariance, PTL

\* The counter of type_utils.hpp:22 gives out no tag that Luau's tables have no
\* room for, as long as they have room for as many tags as there are types.
THEOREM TagsAlwaysFit == Spec => []TagsFit
  <1>1. ASSUME IInv PROVE TagsFit
    <2> SUFFICES ASSUME NEW i \in Image, NEW t \in Type PROVE tag[i][t] < TagLimit
      BY DEF TagsFit
    <2>2. unique_tag_incr <= TagLimit /\ 0 <= TagLimit
      <3>1. Cardinality(Tagged) \in Nat /\ Cardinality(Type) \in Nat
        BY TaggedFinite, TypeAssumption, FS_CardinalityType
      <3> QED
        BY <1>1, <3>1, TaggedFinite, LimitAssumption DEF IInv, TagInv, Counted
    <2>3. CASE tag[i][t] = nulltag
      BY <2>2, <2>3, LimitAssumption DEF nulltag
    <2>4. CASE tag[i][t] = type_registry[t] /\ tag[i][t] # nulltag
      BY <1>1, <2>2, <2>4, LimitAssumption DEF IInv, TypeOK, TagInv, Below
    <2> QED
      BY <1>1, <2>3, <2>4 DEF IInv, TagInv, Agreed
  <1> QED
    BY <1>1, Invariance, PTL

\* No constructed object is freed without its destructor: create
\* (type_utils.hpp:40-51) sets it whenever it makes an object, however long the
\* type has had its tag.
THEOREM DestroyedAlways == Spec => []Destroyed
  <1>1. IInv => Destroyed
    BY DEF IInv, Known, Destroyed
  <1> QED
    BY <1>1, Invariance, PTL

----------------------------------------------------------------------------
(* The life of a host: the inductive invariant *)

Phase == {"host", "init", "lua", "exit", "over", "terminated", "undefined"}

\* Nothing static has been touched while there is no cache of libraries.
Fresh == cache = 0 => loaded = {} /\ events = 0 /\ anchors = 0

\* init runs in a new state; either it is the first one, or nothing can be registered in it.
InInit ==
  phase = "init" =>
    /\ state > 0 /\ ~ready /\ std \subseteq Libraries /\ std \subseteq cached
    /\ cache # state => std = {}
    /\ cache \in {0, state} => events = 0 /\ anchors = 0

\* After an init, and before the first, the latest state is the one that is used.
AtHome ==
  phase \in {"host", "lua"} =>
    /\ cache = state /\ events \in {0, state} /\ anchors \in {0, state}
    /\ state > 0 => std = Libraries \union Functions /\ Libraries \subseteq cached
    /\ ready => state > 0 /\ main = state

\* The references in fixed_refs are released before their state is closed.
InOrder ==
  /\ phase = "exit" => anchors \in {0, state}
  /\ EndsInOrder

HomeInv ==
  /\ phase \in Phase /\ state \in Nat /\ cache \in Nat
  /\ Fresh /\ InInit /\ AtHome /\ InOrder
  /\ phase = "lua" => ready

LEMMA SomeLibrary == "fs" \in Libraries
  BY DEF Libraries, Library

LEMMA HomeInit == HostInit => HomeInv
  BY DEF HostInit, HomeInv, Fresh, InInit, AtHome, InOrder, EndsInOrder, Phase

LEMMA OpenInv == ASSUME HomeInv, Open PROVE HomeInv'
  <1>1. /\ phase = "host" /\ state' = state + 1 /\ cached' = {} /\ std' = {} /\ ready' = FALSE
        /\ (phase' = "init" \/ (phase' = "undefined" /\ events # 0))
        /\ UNCHANGED <<loaded, cache, events, main, anchors, orphaned>>
    BY DEF Open, CloseState, statics
  <1>2. state \in Nat /\ cache = state /\ state' # state /\ state' > 0
    BY <1>1 DEF HomeInv, AtHome
  <1> QED
    BY <1>1, <1>2 DEF HomeInv, Fresh, InInit, AtHome, InOrder, EndsInOrder, Phase

LEMMA RegisterInv == ASSUME HomeInv, NEW l \in Libraries, RegisterLibrary(l) PROVE HomeInv'
  <1>1. /\ phase = "init" /\ cache \in {0, state} /\ cache' = state
        /\ std' = std \union {l} /\ cached' = cached \union {l}
        /\ UNCHANGED <<phase, state, ready, main, events, anchors, orphaned>>
    BY DEF RegisterLibrary
  <1>2. state \in Nat /\ state > 0 /\ events = 0 /\ anchors = 0
    BY <1>1 DEF HomeInv, InInit
  <1> QED
    BY <1>1, <1>2 DEF HomeInv, Fresh, InInit, AtHome, InOrder, EndsInOrder, Phase

LEMMA LoadInv == ASSUME HomeInv, NEW ok \in BOOLEAN, Load(ok) PROVE HomeInv'
  <1>1. /\ phase = "init" /\ Libraries \subseteq std /\ std' = std \union Functions
        /\ ready' = ok /\ main' = (IF ok THEN state ELSE main) /\ phase' = "host"
        /\ UNCHANGED <<state, loaded, cache, events, cached, anchors, orphaned>>
    BY DEF Load, statics
  <1>2. /\ state \in Nat /\ state > 0 /\ std = Libraries /\ Libraries \subseteq cached /\ cache = state
        /\ events = 0 /\ anchors = 0
    BY <1>1, SomeLibrary DEF HomeInv, InInit
  <1> QED
    BY <1>1, <1>2 DEF HomeInv, Fresh, InInit, AtHome, InOrder, EndsInOrder, Phase

LEMMA ReturnInv == ASSUME HomeInv, NEW c, Return(c) PROVE HomeInv'
  <1>1. /\ phase = "lua" /\ phase' = "host" /\ anchors' \in {0, state}
        /\ UNCHANGED <<state, loaded, cache, events, cached, std, ready, main>>
    BY DEF Return, statics
  <1>2. ready /\ state > 0 /\ cache = state
    BY <1>1 DEF HomeInv, AtHome
  <1> QED
    BY <1>1, <1>2 DEF HomeInv, Fresh, InInit, AtHome, InOrder, EndsInOrder, Phase

LEMMA NewEventInv == ASSUME HomeInv, NewEvent PROVE HomeInv'
  <1>1. /\ phase = "lua" /\ events' = (IF events = 0 THEN state ELSE events)
        /\ UNCHANGED <<phase, state, loaded, cache, cached, std, ready, main, anchors, orphaned>>
    BY DEF NewEvent
  <1>2. ready /\ state > 0 /\ cache = state /\ events' \in {0, state}
    BY <1>1 DEF HomeInv, AtHome
  <1> QED
    BY <1>1, <1>2 DEF HomeInv, Fresh, InInit, AtHome, InOrder, EndsInOrder, Phase

\* The static objects of co_tasks.cpp go first: what they refer to is there,
\* unless it was freed earlier.
LEMMA EndInv == ASSUME HomeInv, Release \/ Close \/ Over PROVE HomeInv'
  <1>1. CASE Release
    <2>1. /\ phase = "exit" /\ anchors' = 0 /\ anchors # 0
          /\ (phase' = phase \/ (phase' = "undefined" /\ (anchors # state \/ orphaned)))
          /\ UNCHANGED <<state, loaded, cache, events, cached, std, ready, main, orphaned>>
      BY <1>1 DEF Release, statics
    <2>2. anchors = state
      BY <2>1 DEF HomeInv, InOrder
    <2> QED
      BY <2>1, <2>2 DEF HomeInv, Fresh, InInit, AtHome, InOrder, EndsInOrder, Phase
  <1>2. CASE Close
    <2>1. /\ phase = "exit" /\ anchors = 0 /\ state' = 0
          /\ (phase' = phase \/ (phase' = "undefined" /\ events # 0))
          /\ UNCHANGED <<loaded, cache, events, cached, std, ready, main, anchors, orphaned>>
      BY <1>2 DEF Close, CloseState, CoTasksFirst, statics
    <2> QED
      BY <2>1 DEF HomeInv, Fresh, InInit, AtHome, InOrder, EndsInOrder, Phase
  <1>3. CASE Over
    BY <1>3 DEF Over, statics, HomeInv, Fresh, InInit, AtHome, InOrder, EndsInOrder, Phase
  <1> QED
    BY <1>1, <1>2, <1>3

\* The rest changes neither states nor statics, but for what is cached.
LEMMA PhaseInv ==
  ASSUME HomeInv, cached \subseteq cached',
         UNCHANGED <<state, loaded, cache, events, std, ready, main, anchors, orphaned>>,
         \/ phase' = phase
         \/ phase = "host" /\ phase' \in {"exit", "terminated"}
         \/ phase = "init" /\ phase' = "terminated"
         \/ phase = "host" /\ phase' = "lua" /\ ready
         \/ phase = "host" /\ phase' = "undefined" /\ state = 0
  PROVE  HomeInv'
  BY DEF HomeInv, Fresh, InInit, AtHome, InOrder, EndsInOrder, Phase

LEMMA HomeStep == HomeInv /\ [HostNext]_lifeVars => HomeInv'
  <1>. SUFFICES ASSUME HomeInv, [HostNext]_lifeVars PROVE HomeInv'
    OBVIOUS
  <1>1. ASSUME NEW l \in Libraries, RegisterStale(l) PROVE HomeInv'
    BY <1>1, PhaseInv DEF RegisterStale, statics
  <1>2. ASSUME NEW l \in Extra, AddLibrary(l) \/ AddLibraryEarly(l) PROVE HomeInv'
    BY <1>2, PhaseInv DEF AddLibrary, AddLibraryEarly, statics
  <1>3. CASE LoadFails \/ Start \/ Lua \/ Exit \/ Ended
    BY <1>3, PhaseInv DEF LoadFails, Start, Lua, Exit, Ended, lifeVars, hostVars, statics
  <1>4. CASE UNCHANGED lifeVars
    BY <1>4, PhaseInv DEF lifeVars, hostVars
  <1> QED
    BY <1>1, <1>2, <1>3, <1>4, OpenInv, RegisterInv, LoadInv, ReturnInv, NewEventInv, EndInv DEF HostNext

LEMMA HomeInvariant == HostSpec => []HomeInv
  BY HomeInit, HomeStep, PTL DEF HostSpec

----------------------------------------------------------------------------
(* Theorems *)

\* Scripts run only where everything static is of their own state, and with all of `std`.
THEOREM AlwaysAtHome == HostSpec => []ScriptsAreAtHome
  <1>1. HomeInv => ScriptsAreAtHome
    BY DEF HomeInv, AtHome, ScriptsAreAtHome
  <1> QED
    BY <1>1, HomeInvariant, PTL

\* A process ends in undefined behaviour only if the host added a library before any init, if
\* scripts made events (Event.cpp:14-18), or if a reference outlived the coroutine it was made in
\* (co_tasks.cpp:26-27): static objects are destroyed in an order that adds no fourth cause.
THEOREM AlwaysInOrder == HostSpec => []EndsInOrder
  <1>1. HomeInv => EndsInOrder
    BY DEF HomeInv, InOrder
  <1> QED
    BY <1>1, HomeInvariant, PTL

\* What scripts make, the core library creates.
LEMMA ScriptStep == Script => [Next]_vars
  <1>1. ASSUME NEW o \in Object, UseObject(o) PROVE [Next]_vars
    BY <1>1, CoreAssumption DEF UseObject, Next, Step
  <1>2. ASSUME NEW m, CallMember(m) PROVE [Next]_vars
    BY <1>2, CoreAssumption DEF CallMember, Next, Step
  <1> QED
    BY <1>1, <1>2 DEF Script

\* To tags and objects a host, its libraries and its scripts do nothing but what Userdata says.
THEOREM HostKeepsUserdata == HostSpec => Spec
  <1>1. HostInit => Init
    BY DEF HostInit
  <1>2. [HostNext]_lifeVars => [Next]_vars
    <2>. SUFFICES ASSUME [HostNext]_lifeVars PROVE [Next]_vars
      OBVIOUS
    <2>1. ASSUME NEW l \in Libraries, RegisterLibrary(l) \/ RegisterStale(l) PROVE [Next]_vars
      BY <2>1, CoreAssumption DEF RegisterLibrary, RegisterStale, RunLoader, Next, Step
    <2>2. CASE Open \/ Close
      BY <2>2 DEF Open, Close, Next
    <2>3. CASE Lua
      BY <2>3, ScriptStep DEF Lua, Next
    <2>4. ASSUME NEW l \in Extra, AddLibrary(l) \/ AddLibraryEarly(l) PROVE [Next]_vars
      BY <2>4 DEF AddLibrary, AddLibraryEarly
    <2>5. ASSUME NEW ok \in BOOLEAN, Load(ok) PROVE [Next]_vars
      BY <2>5 DEF Load
    <2>6. ASSUME NEW c \in {0, -2}, Return(c) PROVE [Next]_vars
      BY <2>6 DEF Return
    <2>7. CASE LoadFails \/ Start \/ NewEvent \/ Exit \/ Release \/ Over \/ Ended
      BY <2>7 DEF LoadFails, Start, NewEvent, Exit, Release, Over, Ended, lifeVars
    <2>8. CASE UNCHANGED lifeVars
      BY <2>8 DEF lifeVars
    <2> QED
      BY <2>1, <2>2, <2>3, <2>4, <2>5, <2>6, <2>7, <2>8 DEF HostNext
  <1> QED
    BY <1>1, <1>2, PTL DEF HostSpec, Spec

\* In the whole life of a host, no object is taken for one of another type,
\* none is freed undestroyed, and the tags fit.
THEOREM HostObjectsAreSound == HostSpec => [](TypesNeverConfused /\ TagsFit /\ Destroyed)
  BY HostKeepsUserdata, NeverConfused, TagsAlwaysFit, DestroyedAlways, PTL

=============================================================================
