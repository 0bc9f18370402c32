------------------------------ MODULE Userdata ------------------------------
(***************************************************************************)
(* How C++ objects live in Luau: the tags that tell types apart, which are *)
(* given out on first use by a registry that every image of the process    *)
(* (the core library, the program, plugins) shares; the userdata that      *)
(* halia::create makes; and the destructors that Luau's collector runs.    *)
(***************************************************************************)
EXTENDS Integers, FiniteSets

CONSTANTS
  Type,      \* the C++ types bound to Luau
  Image,     \* the images of the process that instantiate the templates
  Object,    \* addresses of userdata
  Free,      \* "no userdata lies here"
  Fallible,  \* the types with a constructor that may throw
  TagLimit   \* LUA_UTAG_LIMIT: the tags Luau has room for

nulltag == -1

Userdata == [type: Type, tag: Nat, made: BOOLEAN]

ASSUME TypeAssumption == IsFiniteSet(Type) /\ Fallible \subseteq Type
ASSUME LimitAssumption == TagLimit \in Nat /\ Cardinality(Type) <= TagLimit
ASSUME FreeAssumption == Free \notin Userdata

VARIABLES
  tag,              \* type_tag's static local, one per type and image
  type_registry,    \* the tag of each type, nulltag where there is none
  unique_tag_incr,  \* the next tag
  udatagc,          \* the tags for which this Luau state knows a destructor
  object,           \* the userdata, with the type they were created for
  leaked,           \* history: an object was freed and not destroyed
  overrun           \* history: a destructor ran where no object was constructed

tags == <<tag, type_registry, unique_tag_incr>>
heap == <<udatagc, object, leaked, overrun>>
vars == <<tags, heap>>

Init ==
  /\ tag = [i \in Image |-> [t \in Type |-> nulltag]]
  /\ type_registry = [t \in Type |-> nulltag] /\ unique_tag_incr = 0
  /\ udatagc = {} /\ object = [o \in Object |-> Free]
  /\ leaked = FALSE /\ overrun = FALSE

----------------------------------------------------------------------------
(* Tags *)

\* Mutant: an image does not look for a type that another one registered.
RegisterAlways(t) ==
  /\ type_registry' = [type_registry EXCEPT ![t] = unique_tag_incr]
  /\ unique_tag_incr' = unique_tag_incr + 1

\* The entry of a type in the registry, made unless there is one.
Register(t) ==
  \/ type_registry[t] # nulltag /\ UNCHANGED <<type_registry, unique_tag_incr>>
  \/ /\ type_registry[t] = nulltag
     /\ type_registry' = [type_registry EXCEPT ![t] = unique_tag_incr]
     /\ unique_tag_incr' = unique_tag_incr + 1

\* type_tag<t>() in image i: afterwards tag[i][t] is the tag.
TypeTag(i, t) ==
  \/ tag[i][t] # nulltag /\ UNCHANGED tags
  \/ /\ tag[i][t] = nulltag
     /\ Register(t)
     /\ tag' = [tag EXCEPT ![i][t] = type_registry'[t]]

\* is_type and check: they compare the tag of a value with that of a type.
Ask(i, t) == TypeTag(i, t) /\ UNCHANGED heap

----------------------------------------------------------------------------
(* Objects *)

\* Mutant: the destructor is set when the type gets its tag.
CreateSetsOnce(i, t, o) ==
  /\ object[o] = Free
  /\ TypeTag(i, t)
  /\ object' = [object EXCEPT ![o] = [type |-> t, tag |-> tag'[i][t], made |-> TRUE]]
  /\ udatagc' = IF type_registry[t] = nulltag THEN udatagc \union {tag'[i][t]} ELSE udatagc
  /\ UNCHANGED <<leaked, overrun>>

\* create, and create_raw with the assignment that follows: Luau allocates,
\* the constructor runs in place, and the destructor of the tag is set.
Create(i, t, o) ==
  /\ object[o] = Free
  /\ TypeTag(i, t)
  /\ object' = [object EXCEPT ![o] = [type |-> t, tag |-> tag'[i][t], made |-> TRUE]]
  /\ udatagc' = udatagc \union {tag'[i][t]}
  /\ UNCHANGED <<leaked, overrun>>

\* The constructor throws: the userdata stays, with nothing in it.
CreateThrows(i, t, o) ==
  /\ t \in Fallible /\ object[o] = Free
  /\ TypeTag(i, t)
  /\ object' = [object EXCEPT ![o] = [type |-> t, tag |-> tag'[i][t], made |-> FALSE]]
  /\ UNCHANGED <<udatagc, leaked, overrun>>

Leaks(o) == object[o] # Free /\ object[o].made /\ object[o].tag \notin udatagc
Overruns(o) == object[o] # Free /\ ~object[o].made /\ object[o].tag \in udatagc

\* The collector frees a userdata that scripts have dropped.
Collect(o) ==
  /\ object[o] # Free
  /\ object' = [object EXCEPT ![o] = Free]
  /\ leaked' = (leaked \/ Leaks(o)) /\ overrun' = (overrun \/ Overruns(o))
  /\ UNCHANGED <<tags, udatagc>>

\* lua_close frees everything; init then opens a state that knows no
\* destructor, while the tags, which are static, stay.
Reopen ==
  /\ object' = [o \in Object |-> Free]
  /\ leaked' = (leaked \/ \E o \in Object: Leaks(o))
  /\ overrun' = (overrun \/ \E o \in Object: Overruns(o))
  /\ udatagc' = {}
  /\ UNCHANGED tags

Step ==
  \/ \E i \in Image, t \in Type:
       \/ Ask(i, t)
       \/ \E o \in Object: Create(i, t, o) \/ CreateThrows(i, t, o)
  \/ \E o \in Object: Collect(o)

Next == Step \/ Reopen

Spec == Init /\ [][Next]_vars

----------------------------------------------------------------------------
(* Properties *)

\* Every variable has its type.
TypeOK ==
  /\ tag \in [Image -> [Type -> Nat \union {nulltag}]]
  /\ type_registry \in [Type -> Nat \union {nulltag}]
  /\ unique_tag_incr \in Nat /\ udatagc \subseteq Nat
  /\ object \in [Object -> Userdata \union {Free}]
  /\ leaked \in BOOLEAN /\ overrun \in BOOLEAN

\* Whatever images created an object and ask for its type, in whatever order
\* the types were first used: is_type says yes for its own type only, so that
\* check never reads an object as one of another type.
TypesNeverConfused ==
  \A o \in Object, i \in Image, t \in Type:
    object[o] # Free /\ tag[i][t] # nulltag =>
      (object[o].tag = tag[i][t] <=> object[o].type = t)

\* type_tag checks no limit; the tags fit into Luau's tables nonetheless, since
\* images share them and none is given out twice or skipped.
TagsFit ==
  \A i \in Image, t \in Type: tag[i][t] < TagLimit

\* No constructed object is freed without its destructor, although a type may
\* have its tag, from is_type and check or from another image, long before the
\* first object of that type.
Destroyed == ~leaked

\* type_utils.hpp:45: the destructor is there because objects are made by
\* placement new. It should run for no userdata whose constructor threw: it
\* does if an object of the type was made before, as that set the destructor.
OnlyMadeAreDestroyed == ~overrun
=============================================================================
