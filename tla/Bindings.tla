------------------------------ MODULE Bindings ------------------------------
(***************************************************************************)
(* Where scripts make C++ objects: by the functions in the tables under    *)
(* `std`, and by the methods, fields and operators of objects they have.   *)
(* Objects are made in the core library's image. What a use gives beside   *)
(* an object is abstracted, and so is which name selects which use; a use  *)
(* that makes no object changes nothing here. Arguments are well formed,   *)
(* and what the operating system refuses, save the start of a child        *)
(* process, is refused before an object is made.                           *)
(***************************************************************************)
EXTENDS Userdata

CONSTANT Core  \* the image of the core library, which holds all bindings

ASSUME CoreAssumption == Core \in Image

----------------------------------------------------------------------------
(* The types of the objects that uses of an object make *)

PathMakes == {"Path"}             \* stem, parent_path, `/` and the like
DirectoryEntryMakes == {"Path"}   \* file_path
Vector2Makes == {"Vector2"}
Vector3Makes == {"Vector3"}       \* abs makes one, too, and returns nothing

\* `*` takes a matrix or a vector; no script gets hold of a DynamicVector,
\* and with anything else the operator returns nothing.
Matrix3Makes == {"Matrix3", "Vector3"}

ChildProcessMakes == {"ProcessID"}
EventMakes == {"EventConnection"}

Makes ==
  [ Path |-> PathMakes, DirectoryEntry |-> DirectoryEntryMakes, Vector2 |-> Vector2Makes,
    Vector3 |-> Vector3Makes, Matrix3 |-> Matrix3Makes, ChildProcess |-> ChildProcessMakes,
    Event |-> EventMakes ]

----------------------------------------------------------------------------
(* The types of the objects that the members of the tables under `std` make *)

\* Listing a directory makes its entries one by one.
FsMakes == {"Path", "DirectoryEntry"}
MathMakes == {"Vector2", "Vector3", "Matrix3"}
ProcessMakes == {"ExecutionFeedback", "ChildProcess"}

StdMakes == [fs |-> FsMakes, math |-> MathMakes, process |-> ProcessMakes, Event |-> {"Event"}]

----------------------------------------------------------------------------
(* What scripts do *)

\* A script holds the object; the binding's check<t>, a step Ask of its own,
\* has given t its tag.
Held(o) == object[o] # Free /\ object[o].made /\ tag[Core][object[o].type] # nulltag

UseObject(o) ==
  /\ Held(o) /\ object[o].type \in DOMAIN Makes
  /\ \E t \in Makes[object[o].type] \intersect Type, r \in Object: Create(Core, t, r)

\* Boost's child is constructed in place, and throws if the program cannot be run.
CallMember(m) ==
  \E t \in StdMakes[m] \intersect Type, r \in Object: Create(Core, t, r) \/ CreateThrows(Core, t, r)

Script ==
  \/ \E o \in Object: UseObject(o)
  \/ \E m \in DOMAIN StdMakes: CallMember(m)
=============================================================================
