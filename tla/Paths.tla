-------------------------------- MODULE Paths --------------------------------
(***************************************************************************)
(* The path arithmetic of core/etc/FileUtils.cpp on POSIX. A path is        *)
(* absolute or not, and a sequence of components as split_path returns it;  *)
(* the text between the slashes is not looked into.                         *)
(***************************************************************************)
EXTENDS Integers, Sequences, SequencesExt

\* What stands between two slashes, and what of it names a file or directory.
Component == STRING
Name == {component \in Component: component \notin {"", ".", ".."}}

Relative(comps) == [abs |-> FALSE, comps |-> comps]
Absolute(comps) == [abs |-> TRUE, comps |-> comps]

\* is_explicitly_relative
ExplicitlyRelative(path) ==
  ~path.abs /\ path.comps # <<>> /\ Head(path.comps) \in {".", ".."}

Partial(ups, comps) == [ups |-> ups, comps |-> comps]

\* The loop of resolve_path: `ups` is numPrependedParents, `comps` the
\* components of the base that the components of the path are applied to.
Apply(rooted, acc, component) ==
  CASE component = ".." /\ acc.comps = <<>> /\ ~rooted -> Partial(acc.ups + 1, acc.comps)
    [] component = ".." /\ acc.comps # <<>> /\ Last(acc.comps) # ".." -> Partial(acc.ups, Front(acc.comps))
    [] component \notin {"..", ".", ""} -> Partial(acc.ups, Append(acc.comps, component))
    [] OTHER -> acc

\* Mutant: the name of the base file is not removed.
BaseFile(path, base) == IF path.abs \/ base.comps = <<>> THEN <<>> ELSE base.comps

\* The directory of the file `base`: its components without the last one.
BaseDirectory(path, base) == IF path.abs \/ base.comps = <<>> THEN <<>> ELSE Front(base.comps)

\* The loop, after each component.
Resolution(rooted, directory, comps) ==
  LET acc[n \in 0..Len(comps)] ==
        IF n = 0 THEN Partial(0, directory) ELSE Apply(rooted, acc[n - 1], comps[n])
  IN  acc

\* resolve_path: `path`, which is relative to the file `base`.
ResolvePath(path, base) ==
  LET rooted == path.abs \/ base.abs
      end == Resolution(rooted, BaseDirectory(path, base), path.comps)[Len(path.comps)]
  IN  [abs |-> rooted, comps |-> [k \in 1..end.ups |-> ".."] \o end.comps]

\* join_paths, for paths that name something.
Join(path, name) == [abs |-> path.abs, comps |-> Append(path.comps, name)]

----------------------------------------------------------------------------
(* The reference: where a file system without symbolic links leads.        *)

Enter(directory, component) ==
  CASE component = ".." -> (IF directory = <<>> THEN <<>> ELSE Front(directory))
    [] component \in {".", ""} -> directory
    [] OTHER -> Append(directory, component)

\* The directories that a walk along the components comes through.
Walk(directory, comps) ==
  LET at[n \in 0..Len(comps)] == IF n = 0 THEN directory ELSE Enter(at[n - 1], comps[n])
  IN  at

\* The place that a path names when `cwd` is the current directory.
Place(path, cwd) == Walk(IF path.abs THEN <<>> ELSE cwd, path.comps)[Len(path.comps)]
============================================================================
