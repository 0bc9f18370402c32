---------------------------- MODULE RequireSearch ----------------------------
(***************************************************************************)
(* One require: the RequireResolver of core/etc/Require.cpp looks for the   *)
(* module beside the requiring file, in the directory of an alias, or in    *)
(* the search paths of the .luaurc files of the directory of the requiring  *)
(* file and of those above it, which it parses one at a time, on demand.    *)
(*                                                                          *)
(* Level 1 is the directory of the requiring file, Levels the root. A value *)
(* in a config is relative to its directory: <<n, v>> is what v means in    *)
(* the config of level n.                                                   *)
(***************************************************************************)
EXTENDS Integers, Sequences, FiniteSets

CONSTANTS
  Levels,    \* directories from the requiring file to the root
  Value,     \* what configs say a path or an alias is
  None,      \* "the config does not define the alias"
  Configs,   \* the contents .luaurc files may have
  Suffixes,  \* how many of possibleSuffixes a file may have
  MaxFiles   \* bound: files, on disk or cached

ASSUME LevelAssumption == Levels \in Nat /\ Suffixes \in Nat /\ MaxFiles \in Nat
ASSUME ConfigAssumption ==
  /\ None \notin Value
  /\ Configs \subseteq [paths: Seq(Value), alias: Value \union {None}, bad: BOOLEAN]

Beside == <<0, None>>
Location == {Beside} \union (1..Levels) \X Value
Suffix == 1..Suffixes
Result == [status: {"none", "cached", "file_read", "not_found", "error"},
           at: Location, suffix: 0..Suffixes]

VARIABLES
  configs,   \* the .luaurc file of each level
  files,     \* the modules on disk
  cached,    \* the modules in _MODULES
  request,   \* "relative" (./x) | "plain" (x) | "alias" (@x)
  pc,        \* "alias" | "default" | "parse" | "paths" | "done"
  target,    \* what chunkname and absolute_path stand for
  level,     \* of last_searched_dir; 0 when it is empty
  is_config_fully_resolved,
  paths,     \* config.paths, resolved
  alias,     \* config.aliases, of the alias requested
  i,         \* the index into paths
  result

given == <<configs, files, cached, request>>
parser == <<level, is_config_fully_resolved, paths, alias>>
vars == <<given, pc, target, parser, i, result>>

Init ==
  /\ configs \in [1..Levels -> Configs]
  /\ \E known \in {S \in SUBSET (Location \X Suffix): Cardinality(S) <= MaxFiles}:
       files \in SUBSET known /\ cached \in SUBSET known /\ files \union cached = known
  /\ request \in {"relative", "plain", "alias"}
  /\ pc = (IF request = "alias" THEN "alias" ELSE "default")
  /\ target = Beside /\ level = 0 /\ is_config_fully_resolved = FALSE
  /\ paths = <<>> /\ alias = None /\ i = 1
  /\ result = [status |-> "none", at |-> Beside, suffix |-> 0]

----------------------------------------------------------------------------

Stop(status, at, suffix) ==
  /\ pc' = "done" /\ result' = [status |-> status, at |-> at, suffix |-> suffix]

\* Mutant: every suffix is looked up in the cache before any file is read.
HitCacheFirst(at, s) ==
  LET hits == {t \in Suffix: <<at, t>> \in cached}
      all == {t \in Suffix: <<at, t>> \in files \union cached}
  IN  s \in (IF hits # {} THEN hits ELSE all) /\ \A t \in 1..(s - 1): t \notin hits

\* find_module_impl ends with the suffix s: the first one that is known.
Hit(at, s) ==
  /\ <<at, s>> \in files \union cached
  /\ \A t \in 1..(s - 1): <<at, t>> \notin files \union cached

Found(at) ==
  \E s \in Suffix:
    /\ Hit(at, s)
    /\ Stop(IF <<at, s>> \in cached THEN "cached" ELSE "file_read", at, s)

Missing(at) == \A s \in Suffix: <<at, s>> \notin files \union cached

\* The paths of a config, resolved in relation to its directory.
Resolved(n) == [k \in DOMAIN configs[n].paths |-> <<n, configs[n].paths[k]>>]

\* Mutant: nobody notices that there is no parent directory.
ParseForever(next) ==
  \/ /\ level < Levels /\ ~configs[level + 1].bad
     /\ level' = level + 1 /\ pc' = next
     /\ paths' = paths \o Resolved(level + 1)
     /\ alias' = IF alias = None THEN configs[level + 1].alias ELSE alias
     /\ UNCHANGED <<is_config_fully_resolved, result>>
  \/ /\ level < Levels /\ configs[level + 1].bad
     /\ level' = level + 1 /\ Stop("error", target, 0)
     /\ UNCHANGED <<is_config_fully_resolved, paths, alias>>
  \/ level = Levels /\ pc' = next /\ UNCHANGED <<parser, result>>

\* parse_next_config: the config of the next directory up, or none is left.
ParseNextConfig(next) ==
  \/ /\ level < Levels /\ ~configs[level + 1].bad
     /\ level' = level + 1 /\ pc' = next
     /\ paths' = paths \o Resolved(level + 1)
     /\ alias' = IF alias = None THEN configs[level + 1].alias ELSE alias
     /\ UNCHANGED <<is_config_fully_resolved, result>>
  \/ /\ level < Levels /\ configs[level + 1].bad
     /\ level' = level + 1 /\ Stop("error", target, 0)
     /\ UNCHANGED <<is_config_fully_resolved, paths, alias>>
  \/ /\ level = Levels
     /\ is_config_fully_resolved' = TRUE /\ pc' = next
     /\ UNCHANGED <<level, paths, alias, result>>

\* The loop of get_alias.
ParseForAlias ==
  /\ pc = "alias" /\ alias = None /\ ~is_config_fully_resolved
  /\ ParseNextConfig("alias")
  /\ UNCHANGED <<given, target, i>>

\* Mutant: the alias is resolved in the directory searched before.
SubstituteBelow ==
  /\ pc = "alias" /\ alias # None
  /\ target' = <<level - 1, alias>> /\ pc' = "default"
  /\ UNCHANGED <<given, parser, i, result>>

\* The alias is relative to last_searched_dir, the directory that defined it.
SubstituteAlias ==
  /\ pc = "alias" /\ alias # None
  /\ target' = <<level, alias>> /\ pc' = "default"
  /\ UNCHANGED <<given, parser, i, result>>

UnknownAlias ==
  /\ pc = "alias" /\ alias = None /\ is_config_fully_resolved
  /\ Stop("error", target, 0)
  /\ UNCHANGED <<given, target, parser, i>>

\* The default path: the only one, unless the request is a plain name.
FindDefault ==
  /\ pc = "default"
  /\ \/ Found(target)
     \/ Missing(target) /\ request # "plain" /\ Stop("not_found", target, 0)
     \/ Missing(target) /\ request = "plain" /\ pc' = "parse" /\ UNCHANGED result
  /\ UNCHANGED <<given, target, parser, i>>

Parse ==
  /\ pc = "parse" /\ ParseNextConfig("paths")
  /\ UNCHANGED <<given, target, i>>

\* Mutant: the next config is parsed after every path.
FindInPathsEager ==
  /\ pc = "paths" /\ i <= Len(paths)
  /\ target' = paths[i]
  /\ \/ Found(paths[i]) /\ UNCHANGED i
     \/ /\ Missing(paths[i]) /\ i' = i + 1
        /\ pc' = IF ~is_config_fully_resolved THEN "parse" ELSE "paths"
        /\ UNCHANGED result
  /\ UNCHANGED <<given, parser>>

\* Mutant: the length of paths is read before the loop.
FindInPathsOnce ==
  /\ pc = "paths" /\ i <= Len(paths)
  /\ target' = paths[i]
  /\ \/ Found(paths[i]) /\ UNCHANGED i
     \/ Missing(paths[i]) /\ i' = i + 1 /\ UNCHANGED <<pc, result>>
  /\ UNCHANGED <<given, parser>>

\* One round of the loop over paths, which a parse at its end may lengthen.
FindInPaths ==
  /\ pc = "paths" /\ i <= Len(paths)
  /\ target' = paths[i]
  /\ \/ Found(paths[i]) /\ UNCHANGED i
     \/ /\ Missing(paths[i]) /\ i' = i + 1
        /\ pc' = IF i = Len(paths) /\ ~is_config_fully_resolved THEN "parse" ELSE "paths"
        /\ UNCHANGED result
  /\ UNCHANGED <<given, parser>>

NotInPaths ==
  /\ pc = "paths" /\ i > Len(paths)
  /\ Stop("not_found", target, 0)
  /\ UNCHANGED <<given, target, parser, i>>

Done == pc = "done" /\ UNCHANGED vars

Search == ParseForAlias \/ SubstituteAlias \/ UnknownAlias \/ FindDefault \/ Parse
          \/ FindInPaths \/ NotInPaths

Next == Search \/ Done

Spec == Init /\ [][Next]_vars

\* The search is straight C++: it goes on until it returns.
FairSpec == Spec /\ WF_vars(Search)

----------------------------------------------------------------------------
(* Properties *)

TypeOK ==
  /\ configs \in [1..Levels -> Configs]
  /\ files \subseteq Location \X Suffix /\ cached \subseteq Location \X Suffix
  /\ request \in {"relative", "plain", "alias"}
  /\ pc \in {"alias", "default", "parse", "paths", "done"}
  /\ target \in Location /\ level \in 0..Levels /\ is_config_fully_resolved \in BOOLEAN
  /\ paths \in Seq(Location) /\ alias \in Value \union {None} /\ i \in Nat \ {0}
  /\ result \in Result

MissingAtLevel(n) == \A k \in DOMAIN configs[n].paths: Missing(<<n, configs[n].paths[k]>>)

\* The module found is the first that exists in the documented order: beside
\* the requiring file, then in the search paths from the nearest config to the
\* root; for an alias, where the nearest config that defines it says. What is
\* in the cache stands for its file and changes nothing in that order.
FirstWins ==
  result.status \in {"cached", "file_read"} =>
    LET n == result.at[1] IN
      /\ <<result.at, result.suffix>> \in files \union cached
      /\ \A t \in 1..(result.suffix - 1): <<result.at, t>> \notin files \union cached
      /\ result.status = "cached" <=> <<result.at, result.suffix>> \in cached
      /\ request = "relative" => n = 0
      /\ request = "alias" =>
           /\ n > 0 /\ result.at[2] = configs[n].alias
           /\ \A m \in 1..(n - 1): configs[m].alias = None
      /\ request = "plain" /\ n > 0 =>
           /\ Missing(Beside) /\ \A m \in 1..(n - 1): MissingAtLevel(m)
           /\ \E k \in DOMAIN configs[n].paths:
                /\ result.at = <<n, configs[n].paths[k]>>
                /\ \A j \in 1..(k - 1): Missing(<<n, configs[n].paths[j]>>)

\* A plain name that is not found is in no search path of any config up to the
\* first one that has none, although the loop runs over a list that grows.
NotFoundIsReal ==
  result.status = "not_found" /\ request = "plain" =>
    /\ Missing(Beside)
    /\ \A n \in 1..Levels:
         (\A m \in 1..n: configs[m].paths # <<>>) => MissingAtLevel(n)

\* A plain name that is not found is in no search path of any config: "before
\* finishing the loop, parse more config files if there are any".
SearchesAllConfigs ==
  result.status = "not_found" /\ request = "plain" => \A n \in 1..Levels: MissingAtLevel(n)

\* A malformed config fails only the requires that need it: nothing that comes
\* before it in the order would have satisfied them.
ErrorsAreNeeded ==
  result.status = "error" =>
    \/ request = "alias" /\ \A n \in 1..Levels: configs[n].alias = None
    \/ \E n \in 1..Levels:
         /\ configs[n].bad /\ request # "relative"
         /\ request = "alias" => \A m \in 1..(n - 1): configs[m].alias = None
         /\ request = "plain" => Missing(Beside) /\ \A m \in 1..(n - 1): MissingAtLevel(m)

\* Every require returns.
Terminates == <>(pc = "done")
============================================================================
