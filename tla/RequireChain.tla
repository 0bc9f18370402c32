---------------------------- MODULE RequireChain ----------------------------
(***************************************************************************)
(* Which file a require means, along a chain of requires. A module is told *)
(* where it lies by its chunkname only: the resolver makes the name of the *)
(* next file from the chunkname of the running one, twice, as an absolute  *)
(* path to read and as the chunkname that the next module will be given.   *)
(* An error in the second does no harm until that module calls require.    *)
(***************************************************************************)
EXTENDS Paths

CONSTANTS
  Cwd,        \* the current directory, as components
  MainDir,    \* the directory of the main script
  Requests,   \* the relative paths that modules require
  Aliased,    \* the absolute paths that aliases stand for
  SearchDirs, \* the directories of "paths" in configs
  MaxDepth,   \* bound: requires in the chain
  Climbs      \* whether the chain may go up from a chunkname that begins with ".."

ASSUME DepthAssumption == MaxDepth \in Nat /\ Climbs \in BOOLEAN
ASSUME PathAssumption ==
  /\ {"..", "stdin", "placeholder", "main.luau", "init.luau", ".luau"} \subseteq Component
  /\ Cwd \in Seq(Name) /\ MainDir \in Seq(Name)
  /\ Requests \subseteq [abs: {FALSE}, comps: Seq(Component)]
  /\ Aliased \subseteq [abs: {TRUE}, comps: Seq(Component)]
  /\ SearchDirs \subseteq [abs: {TRUE}, comps: Seq(Component)]

\* Conditions of theorems: the directories of "paths" have no "." or ".." in
\* them, and every path that is required, or that an alias stands for, ends in a
\* name.
PlainDirectories == \A directory \in SearchDirs: directory.comps \in Seq(Name)
EndsInNames ==
  \A path \in Requests \union Aliased: path.comps # <<>> /\ Last(path.comps) \in Name

VARIABLES
  source_chunkname,  \* of the running module, without its "="
  file,              \* where the running module was read
  asked,             \* history: the latest request, and where it was made
  depth

chain == <<source_chunkname, file, asked, depth>>

\* load_script names the chunk after the file, whatever its directory is.
ChainInit ==
  /\ source_chunkname = Relative(<<"main.luau">>)
  /\ file = MainDir \o <<"main.luau">>
  /\ asked = [path |-> Relative(<<>>), from |-> Cwd, suffix |-> ".luau"]
  /\ depth = 0

----------------------------------------------------------------------------

\* get_requiring_context_absolute
AbsoluteContext ==
  IF source_chunkname.abs THEN source_chunkname
  ELSE ResolvePath(source_chunkname, Join(Absolute(Cwd), "stdin"))

\* What the suffix makes of a path: ".luau" extends the last component, or
\* stands alone in the empty path; "/init.luau" adds a component, makes the empty
\* relative path an absolute one, and the root "//init.luau".
Suffixed(path, suffix) ==
  CASE suffix = ".luau" /\ path.comps = <<>> -> [path EXCEPT !.comps = <<".luau">>]
    [] suffix = ".luau" /\ path.comps # <<>> ->
         [path EXCEPT !.comps = Append(Front(@), Last(@) \o ".luau")]
    [] suffix # ".luau" /\ path.abs /\ path.comps = <<>> ->
         [path EXCEPT !.comps = <<"", "init.luau">>]
    [] OTHER -> [abs |-> path.abs \/ path.comps = <<>>, comps |-> Append(path.comps, "init.luau")]

\* The module is read from absolute_path and runs with chunkname.
Run(chunkname, absolute_path, path, from) ==
  /\ depth < MaxDepth /\ depth' = depth + 1
  /\ \E suffix \in {".luau", "/init.luau"}:
       /\ source_chunkname' = Suffixed(chunkname, suffix)
       /\ file' = Suffixed(absolute_path, suffix).comps
       /\ asked' = [path |-> path, from |-> from, suffix |-> suffix]

\* Mutant: the chunkname is the path as it was written.
RequireRaw(path) == Run(path, ResolvePath(path, AbsoluteContext), path, Front(file))

\* A file next to the requiring one (resolve_and_store_default_paths).
RequireDefault(path) ==
  /\ Climbs \/ ".." \notin ToSet(path.comps) \/ Head(source_chunkname.comps) # ".."
  /\ Run(ResolvePath(path, source_chunkname), ResolvePath(path, AbsoluteContext), path, Front(file))

\* An alias was substituted: the path is absolute, and only sanitized.
RequireAlias(path) ==
  LET sanitized == ResolvePath(path, Relative(<<>>)) IN Run(sanitized, sanitized, path, <<>>)

\* Mutant: the directory itself is taken for the requiring file.
RequireBesidePaths(path) ==
  /\ ~ExplicitlyRelative(path)
  /\ \E directory \in SearchDirs:
       LET found == ResolvePath(path, directory) IN Run(found, found, path, directory.comps)

\* A file in a directory of config.paths; "placeholder" acts as the requiring file.
RequireInPaths(path) ==
  /\ ~ExplicitlyRelative(path)
  /\ \E directory \in SearchDirs:
       LET found == ResolvePath(path, Join(directory, "placeholder")) IN
         Run(found, found, path, directory.comps)

ChainNext ==
  \/ \E path \in Requests: RequireDefault(path) \/ RequireInPaths(path)
  \/ \E path \in Aliased: RequireAlias(path)

ChainSpec == ChainInit /\ [][ChainNext]_chain

----------------------------------------------------------------------------
(* Properties *)

\* Names and places are paths in normal form, whatever was written in the
\* requests: no "." or empty component, and ".." only at the head of a
\* relative chunkname. (The cache of modules compares these texts.)
Normalized ==
  /\ \A k \in DOMAIN file: file[k] \notin {"", ".", ".."}
  /\ \A k \in DOMAIN source_chunkname.comps:
       /\ source_chunkname.comps[k] \notin {"", "."}
       /\ source_chunkname.comps[k] = ".." =>
            ~source_chunkname.abs /\ \A j \in 1..k: source_chunkname.comps[j] = ".."

\* The chunkname of a module, a path relative to the current directory or an
\* absolute one, leads to the file that the module was read from, after any
\* chain of requires.
ChunkNamesFile == Place(source_chunkname, Cwd) = file

\* What a require reads is what its path means to a reader of the file that
\* contains it: the path followed from the directory of that file (or of the
\* search directory), "..", "." and doubled slashes included.
ReadsWhatIsAsked ==
  depth > 0 =>
    file = Suffixed(Absolute(Place(asked.path, asked.from)), asked.suffix).comps
============================================================================
