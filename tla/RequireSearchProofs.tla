------------------------- MODULE RequireSearchProofs -------------------------
(***************************************************************************)
(* Theorems about the search of one require, for every number of           *)
(* directory levels, every set of configs, files and cached modules.       *)
(***************************************************************************)
EXTENDS RequireSearch, SequenceTheorems, WellFoundedInduction, TLAPS

----------------------------------------------------------------------------
(* The inductive invariant *)

AllMissing(n) == \A m \in 1..n: MissingAtLevel(m)
NoAlias(n) == \A m \in 1..n: configs[m].alias = None

\* The alias known is that of the nearest config that has one, which is the
\* last one that was parsed.
AliasInv ==
  request = "alias" /\ pc \in {"alias", "default"} =>
    /\ NoAlias(level - 1)
    /\ alias = None => NoAlias(level)
    /\ alias # None => level > 0 /\ alias = configs[level].alias

\* Only a plain name needs more than the default path, and reads its first
\* config when that has failed.
DefaultInv ==
  pc = "default" =>
    /\ request = "alias" => alias # None /\ target = <<level, alias>>
    /\ request # "alias" => /\ target = Beside /\ level = 0 /\ ~is_config_fully_resolved
                             /\ paths = <<>> /\ i = 1

\* Where the paths of the latest config begin in `paths`.
Base == Len(paths) - Len(configs[level].paths)

\* The loop has come to the paths of the latest config; those before were all
\* in vain.
InLatest ==
  /\ ~is_config_fully_resolved /\ level > 0
  /\ Base \in Nat /\ Base < i /\ i <= Len(paths) + 1
  /\ i = Len(paths) + 1 => configs[level].paths = <<>>
  /\ \A k \in 1..Len(configs[level].paths): paths[Base + k] = <<level, configs[level].paths[k]>>
  /\ \A k \in (Base + 1)..(i - 1): Missing(paths[k])

\* No config was left to parse.
AtEnd == is_config_fully_resolved /\ AllMissing(level) /\ i = Len(paths) + 1

PathsInv ==
  /\ pc \in {"parse", "paths"} => request = "plain" /\ Missing(Beside) /\ AllMissing(level - 1)
  /\ pc = "parse" =>
       /\ ~is_config_fully_resolved /\ i = Len(paths) + 1
       /\ AllMissing(level)
  /\ pc = "paths" => InLatest \/ AtEnd

IInv ==
  /\ TypeOK
  /\ is_config_fully_resolved => level = Levels
  /\ pc # "done" => result.status = "none"
  /\ pc = "alias" => request = "alias" /\ target = Beside
  /\ AliasInv /\ DefaultInv /\ PathsInv
  /\ FirstWins /\ NotFoundIsReal /\ ErrorsAreNeeded

Results == FirstWins /\ NotFoundIsReal /\ ErrorsAreNeeded

----------------------------------------------------------------------------
(* Lemmas *)

\* What a config holds.
LEMMA ConfigFacts ==
  ASSUME TypeOK, NEW n \in 1..Levels
  PROVE  /\ configs[n].paths \in Seq(Value) /\ Len(configs[n].paths) \in Nat
         /\ \A k \in 1..Len(configs[n].paths): configs[n].paths[k] \in Value
         /\ DOMAIN configs[n].paths = 1..Len(configs[n].paths)
         /\ configs[n].alias \in Value \union {None}
  <1>1. configs[n] \in [paths: Seq(Value), alias: Value \union {None}, bad: BOOLEAN]
    BY ConfigAssumption DEF TypeOK
  <1>2. configs[n].paths \in Seq(Value) /\ configs[n].alias \in Value \union {None}
    BY <1>1
  <1> QED
    BY <1>2, LenProperties, ElementOfSeq

\* While the search goes on there is nothing to say about its result.
LEMMA NoResult ==
  ASSUME result.status = "none"
  PROVE  Results
  BY DEF Results, FirstWins, NotFoundIsReal, ErrorsAreNeeded

LEMMA InitInv == Init => IInv
  <1>. SUFFICES ASSUME Init PROVE IInv
    OBVIOUS
  <1>. USE LevelAssumption DEF Init
  <1>1. TypeOK
    <2>1. files \subseteq Location \X Suffix /\ cached \subseteq Location \X Suffix
      <3>1. PICK known \in {S \in SUBSET (Location \X Suffix): Cardinality(S) <= MaxFiles}:
              files \in SUBSET known /\ cached \in SUBSET known
        OBVIOUS
      <3> QED
        BY <3>1
    <2>2. paths \in Seq(Location) /\ result \in Result /\ target \in Location
      BY DEF Result, Location
    <2>3. /\ request \in {"relative", "plain", "alias"}
          /\ pc \in {"alias", "default", "parse", "paths", "done"}
      OBVIOUS
    <2>4. level \in 0..Levels /\ i \in Nat \ {0}
      OBVIOUS
    <2>5. configs \in [1..Levels -> Configs]
      OBVIOUS
    <2>6. is_config_fully_resolved \in BOOLEAN /\ alias \in Value \union {None}
      OBVIOUS
    <2>. HIDE DEF Init
    <2> QED
      BY <2>1, <2>2, <2>3, <2>4, <2>5, <2>6, Zenon DEF TypeOK
  <1>2. AliasInv /\ DefaultInv /\ PathsInv
    BY DEF AliasInv, DefaultInv, PathsInv, NoAlias
  <1>3. result.status = "none"
    OBVIOUS
  <1> QED
    BY <1>1, <1>2, <1>3, NoResult DEF IInv, Results

\* A search that stops keeps what was known, and has only its result to answer for.
LEMMA Stopped ==
  ASSUME IInv, TypeOK', pc' = "done", UNCHANGED <<given, is_config_fully_resolved>>,
         is_config_fully_resolved => level' = level, Results'
  PROVE  IInv'
  BY DEF IInv, AliasInv, DefaultInv, PathsInv, Results, given

\* What is missing, and which configs have an alias, does not change.
LEMMA SameWorld ==
  ASSUME UNCHANGED given
  PROVE  /\ \A at: Missing(at)' <=> Missing(at)
         /\ \A n: MissingAtLevel(n)' <=> MissingAtLevel(n)
         /\ \A n: AllMissing(n)' <=> AllMissing(n)
         /\ \A n: NoAlias(n)' <=> NoAlias(n)
  <1>1. \A at: Missing(at)' <=> Missing(at)
    BY DEF given, Missing
  <1>2. \A n: MissingAtLevel(n)' <=> MissingAtLevel(n)
    BY <1>1 DEF given, MissingAtLevel
  <1>3. \A n: AllMissing(n)' <=> AllMissing(n)
    BY <1>2 DEF AllMissing
  <1>4. \A n: NoAlias(n)' <=> NoAlias(n)
    BY DEF given, NoAlias
  <1> QED
    BY <1>1, <1>2, <1>3, <1>4

\* Both ends of a search, by type.
LEMMA StopType ==
  ASSUME NEW status \in {"cached", "file_read", "not_found", "error"}, NEW at \in Location,
         NEW suffix \in 0..Suffixes, Stop(status, at, suffix)
  PROVE  /\ pc' = "done" /\ result' \in Result
         /\ result'.status = status /\ result'.at = at /\ result'.suffix = suffix
  BY DEF Stop, Result

LEMMA FoundWhat ==
  ASSUME NEW at \in Location, Found(at)
  PROVE  /\ pc' = "done" /\ result' \in Result
         /\ result'.status \in {"cached", "file_read"} /\ result'.at = at
         /\ <<at, result'.suffix>> \in files \union cached
         /\ result'.status = "cached" <=> <<at, result'.suffix>> \in cached
         /\ \A t \in 1..(result'.suffix - 1): <<at, t>> \notin files \union cached
  <1>1. PICK s \in Suffix:
          Hit(at, s) /\ Stop(IF <<at, s>> \in cached THEN "cached" ELSE "file_read", at, s)
    BY DEF Found
  <1>2. s \in 0..Suffixes
    BY LevelAssumption DEF Suffix
  <1>3. CASE <<at, s>> \in cached
    <2>1. Stop("cached", at, s)
      BY <1>1, <1>3
    <2>2. /\ pc' = "done" /\ result' \in Result
          /\ result'.status = "cached" /\ result'.at = at /\ result'.suffix = s
      BY <2>1, <1>2, StopType
    <2> QED
      BY <1>1, <1>3, <2>2 DEF Hit
  <1>4. CASE <<at, s>> \notin cached
    <2>1. Stop("file_read", at, s)
      BY <1>1, <1>4
    <2>2. /\ pc' = "done" /\ result' \in Result
          /\ result'.status = "file_read" /\ result'.at = at /\ result'.suffix = s
      BY <2>1, <1>2, StopType
    <2> QED
      BY <1>1, <1>4, <2>2 DEF Hit
  <1> QED
    BY <1>3, <1>4

\* The paths that a config adds, one for one.
LEMMA ResolvedType ==
  ASSUME TypeOK, NEW n \in 1..Levels
  PROVE  /\ Resolved(n) \in Seq(Location) /\ Len(Resolved(n)) = Len(configs[n].paths)
         /\ \A k \in 1..Len(configs[n].paths): Resolved(n)[k] = <<n, configs[n].paths[k]>>
  <1>1. /\ DOMAIN configs[n].paths = 1..Len(configs[n].paths) /\ Len(configs[n].paths) \in Nat
        /\ \A k \in 1..Len(configs[n].paths): configs[n].paths[k] \in Value
    BY ConfigFacts
  <1>2. Resolved(n) = [k \in 1..Len(configs[n].paths) |-> <<n, configs[n].paths[k]>>]
    BY <1>1 DEF Resolved
  <1>3. \A k \in 1..Len(configs[n].paths): <<n, configs[n].paths[k]>> \in Location
    BY <1>1 DEF Location
  <1>4. Resolved(n) \in [1..Len(configs[n].paths) -> Location]
    BY <1>2, <1>3
  <1>5. Resolved(n) \in Seq(Location)
    BY <1>1, <1>4, SeqDef
  <1>6. Len(Resolved(n)) = Len(configs[n].paths)
    BY <1>1, <1>2, <1>5, LenProperties
  <1> QED
    BY <1>2, <1>5, <1>6

\* The types of what a step may leave alone.
LEMMA SameTypes ==
  ASSUME TypeOK, UNCHANGED given,
         pc' \in {"alias", "default", "parse", "paths", "done"}, target' \in Location,
         level' \in 0..Levels, is_config_fully_resolved' \in BOOLEAN, paths' \in Seq(Location),
         alias' \in Value \union {None}, i' \in Nat \ {0}, result' \in Result
  PROVE  TypeOK'
  BY DEF TypeOK, given

----------------------------------------------------------------------------
(* The alias *)

LEMMA ParseForAliasStep ==
  ASSUME IInv, ParseForAlias
  PROVE  IInv'
  <1>. TypeOK /\ UNCHANGED given /\ request = "alias" /\ pc = "alias"
    BY DEF IInv, ParseForAlias
  <1>1. /\ target = Beside /\ target' = target /\ i' = i /\ result.status = "none"
        /\ alias = None /\ ~is_config_fully_resolved /\ NoAlias(level)
        /\ level \in 0..Levels
    BY DEF IInv, TypeOK, AliasInv, ParseForAlias
  <1>2. CASE level < Levels /\ ~configs[level + 1].bad
    <2>1. /\ level' = level + 1 /\ pc' = "alias" /\ paths' = paths \o Resolved(level + 1)
          /\ alias' = configs[level + 1].alias
          /\ UNCHANGED <<is_config_fully_resolved, result>>
      BY <1>1, <1>2 DEF ParseForAlias, ParseNextConfig
    <2>2. level + 1 \in 1..Levels
      BY <1>1, <1>2, LevelAssumption
    <2>3. alias' \in Value \union {None}
      BY <2>1, <2>2, ConfigFacts
    <2>4. Resolved(level + 1) \in Seq(Location)
      BY <2>2, ResolvedType
    <2>5. paths' \in Seq(Location)
      BY <2>1, <2>4, ConcatProperties DEF TypeOK
    <2>6. TypeOK'
      BY <1>1, <2>1, <2>2, <2>3, <2>5, SameTypes DEF TypeOK
    <2>7. AliasInv'
      <3>1. NoAlias(level' - 1)
        BY <1>1, <2>1
      <3>2. ASSUME alias' = None PROVE NoAlias(level')
        <4>1. configs[level + 1].alias = None
          BY <3>2, <2>1
        <4>2. \A m \in 1..(level + 1): m \in 1..level \/ m = level + 1
          BY <1>1
        <4> QED
          BY <4>1, <4>2, <1>1, <2>1 DEF NoAlias
      <3> QED
        BY <3>1, <3>2, <2>1, <2>2, SameWorld DEF AliasInv, given
    <2>8. DefaultInv' /\ PathsInv'
      BY <2>1 DEF DefaultInv, PathsInv
    <2>9. Results'
      BY <1>1, <2>1, NoResult DEF Results, FirstWins, NotFoundIsReal, ErrorsAreNeeded
    <2> QED
      BY <1>1, <2>1, <2>6, <2>7, <2>8, <2>9 DEF IInv, Results, given
  <1>3. CASE level < Levels /\ configs[level + 1].bad
    <2>1. level' = level + 1 /\ Stop("error", target, 0) /\ UNCHANGED <<is_config_fully_resolved, paths, alias>>
      BY <1>1, <1>3 DEF ParseForAlias, ParseNextConfig
    <2>2. level + 1 \in 1..Levels
      BY <1>1, <1>3, LevelAssumption
    <2>3. pc' = "done" /\ result' \in Result /\ result'.status = "error"
      BY <2>1, StopType, LevelAssumption DEF TypeOK
    <2>4. TypeOK'
      BY <1>1, <2>1, <2>2, <2>3, SameTypes DEF TypeOK
    <2>5. Results'
      <3>1. configs'[level + 1].bad /\ \A m \in 1..((level + 1) - 1): configs'[m].alias = None
        BY <1>1, <1>3 DEF NoAlias, given
      <3> QED
        BY <2>2, <2>3, <3>1 DEF Results, FirstWins, NotFoundIsReal, ErrorsAreNeeded, given
    <2> QED
      BY <1>1, <2>1, <2>3, <2>4, <2>5, Stopped
  <1>4. CASE level = Levels
    <2>1. is_config_fully_resolved' = TRUE /\ pc' = "alias" /\ UNCHANGED <<level, paths, alias, result>>
      BY <1>1, <1>4 DEF ParseForAlias, ParseNextConfig
    <2>2. TypeOK'
      BY <1>1, <2>1, SameTypes DEF TypeOK
    <2>3. AliasInv'
      <3>1. NoAlias(level - 1)
        BY <1>1 DEF NoAlias
      <3> QED
        BY <3>1, <1>1, <2>1, SameWorld DEF AliasInv, given
    <2>4. DefaultInv' /\ PathsInv'
      BY <2>1 DEF DefaultInv, PathsInv
    <2>5. Results'
      BY <1>1, <2>1, NoResult DEF Results, FirstWins, NotFoundIsReal, ErrorsAreNeeded
    <2> QED
      BY <1>1, <1>4, <2>1, <2>2, <2>3, <2>4, <2>5 DEF IInv, Results, given
  <1>5. level < Levels \/ level = Levels
    BY <1>1, LevelAssumption
  <1> QED
    BY <1>2, <1>3, <1>4, <1>5

LEMMA SubstituteAliasStep ==
  ASSUME IInv, SubstituteAlias
  PROVE  IInv'
  <1>1. /\ TypeOK /\ UNCHANGED given /\ request = "alias" /\ pc = "alias" /\ result.status = "none"
        /\ alias # None /\ level > 0 /\ alias = configs[level].alias /\ NoAlias(level - 1)
        /\ level \in 0..Levels
    BY DEF IInv, TypeOK, AliasInv, SubstituteAlias
  <1>2. target' = <<level, alias>> /\ pc' = "default" /\ UNCHANGED <<parser, i, result>>
    BY DEF SubstituteAlias
  <1>3. target' \in Location
    BY <1>1, <1>2, LevelAssumption DEF TypeOK, Location
  <1>4. TypeOK'
    BY <1>1, <1>2, <1>3, SameTypes DEF TypeOK, parser
  <1>5. AliasInv'
    BY <1>1, <1>2, SameWorld DEF AliasInv, given, parser
  <1>6. DefaultInv' /\ PathsInv'
    BY <1>1, <1>2 DEF DefaultInv, PathsInv, given, parser
  <1>7. Results'
    BY <1>1, <1>2 DEF Results, FirstWins, NotFoundIsReal, ErrorsAreNeeded
  <1> QED
    BY <1>1, <1>2, <1>4, <1>5, <1>6, <1>7 DEF IInv, Results, given, parser

LEMMA UnknownAliasStep ==
  ASSUME IInv, UnknownAlias
  PROVE  IInv'
  <1>1. /\ TypeOK /\ UNCHANGED <<given, target, parser, i>> /\ request = "alias" /\ NoAlias(Levels)
        /\ Stop("error", target, 0)
    BY DEF IInv, AliasInv, UnknownAlias
  <1>2. pc' = "done" /\ result' \in Result /\ result'.status = "error"
    BY <1>1, StopType, LevelAssumption DEF TypeOK
  <1>3. TypeOK'
    BY <1>1, <1>2, SameTypes DEF TypeOK, parser
  <1>4. Results'
    BY <1>1, <1>2 DEF Results, FirstWins, NotFoundIsReal, ErrorsAreNeeded, given, NoAlias
  <1> QED
    BY <1>1, <1>2, <1>3, <1>4, Stopped DEF parser

----------------------------------------------------------------------------
(* The default path *)

\* Where a module may be found when it is found.
InOrder(at) ==
  LET n == at[1] IN
    /\ request = "relative" => n = 0
    /\ request = "alias" => n > 0 /\ at[2] = configs[n].alias /\ NoAlias(n - 1)
    /\ request = "plain" /\ n > 0 =>
         /\ Missing(Beside) /\ AllMissing(n - 1)
         /\ \E k \in DOMAIN configs[n].paths:
              /\ at = <<n, configs[n].paths[k]>>
              /\ \A j \in 1..(k - 1): Missing(<<n, configs[n].paths[j]>>)

LEMMA FoundInOrder ==
  ASSUME NEW at \in Location, Found(at), InOrder(at), UNCHANGED given
  PROVE  Results'
  <1>1. /\ result'.status \in {"cached", "file_read"} /\ result'.at = at
        /\ <<at, result'.suffix>> \in files \union cached
        /\ result'.status = "cached" <=> <<at, result'.suffix>> \in cached
        /\ \A t \in 1..(result'.suffix - 1): <<at, t>> \notin files \union cached
    BY FoundWhat
  <1>2. FirstWins'
    BY <1>1, SameWorld DEF FirstWins, InOrder, NoAlias, AllMissing, given
  <1>3. NotFoundIsReal' /\ ErrorsAreNeeded'
    BY <1>1 DEF NotFoundIsReal, ErrorsAreNeeded
  <1> QED
    BY <1>2, <1>3 DEF Results

LEMMA FindDefaultStep ==
  ASSUME IInv, FindDefault
  PROVE  IInv'
  <1>1. /\ TypeOK /\ pc = "default" /\ UNCHANGED <<given, target, parser, i>>
        /\ result.status = "none" /\ level \in 0..Levels /\ target \in Location
        /\ request \in {"relative", "plain", "alias"}
    BY DEF IInv, TypeOK, FindDefault
  <1>2. /\ request = "alias" => /\ target = <<level, alias>> /\ NoAlias(level - 1)
                                /\ level > 0 /\ alias = configs[level].alias
        /\ request # "alias" => /\ target = Beside /\ level = 0 /\ paths = <<>> /\ i = 1
                                /\ ~is_config_fully_resolved
    BY <1>1 DEF IInv, AliasInv, DefaultInv
  <1>3. CASE Found(target)
    <2>1. InOrder(target)
      BY <1>1, <1>2 DEF InOrder, Beside
    <2>2. Results'
      BY <1>1, <1>3, <2>1, FoundInOrder
    <2>3. pc' = "done" /\ result' \in Result
      BY <1>1, <1>3, FoundWhat
    <2>4. TypeOK'
      BY <1>1, <2>3, SameTypes DEF TypeOK, parser
    <2> QED
      BY <1>1, <2>2, <2>3, <2>4, Stopped DEF parser
  <1>4. CASE Missing(target) /\ request # "plain" /\ Stop("not_found", target, 0)
    <2>1. pc' = "done" /\ result' \in Result /\ result'.status = "not_found"
      BY <1>1, <1>4, StopType, LevelAssumption
    <2>2. TypeOK'
      BY <1>1, <2>1, SameTypes DEF TypeOK, parser
    <2>3. Results'
      BY <1>1, <1>4, <2>1 DEF Results, FirstWins, NotFoundIsReal, ErrorsAreNeeded, given
    <2> QED
      BY <1>1, <2>1, <2>2, <2>3, Stopped DEF parser
  <1>5. CASE Missing(target) /\ request = "plain" /\ pc' = "parse" /\ UNCHANGED result
    <2>1. TypeOK'
      BY <1>1, <1>5, SameTypes DEF TypeOK, parser
    <2>2. Missing(Beside) /\ level = 0 /\ i = Len(paths) + 1 /\ ~is_config_fully_resolved
      BY <1>2, <1>5
    <2>3. AllMissing(level) /\ AllMissing(level - 1)
      BY <2>2 DEF AllMissing
    <2>4. PathsInv'
      BY <1>1, <1>5, <2>2, <2>3, SameWorld DEF PathsInv, given, parser
    <2>5. AliasInv' /\ DefaultInv'
      BY <1>5 DEF AliasInv, DefaultInv
    <2>6. Results'
      BY <1>1, <1>5 DEF Results, FirstWins, NotFoundIsReal, ErrorsAreNeeded
    <2> QED
      BY <1>1, <1>5, <2>1, <2>2, <2>4, <2>5, <2>6 DEF IInv, Results, given, parser
  <1> QED
    BY <1>3, <1>4, <1>5 DEF FindDefault

----------------------------------------------------------------------------
(* The search paths *)

LEMMA ParseStep ==
  ASSUME IInv, Parse
  PROVE  IInv'
  <1>1. /\ TypeOK /\ UNCHANGED <<given, target, i>> /\ pc = "parse" /\ result.status = "none"
        /\ level \in 0..Levels /\ target \in Location
        /\ paths \in Seq(Location) /\ Len(paths) \in Nat
    BY LenProperties DEF IInv, TypeOK, Parse
  <1>2. /\ request = "plain" /\ Missing(Beside) /\ AllMissing(level) /\ AllMissing(level - 1)
        /\ ~is_config_fully_resolved /\ i = Len(paths) + 1
    BY <1>1 DEF IInv, PathsInv
  <1>3. CASE level < Levels /\ ~configs[level + 1].bad
    <2>1. /\ level' = level + 1 /\ pc' = "paths" /\ paths' = paths \o Resolved(level + 1)
          /\ alias' = IF alias = None THEN configs[level + 1].alias ELSE alias
          /\ UNCHANGED <<is_config_fully_resolved, result>>
      BY <1>1, <1>3 DEF Parse, ParseNextConfig
    <2>2. level + 1 \in 1..Levels
      BY <1>1, <1>3, LevelAssumption
    <2>. DEFINE own == configs[level + 1].paths
    <2>3. /\ Resolved(level + 1) \in Seq(Location) /\ Len(Resolved(level + 1)) = Len(own)
          /\ \A k \in 1..Len(own): Resolved(level + 1)[k] = <<level + 1, own[k]>>
      BY <1>1, <2>2, ResolvedType
    <2>4. own \in Seq(Value) /\ Len(own) \in Nat
      BY <1>1, <2>2, ConfigFacts
    <2>5. /\ paths' \in Seq(Location) /\ Len(paths') = Len(paths) + Len(own)
          /\ \A k \in 1..(Len(paths) + Len(own)):
               paths'[k] = IF k <= Len(paths) THEN paths[k] ELSE Resolved(level + 1)[k - Len(paths)]
      <3>. DEFINE added == Resolved(level + 1)
      <3>1. /\ paths \o added \in Seq(Location) /\ Len(paths \o added) = Len(paths) + Len(added)
            /\ \A k \in 1..(Len(paths) + Len(added)):
                 (paths \o added)[k] = IF k <= Len(paths) THEN paths[k] ELSE added[k - Len(paths)]
        <4>1. added \in Seq(Location)
          BY <2>3
        <4>. HIDE DEF added
        <4> QED
          BY <4>1, <1>1, ConcatProperties
      <3> QED
        BY <3>1, <2>1, <2>3
    <2>6. alias' \in Value \union {None}
      BY <1>1, <2>1, <2>2, ConfigFacts DEF TypeOK
    <2>7. TypeOK'
      BY <1>1, <2>1, <2>2, <2>5, <2>6, SameTypes DEF TypeOK
    <2>8. configs'[level'].paths = own /\ Base' = Len(paths)
      BY <1>1, <2>1, <2>4, <2>5 DEF Base, given
    <2>9. InLatest'
      <3>1. Base' \in Nat /\ Base' < i' /\ i' <= Len(paths') + 1 /\ level' > 0
        BY <1>1, <1>2, <2>1, <2>4, <2>5, <2>8
      <3>2. i' = Len(paths') + 1 => own = <<>>
        BY <1>1, <1>2, <2>4, <2>5, EmptySeq
      <3>3. \A k \in 1..Len(own): paths'[Base' + k] = <<level', own[k]>>
        <4>. SUFFICES ASSUME NEW k \in 1..Len(own) PROVE paths'[Base' + k] = <<level', own[k]>>
          OBVIOUS
        <4>1. /\ Len(paths) + k \in 1..(Len(paths) + Len(own))
              /\ ~(Len(paths) + k <= Len(paths)) /\ (Len(paths) + k) - Len(paths) = k
          BY <1>1, <2>4
        <4> QED
          BY <4>1, <2>1, <2>3, <2>5, <2>8
      <3>4. (Base' + 1)..(i' - 1) = {}
        BY <1>1, <1>2, <2>8
      <3> QED
        BY <1>2, <2>1, <2>8, <3>1, <3>2, <3>3, <3>4 DEF InLatest
    <2>10. PathsInv'
      BY <1>1, <1>2, <2>1, <2>9, SameWorld DEF PathsInv, given
    <2>11. AliasInv' /\ DefaultInv'
      BY <2>1 DEF AliasInv, DefaultInv
    <2>12. Results'
      BY <1>1, <2>1 DEF Results, FirstWins, NotFoundIsReal, ErrorsAreNeeded
    <2> QED
      BY <1>1, <1>2, <2>1, <2>7, <2>10, <2>11, <2>12 DEF IInv, Results, given
  <1>4. CASE level < Levels /\ configs[level + 1].bad
    <2>1. /\ level' = level + 1 /\ Stop("error", target, 0)
          /\ UNCHANGED <<is_config_fully_resolved, paths, alias>>
      BY <1>1, <1>4 DEF Parse, ParseNextConfig
    <2>2. level + 1 \in 1..Levels /\ (level + 1) - 1 = level
      BY <1>1, <1>4, LevelAssumption
    <2>3. pc' = "done" /\ result' \in Result /\ result'.status = "error"
      BY <1>1, <2>1, StopType, LevelAssumption
    <2>4. TypeOK'
      BY <1>1, <2>1, <2>2, <2>3, SameTypes DEF TypeOK
    <2>5. Results'
      <3>1. /\ configs'[level + 1].bad /\ Missing(Beside)'
            /\ \A m \in 1..((level + 1) - 1): MissingAtLevel(m)'
        BY <1>1, <1>2, <1>4, <2>2, SameWorld DEF AllMissing, given
      <3>2. request' = "plain"
        BY <1>1, <1>2 DEF given
      <3>3. ErrorsAreNeeded'
        BY <2>2, <3>1, <3>2 DEF ErrorsAreNeeded
      <3> QED
        BY <2>3, <3>3 DEF Results, FirstWins, NotFoundIsReal
    <2> QED
      BY <1>1, <1>2, <2>1, <2>3, <2>4, <2>5, Stopped
  <1>5. CASE level = Levels
    <2>1. /\ is_config_fully_resolved' = TRUE /\ pc' = "paths"
          /\ UNCHANGED <<level, paths, alias, result>>
      BY <1>1, <1>5 DEF Parse, ParseNextConfig
    <2>2. TypeOK'
      BY <1>1, <2>1, SameTypes DEF TypeOK
    <2>3. AtEnd'
      BY <1>1, <1>2, <2>1, SameWorld DEF AtEnd, given
    <2>4. PathsInv'
      BY <1>1, <1>2, <2>1, <2>3, SameWorld DEF PathsInv, given
    <2>5. AliasInv' /\ DefaultInv'
      BY <2>1 DEF AliasInv, DefaultInv
    <2>6. Results'
      BY <1>1, <2>1 DEF Results, FirstWins, NotFoundIsReal, ErrorsAreNeeded
    <2> QED
      BY <1>1, <1>5, <2>1, <2>2, <2>4, <2>5, <2>6 DEF IInv, Results, given
  <1> QED
    BY <1>1, <1>3, <1>4, <1>5, LevelAssumption

\* What the loop knows about the path it has come to.
LEMMA LatestPaths ==
  ASSUME TypeOK, InLatest, i <= Len(paths)
  PROVE  /\ level \in 1..Levels /\ Len(configs[level].paths) \in Nat
         /\ DOMAIN configs[level].paths = 1..Len(configs[level].paths)
         /\ i - Base \in 1..Len(configs[level].paths)
         /\ paths[i] = <<level, configs[level].paths[i - Base]>>
         /\ \A k \in 1..(i - Base - 1): Missing(<<level, configs[level].paths[k]>>)
  <1>1. level \in 1..Levels
    BY LevelAssumption DEF TypeOK, InLatest
  <1>. DEFINE own == configs[level].paths
  <1>2. Len(own) \in Nat /\ DOMAIN own = 1..Len(own)
    BY <1>1, ConfigFacts
  <1>3. /\ i \in Nat /\ Len(paths) \in Nat /\ Base \in Nat /\ Base < i
        /\ Base = Len(paths) - Len(own)
    BY LenProperties DEF TypeOK, InLatest, Base
  <1>4. /\ \A k \in 1..Len(own): paths[Base + k] = <<level, own[k]>>
        /\ \A k \in (Base + 1)..(i - 1): Missing(paths[k])
    BY DEF InLatest
  <1>. HIDE DEF own
  <1>5. i - Base \in 1..Len(own) /\ Base + (i - Base) = i
    BY <1>2, <1>3
  <1>6. \A k \in 1..(i - Base - 1): Missing(<<level, own[k]>>)
    <2>. SUFFICES ASSUME NEW k \in 1..(i - Base - 1) PROVE Missing(<<level, own[k]>>)
      OBVIOUS
    <2>1. k \in 1..Len(own) /\ Base + k \in (Base + 1)..(i - 1)
      BY <1>2, <1>3
    <2> QED
      BY <2>1, <1>4
  <1>7. paths[i] = <<level, own[i - Base]>>
    BY <1>4, <1>5
  <1> QED
    BY <1>1, <1>2, <1>5, <1>6, <1>7 DEF own

LEMMA FindInPathsStep ==
  ASSUME IInv, FindInPaths
  PROVE  IInv'
  <1>1. /\ TypeOK /\ pc = "paths" /\ UNCHANGED <<given, parser>> /\ result.status = "none"
        /\ target' = paths[i] /\ i <= Len(paths)
        /\ i \in Nat \ {0} /\ paths \in Seq(Location) /\ Len(paths) \in Nat
    BY LenProperties DEF IInv, TypeOK, FindInPaths
  <1>2. InLatest /\ request = "plain" /\ Missing(Beside) /\ AllMissing(level - 1)
    BY <1>1 DEF IInv, PathsInv, AtEnd
  <1>. DEFINE own == configs[level].paths
  <1>3. /\ level \in 1..Levels /\ Len(own) \in Nat /\ DOMAIN own = 1..Len(own)
        /\ i - Base \in 1..Len(own) /\ paths[i] = <<level, own[i - Base]>>
        /\ \A k \in 1..(i - Base - 1): Missing(<<level, own[k]>>)
    BY <1>1, <1>2, LatestPaths
  <1>4. target' \in Location
    BY <1>1, ElementOfSeq
  <1>5. /\ Base = Len(paths) - Len(own) /\ Base \in Nat /\ Base < i
        /\ \A k \in 1..Len(own): paths[Base + k] = <<level, own[k]>>
        /\ \A k \in (Base + 1)..(i - 1): Missing(paths[k])
        /\ ~is_config_fully_resolved /\ level > 0
    BY <1>2 DEF InLatest, Base
  <1>6. UNCHANGED Base
    BY <1>1 DEF Base, given, parser
  <1>7. CASE Found(paths[i]) /\ UNCHANGED i
    <2>1. pc' = "done" /\ result' \in Result
      BY <1>1, <1>4, <1>7, FoundWhat
    <2>2. TypeOK'
      BY <1>1, <1>4, <1>7, <2>1, SameTypes DEF TypeOK, parser
    <2>3. InOrder(paths[i])
      BY <1>2, <1>3 DEF InOrder
    <2>4. Results'
      BY <1>1, <1>4, <1>7, <2>3, FoundInOrder
    <2> QED
      BY <1>1, <2>1, <2>2, <2>4, Stopped DEF parser
  <1>8. CASE Missing(paths[i]) /\ i' = i + 1 /\ UNCHANGED result
             /\ pc' = IF i = Len(paths) /\ ~is_config_fully_resolved THEN "parse" ELSE "paths"
    <2>1. TypeOK'
      BY <1>1, <1>4, <1>8, SameTypes DEF TypeOK, parser
    <2>2. \A k \in (Base + 1)..i: Missing(paths[k])
      <3>1. \A k \in (Base + 1)..i: k \in (Base + 1)..(i - 1) \/ k = i
        BY <1>1, <1>5
      <3> QED
        BY <3>1, <1>5, <1>8
    <2>3. PathsInv'
      <3>1. CASE i = Len(paths)
        <4>1. MissingAtLevel(level)
          <5>. SUFFICES ASSUME NEW k \in 1..Len(own) PROVE Missing(<<level, own[k]>>)
            BY <1>3 DEF MissingAtLevel
          <5>1. Base + k \in (Base + 1)..i
            BY <1>1, <1>3, <1>5, <3>1
          <5> QED
            BY <5>1, <1>5, <2>2
        <4>2. AllMissing(level)
          <5>1. \A m \in 1..level: m \in 1..(level - 1) \/ m = level
            BY <1>3
          <5> QED
            BY <5>1, <4>1, <1>2 DEF AllMissing
        <4>3. pc' = "parse" /\ ~is_config_fully_resolved' /\ i' = Len(paths') + 1
          BY <1>1, <1>5, <1>8, <3>1 DEF parser
        <4> QED
          BY <1>1, <1>2, <4>2, <4>3, SameWorld DEF PathsInv, given, parser
      <3>2. CASE i < Len(paths)
        <4>1. pc' = "paths" /\ i' <= Len(paths) /\ i' # Len(paths) + 1 /\ Base < i'
          BY <1>1, <1>5, <1>8, <3>2
        <4>2. \A k \in (Base + 1)..(i' - 1): Missing(paths[k])
          BY <1>1, <1>8, <2>2
        <4>3. InLatest'
          <5>1. /\ ~is_config_fully_resolved' /\ level' > 0
                /\ Base' \in Nat /\ Base' < i' /\ i' <= Len(paths') + 1 /\ i' # Len(paths') + 1
            BY <1>1, <1>5, <1>6, <1>8, <3>2, <4>1 DEF parser
          <5>2. \A k \in 1..Len(configs'[level'].paths):
                   paths'[Base' + k] = <<level', configs'[level'].paths[k]>>
            BY <1>1, <1>5, <1>6 DEF given, parser
          <5>3. \A k \in (Base' + 1)..(i' - 1): Missing(paths[k])'
            BY <1>1, <1>6, <4>2, Zenon DEF Missing, given, parser
          <5> QED
            BY <5>1, <5>2, <5>3 DEF InLatest
        <4> QED
          BY <1>1, <1>2, <4>1, <4>3, SameWorld DEF PathsInv, given, parser
      <3> QED
        BY <3>1, <3>2, <1>1
    <2>4. AliasInv' /\ DefaultInv'
      BY <1>8 DEF AliasInv, DefaultInv
    <2>5. Results'
      BY <1>1, <1>8 DEF Results, FirstWins, NotFoundIsReal, ErrorsAreNeeded
    <2>6. pc' # "alias"
      BY <1>8
    <2>7. is_config_fully_resolved' => level' = Levels
      BY <1>1, <1>5 DEF parser
    <2> QED
      BY <1>1, <1>8, <2>1, <2>3, <2>4, <2>5, <2>6, <2>7 DEF IInv, Results
  <1> QED
    BY <1>7, <1>8 DEF FindInPaths

LEMMA NotInPathsStep ==
  ASSUME IInv, NotInPaths
  PROVE  IInv'
  <1>1. /\ TypeOK /\ pc = "paths" /\ UNCHANGED <<given, target, parser, i>>
        /\ i > Len(paths) /\ Stop("not_found", target, 0) /\ target \in Location
        /\ i \in Nat /\ Len(paths) \in Nat /\ level \in 0..Levels
        /\ is_config_fully_resolved => level = Levels
    BY LenProperties DEF IInv, TypeOK, NotInPaths
  <1>2. /\ InLatest \/ AtEnd
        /\ request = "plain" /\ Missing(Beside) /\ AllMissing(level - 1)
    BY <1>1 DEF IInv, PathsInv
  <1>3. pc' = "done" /\ result' \in Result /\ result'.status = "not_found"
    BY <1>1, StopType, LevelAssumption
  <1>4. TypeOK'
    BY <1>1, <1>3, SameTypes DEF TypeOK, parser
  <1>5. ASSUME NEW n \in 1..Levels, \A m \in 1..n: configs[m].paths # <<>>
        PROVE  MissingAtLevel(n)
    <2>1. CASE AtEnd
      BY <1>1, <2>1 DEF AtEnd, AllMissing
    <2>2. CASE InLatest
      <3>1. configs[level].paths = <<>> /\ level > 0
        BY <1>1, <2>2 DEF InLatest
      <3>2. level \notin 1..n
        BY <1>5, <3>1
      <3>3. n \in 1..(level - 1)
        BY <1>1, <3>1, <3>2, LevelAssumption
      <3> QED
        BY <3>3, <1>2 DEF AllMissing
    <2> QED
      BY <1>2, <2>1, <2>2
  <1>6. NotFoundIsReal'
    BY <1>1, <1>2, <1>5, SameWorld DEF NotFoundIsReal, given
  <1>7. Results'
    BY <1>3, <1>6 DEF Results, FirstWins, ErrorsAreNeeded
  <1> QED
    BY <1>1, <1>3, <1>4, <1>7, Stopped DEF parser

LEMMA StutterStep ==
  ASSUME IInv, UNCHANGED vars
  PROVE  IInv'
  <1>1. UNCHANGED given /\ UNCHANGED <<pc, target, level, is_config_fully_resolved, paths, alias, i, result>>
    BY DEF vars, parser
  <1>2. UNCHANGED Base
    BY <1>1 DEF Base, given
  <1>3. TypeOK'
    BY <1>1 DEF IInv, TypeOK, given
  <1>4. AliasInv' /\ DefaultInv'
    BY <1>1, SameWorld DEF IInv, AliasInv, DefaultInv, given
  <1>5. PathsInv'
    BY <1>1, <1>2, SameWorld DEF IInv, PathsInv, InLatest, AtEnd, given
  <1>6. FirstWins' /\ NotFoundIsReal' /\ ErrorsAreNeeded'
    BY <1>1, SameWorld DEF IInv, FirstWins, NotFoundIsReal, ErrorsAreNeeded, given
  <1> QED
    BY <1>1, <1>3, <1>4, <1>5, <1>6 DEF IInv, given

----------------------------------------------------------------------------
(* Theorems *)

\* The invariant holds in every state of a search.
THEOREM Invariance == Spec => []IInv
  <1>1. ASSUME IInv, [Next]_vars PROVE IInv'
    BY <1>1, ParseForAliasStep, SubstituteAliasStep, UnknownAliasStep, FindDefaultStep, ParseStep,
       FindInPathsStep, NotInPathsStep, StutterStep DEF Next, Search, Done
  <1> QED
    BY <1>1, InitInv, PTL DEF Spec

\* The state of a search keeps its types: the loop over the search paths never
\* leaves them, although parse_next_config appends to them while it runs.
THEOREM TypeCorrect == Spec => []TypeOK
  <1>1. IInv => TypeOK
    BY DEF IInv
  <1> QED
    BY <1>1, Invariance, PTL

\* A require finds the first module in the documented order, whatever the
\* configs say, and whatever is on disk or in the cache.
THEOREM FirstAlwaysWins == Spec => []FirstWins
  <1>1. IInv => FirstWins
    BY DEF IInv
  <1> QED
    BY <1>1, Invariance, PTL

\* "not found" is true of every search path up to the first config without any.
THEOREM NotFoundAlwaysReal == Spec => []NotFoundIsReal
  <1>1. IInv => NotFoundIsReal
    BY DEF IInv
  <1> QED
    BY <1>1, Invariance, PTL

\* A malformed config fails no require that is satisfied before it.
THEOREM ErrorsAlwaysNeeded == Spec => []ErrorsAreNeeded
  <1>1. IInv => ErrorsAreNeeded
    BY DEF IInv
  <1> QED
    BY <1>1, Invariance, PTL

----------------------------------------------------------------------------
(* Why every search ends                                                   *)

\* The order in which the code below passes through the parts of a search, as
\* long as no config is parsed and no path is tried.
Rank(p) ==
  CASE p = "alias" -> 4 [] p = "default" -> 3 [] p = "parse" -> 2 [] p = "paths" -> 1 [] OTHER -> 0

\* The directories to look into (and the one look that finds no more of them);
\* the search paths to try; the parts to come.
ToParse == (Levels - level) + (IF is_config_fully_resolved THEN 0 ELSE 1)
ToTry == Len(paths) + 1 - i
Measure == <<ToParse, <<ToTry, Rank(pc)>>>>

Less == OpToRel(<, Nat)
Descent == LexPairOrdering(Less, LexPairOrdering(Less, Less, Nat, Nat), Nat, Nat \X Nat)

\* A parse lengthens `paths` under the loop, which goes by index for that reason;
\* but every step looks into a directory, or else tries a path, or else goes on
\* to a later part.
Descends == <<Measure', Measure>> \in Descent

\* The index stays within `paths`, or just behind them.
InPaths == i <= Len(paths) + 1

LEMMA InPathsStep == ASSUME IInv, InPaths, [Next]_vars PROVE InPaths'
  <1>1. /\ paths \in Seq(Location) /\ Len(paths) \in Nat /\ i \in Nat
        /\ level \in 0..Levels /\ Levels \in Nat /\ TypeOK
    BY LenProperties, LevelAssumption DEF IInv, TypeOK
  <1>2. ASSUME NEW next, ParseNextConfig(next), UNCHANGED i PROVE InPaths'
    <2>1. CASE UNCHANGED paths
      BY <1>2, <2>1 DEF InPaths
    <2>2. CASE level < Levels /\ paths' = paths \o Resolved(level + 1)
      <3>1. level + 1 \in 1..Levels
        BY <1>1, <2>2
      <3>2. Resolved(level + 1) \in Seq(Location) /\ Len(Resolved(level + 1)) \in Nat
        BY <1>1, <3>1, ResolvedType, LenProperties
      <3>3. Len(paths') = Len(paths) + Len(Resolved(level + 1))
        BY <1>1, <2>2, <3>2, ConcatProperties
      <3> QED
        BY <1>1, <1>2, <3>2, <3>3 DEF InPaths
    <2> QED
      BY <1>2, <2>1, <2>2 DEF ParseNextConfig
  <1>3. CASE FindInPaths
    <2>1. i <= Len(paths) /\ UNCHANGED paths /\ i' \in {i, i + 1}
      BY <1>3 DEF FindInPaths, parser
    <2> QED
      BY <1>1, <2>1 DEF InPaths
  <1>4. CASE SubstituteAlias \/ UnknownAlias \/ FindDefault \/ NotInPaths \/ Done \/ UNCHANGED vars
    BY <1>4 DEF SubstituteAlias, UnknownAlias, FindDefault, NotInPaths, Done, vars, parser, InPaths
  <1> QED
    BY <1>2, <1>3, <1>4 DEF Next, Search, ParseForAlias, Parse

\* Nothing descends for ever: the numbers are natural, and compared in turn.
THEOREM DescentIsWellFounded == IsWellFoundedOn(Descent, Nat \X (Nat \X Nat))
  BY NatLessThanWellFounded, WFLexPairOrdering DEF Descent, Less

\* What it takes to descend.
LEMMA DescendsIf ==
  ASSUME NEW a \in Nat, NEW b \in Nat, NEW c \in Nat, NEW x \in Nat, NEW y \in Nat, NEW z \in Nat,
         x < a \/ (x = a /\ (y < b \/ (y = b /\ z < c)))
  PROVE  <<<<x, <<y, z>>>>, <<a, <<b, c>>>>>> \in Descent
  <1>1. \A m, n \in Nat: <<m, n>> \in Less <=> m < n
    BY DEF Less, OpToRel
  <1>2. x = a => <<<<y, z>>, <<b, c>>>> \in LexPairOrdering(Less, Less, Nat, Nat)
    BY <1>1 DEF LexPairOrdering
  <1> QED
    BY <1>1, <1>2 DEF Descent, LexPairOrdering

LEMMA SearchStep == ASSUME IInv, InPaths, InPaths', TypeOK', Search PROVE Descends
  <1>1. /\ paths \in Seq(Location) /\ Len(paths) \in Nat /\ i \in Nat
        /\ level \in 0..Levels /\ Levels \in Nat
        /\ is_config_fully_resolved \in BOOLEAN /\ (is_config_fully_resolved => level = Levels)
    BY LenProperties, LevelAssumption DEF IInv, TypeOK
  <1>2. /\ paths' \in Seq(Location) /\ Len(paths') \in Nat /\ i' \in Nat
        /\ level' \in 0..Levels /\ is_config_fully_resolved' \in BOOLEAN
    BY LenProperties DEF TypeOK
  <1>3. ToParse \in Nat /\ ToTry \in Nat /\ Rank(pc) \in Nat
    BY <1>1 DEF ToParse, ToTry, InPaths, Rank
  <1>4. ToParse' \in Nat /\ ToTry' \in Nat /\ Rank(pc') \in Nat
    BY <1>1, <1>2 DEF ToParse, ToTry, InPaths, Rank
  <1>. DEFINE Goal == \/ ToParse' < ToParse
                      \/ ToParse' = ToParse /\ (ToTry' < ToTry \/ (ToTry' = ToTry /\ Rank(pc') < Rank(pc)))
  <1>5. Goal
    <2>1. ASSUME NEW next, ParseNextConfig(next), ~is_config_fully_resolved PROVE ToParse' < ToParse
      BY <1>1, <2>1 DEF ParseNextConfig, Stop, parser, ToParse
    <2>2. CASE ParseForAlias
      BY <2>1, <2>2 DEF ParseForAlias
    <2>3. CASE Parse
      <3>1. ~is_config_fully_resolved
        BY <2>3 DEF Parse, IInv, PathsInv
      <3> QED
        BY <2>1, <2>3, <3>1 DEF Parse
    <2>4. CASE SubstituteAlias \/ UnknownAlias \/ NotInPaths
      <3>1. UNCHANGED parser /\ UNCHANGED i /\ Rank(pc') < Rank(pc)
        BY <2>4 DEF SubstituteAlias, UnknownAlias, NotInPaths, Stop, Rank, parser
      <3> QED
        BY <3>1 DEF parser, ToParse, ToTry
    <2>0. ASSUME NEW at, Found(at) PROVE pc' = "done"
      BY <2>0, Zenon DEF Found, Stop
    <2>5. CASE FindDefault
      <3>1. UNCHANGED parser /\ UNCHANGED i /\ Rank(pc') < Rank(pc)
        BY <2>0, <2>5 DEF FindDefault, Stop, Rank, parser
      <3> QED
        BY <3>1 DEF parser, ToParse, ToTry
    <2>6. CASE FindInPaths
      <3>1. UNCHANGED parser
        BY <2>6 DEF FindInPaths
      <3>2. i' = i + 1 \/ (i' = i /\ Rank(pc') < Rank(pc))
        BY <2>0, <2>6 DEF FindInPaths, Rank
      <3> QED
        BY <1>1, <3>1, <3>2 DEF parser, ToParse, ToTry
    <2> QED
      BY <2>2, <2>3, <2>4, <2>5, <2>6 DEF Search
  <1> HIDE DEF Goal
  <1>6. Goal => <<<<ToParse', <<ToTry', Rank(pc')>>>>, <<ToParse, <<ToTry, Rank(pc)>>>>>> \in Descent
    BY <1>3, <1>4, DescendsIf DEF Goal
  <1> QED
    BY <1>5, <1>6 DEF Descends, Measure

\* No search goes on for ever, however many directories there are and whatever
\* their configs add to the paths under the loop (Require.cpp:46): each step of
\* it descends in a well-founded order.
THEOREM SearchDescends == Spec => [][Search => Descends]_vars
  <1>1. Init => InPaths
    BY DEF Init, InPaths
  <1>2. IInv /\ InPaths /\ [Next]_vars => InPaths'
    BY InPathsStep
  <1>3. IInv => TypeOK
    BY DEF IInv
  <1>4. IInv /\ InPaths /\ InPaths' /\ TypeOK' /\ [Next]_vars => [Search => Descends]_vars
    BY SearchStep
  <1> QED
    BY <1>1, <1>2, <1>3, <1>4, Invariance, PTL DEF Spec
==============================================================================
