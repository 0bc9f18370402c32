--------------------------- MODULE StdProcessProofs ---------------------------
(***************************************************************************)
(* Theorems about std.process, for all arguments, widths of int and        *)
(* size_t, and programs: what the parsers return, that `at` stays inside   *)
(* the arguments, and that execute returns all that was written.           *)
(***************************************************************************)
EXTENDS StdProcess, SequenceTheorems, TLAPS

----------------------------------------------------------------------------
(* The arguments *)

\* What each parser has done when it has come to its cursor.
LoopInv ==
  /\ call = "parse_params" => ParamsOf(table, cursor)
  /\ call = "parse_flags" => FlagsOf(table, cursor)

ArgsInv == ArgsTypeOK /\ cursor <= Len(args) /\ LoopInv /\ ParsesExactly /\ AtStaysInside

LEMMA ArgsFacts ==
  ASSUME ArgsTypeOK
  PROVE  /\ Len(args) \in Nat /\ DOMAIN args = 1..Len(args) /\ cursor \in Nat
         /\ \A k \in 1..Len(args): args[k] \in Argument /\ args[k].dashes \in Nat
  <1>1. Len(args) \in Nat /\ DOMAIN args = 1..Len(args) /\ \A k \in 1..Len(args): args[k] \in Argument
    BY LenProperties, ElementOfSeq DEF ArgsTypeOK
  <1>2. \A a \in Argument: a.dashes \in Nat
    BY DashAssumption DEF Argument
  <1> QED
    BY <1>1, <1>2 DEF ArgsTypeOK

\* The names of parameters and flags tell their arguments apart.
LEMMA SubstrInjective ==
  ASSUME NEW a \in Argument, NEW b \in Argument, NEW n \in Nat, Substr(a, n) = Substr(b, n)
  PROVE  a = b
  <1>1. a.dashes \in Nat /\ b.dashes \in Nat
    BY DashAssumption DEF Argument
  <1>2. Substr(a, n) = [a EXCEPT !.dashes = a.dashes - n] /\ Substr(b, n) = [b EXCEPT !.dashes = b.dashes - n]
    BY DEF Substr, Argument
  <1>3. Substr(a, n).rest = a.rest /\ Substr(a, n).dashes = a.dashes - n
    BY <1>2 DEF Argument
  <1>4. Substr(b, n).rest = b.rest /\ Substr(b, n).dashes = b.dashes - n
    BY <1>2 DEF Argument
  <1>5. a.dashes = b.dashes /\ a.rest = b.rest
    BY <1>1, <1>3, <1>4
  <1> QED
    BY <1>5 DEF Argument

LEMMA SubstrType ==
  ASSUME NEW a \in Argument, NEW n \in Nat, a.dashes >= n
  PROVE  Substr(a, n) \in Argument
  BY DashAssumption DEF Substr, Argument

\* The parts of the invariant that a step leaves alone.
LEMMA KeepLoop == ASSUME LoopInv, UNCHANGED <<args, call, cursor, table>> PROVE LoopInv'
  BY DEF LoopInv, ParamsOf, FlagsOf, Gives

LEMMA KeepParses ==
  ASSUME ParsesExactly, args' = args, answer' = answer \/ answer'.asked \notin {"parse_params", "parse_flags"}
  PROVE  ParsesExactly'
  <1>1. CASE answer' = answer
    BY <1>1 DEF ParsesExactly, ParamsOf, FlagsOf, Gives
  <1>2. CASE answer'.asked \notin {"parse_params", "parse_flags"}
    BY <1>2 DEF ParsesExactly
  <1> QED
    BY <1>1, <1>2

LEMMA KeepAt ==
  ASSUME AtStaysInside, args' = args, answer' = answer \/ answer'.asked # "at"
  PROVE  AtStaysInside'
  BY DEF AtStaysInside

LEMMA LoopParams ==
  ASSUME args' = args, call' = "parse_params", ParamsOf(table', cursor')
  PROVE  LoopInv'
  BY DEF LoopInv, ParamsOf, Gives

LEMMA LoopFlags ==
  ASSUME args' = args, call' = "parse_flags", FlagsOf(table', cursor')
  PROVE  LoopInv'
  BY DEF LoopInv, FlagsOf

LEMMA AtInv == ASSUME ArgsInv, NEW n \in -IntLimit..(IntLimit - 1), At(n) PROVE ArgsInv'
  <1>1. Len(args) \in Nat /\ Len(args) < IntLimit /\ IntLimit \in Nat /\ SizeLimit \in Nat /\ SizeLimit >= 2 * IntLimit
    BY ArgsFacts, WidthAssumption DEF ArgsInv, ArgsTypeOK
  <1>2. UNCHANGED <<args, call, cursor, table>>
    BY DEF At, Answer
  <1>3. (ToSize(n) >= Len(args)) <=> n \notin 0..(Len(args) - 1)
    BY <1>1 DEF ToSize
  <1>4. answer'.asked = "at" /\ answer'.at = n
    BY DEF At, Answer
  <1>5. CASE n \in 0..(Len(args) - 1)
    <2>1. ToSize(n) = n /\ ToSize(n) < Len(args)
      BY <1>1, <1>5 DEF ToSize
    <2>2. answer'.got = <<args[n + 1]>>
      BY <2>1, <1>1, <1>5 DEF At, Answer, Element
    <2>3. AtStaysInside'
      BY <1>2, <1>4, <1>5, <2>2 DEF AtStaysInside
    <2> QED
      BY <1>2, <1>4, <2>3, KeepLoop, KeepParses DEF ArgsInv, ArgsTypeOK
  <1>6. CASE n \notin 0..(Len(args) - 1)
    <2>1. ~(ToSize(n) < Len(args))
      BY <1>1, <1>6 DEF ToSize
    <2>2. answer'.got = <<>>
      BY <2>1 DEF At, Answer
    <2>3. AtStaysInside'
      BY <1>2, <1>4, <1>6, <2>2 DEF AtStaysInside
    <2> QED
      BY <1>2, <1>4, <2>3, KeepLoop, KeepParses DEF ArgsInv, ArgsTypeOK
  <1> QED
    BY <1>5, <1>6

\* The argument at the cursor gives a parameter its value exactly when the loop takes the next one, too.
LEMMA TakesNextGives ==
  ASSUME ArgsTypeOK, NEW k \in 0..(Len(args) - 1)
  PROVE  TakesNext(k) <=> Gives(k + 1)
  BY ArgsFacts DEF TakesNext, Gives

\* One more argument that gives nothing.
LEMMA ParamsSkip ==
  ASSUME ArgsTypeOK, NEW t, NEW k \in 0..(Len(args) - 1), ParamsOf(t, k), ~Gives(k + 1)
  PROVE  ParamsOf(t, k + 1)
  <1>1. Len(args) \in Nat /\ 1..(k + 1) = 1..k \union {k + 1}
    BY ArgsFacts
  <1>2. {j \in 1..(k + 1): Gives(j)} = {j \in 1..k: Gives(j)}
    BY <1>1
  <1>3. DOMAIN t = {Substr(args[j], 2): j \in {j \in 1..(k + 1): Gives(j)}}
    BY <1>2 DEF ParamsOf
  <1>4. ASSUME NEW j \in 1..(k + 1), Gives(j), \A m \in (j + 1)..(k + 1): Gives(m) => args[m] # args[j]
        PROVE  t[Substr(args[j], 2)] = args[j + 1]
    <2>1. j \in 1..k
      BY <1>1, <1>4
    <2>2. \A m \in (j + 1)..k: Gives(m) => args[m] # args[j]
      BY <1>4, <2>1
    <2> QED
      BY <1>4, <2>1, <2>2 DEF ParamsOf
  <1> QED
    BY <1>3, <1>4 DEF ParamsOf

\* One more argument that gives a parameter its value.
LEMMA ParamsTake ==
  ASSUME ArgsTypeOK, NEW t, NEW k \in 0..(Len(args) - 1), ParamsOf(t, k), Gives(k + 1)
  PROVE  ParamsOf(SetField(t, Substr(args[k + 1], 2), args[k + 2]), k + 1)
  <1>. DEFINE key == Substr(args[k + 1], 2)
              u == SetField(t, key, args[k + 2])
              G(n) == {j \in 1..n: Gives(j)}
  <1>1. Len(args) \in Nat /\ 1..(k + 1) = 1..k \union {k + 1} /\ DOMAIN args = 1..Len(args)
    BY ArgsFacts
  <1>2. G(k + 1) = G(k) \union {k + 1}
    BY <1>1
  <1>3. DOMAIN t = {Substr(args[j], 2): j \in G(k)}
    BY DEF ParamsOf
  <1>4. DOMAIN u = DOMAIN t \union {key} /\ u[key] = args[k + 2]
        /\ \A x \in DOMAIN t: x # key => u[x] = t[x]
    BY DEF SetField
  <1>. HIDE DEF u
  <1>5. DOMAIN u = {Substr(args[j], 2): j \in G(k + 1)}
    <2>. HIDE DEF G
    <2> QED
      BY <1>2, <1>3, <1>4
  <1>6. ASSUME NEW j \in 1..(k + 1), Gives(j), \A m \in (j + 1)..(k + 1): Gives(m) => args[m] # args[j]
        PROVE  u[Substr(args[j], 2)] = args[j + 1]
    <2>1. CASE j = k + 1
      <3>1. j + 1 = k + 2
        BY <2>1
      <3> QED
        BY <1>4, <2>1, <3>1
    <2>2. CASE j # k + 1
      <3>1. j \in 1..k /\ k + 1 \in (j + 1)..(k + 1)
        BY <1>1, <2>2
      <3>2. args[k + 1] # args[j]
        BY <1>6, <3>1
      <3>3. args[k + 1] \in Argument /\ args[j] \in Argument
        BY <1>1, <3>1, ArgsFacts
      <3>4. Substr(args[j], 2) # key
        BY <3>2, <3>3, SubstrInjective
      <3>5. Substr(args[j], 2) \in DOMAIN t
        BY <1>3, <1>6, <3>1
      <3>6. \A m \in (j + 1)..k: Gives(m) => args[m] # args[j]
        BY <1>6, <3>1
      <3>7. t[Substr(args[j], 2)] = args[j + 1]
        BY <1>6, <3>1, <3>6 DEF ParamsOf
      <3> QED
        BY <1>4, <3>4, <3>5, <3>7
    <2> QED
      BY <2>1, <2>2
  <1> QED
    BY <1>5, <1>6 DEF ParamsOf, u

LEMMA ParamInv == ASSUME ArgsInv, Param PROVE ArgsInv'
  <1>1. /\ call = "parse_params" /\ cursor < Len(args) /\ UNCHANGED <<args, call, answer>>
        /\ Len(args) \in Nat /\ DOMAIN args = 1..Len(args) /\ cursor \in 0..(Len(args) - 1)
        /\ ArgsTypeOK /\ ParamsOf(table, cursor)
        /\ \A k \in 1..Len(args): args[k] \in Argument /\ args[k].dashes \in Nat
    BY ArgsFacts DEF Param, ArgsInv, LoopInv
  <1>2. TakesNext(cursor) <=> Gives(cursor + 1)
    BY <1>1, TakesNextGives
  <1>3. CASE TakesNext(cursor)
    <2>. DEFINE key == Substr(args[cursor + 1], 2)
                v == args[cursor + 2]
    <2>1. table' = SetField(table, key, v) /\ cursor' = cursor + 2
      BY <1>3 DEF Param
    <2>2. cursor + 2 <= Len(args) /\ ~is_param(args[cursor + 2]) /\ is_param(args[cursor + 1])
      BY <1>1, <1>3 DEF TakesNext
    <2>3. ParamsOf(table', cursor + 1)
      BY <1>1, <1>2, <1>3, <2>1, ParamsTake
    <2>4. ~Gives(cursor + 2)
      BY <2>2 DEF Gives
    <2>5. cursor + 1 \in 0..(Len(args) - 1) /\ (cursor + 1) + 1 = cursor + 2
      BY <1>1, <2>2
    <2>6. ParamsOf(table', cursor + 2)
      BY <1>1, <2>3, <2>4, <2>5, ParamsSkip
    <2>7. key \in Argument /\ v \in Argument
      BY <1>1, <2>2, SubstrType DEF is_param
    <2>8. \A x \in DOMAIN table': x \in Argument /\ table'[x] \in Argument \union {TRUE}
      <3>. HIDE DEF key, v
      <3> QED
        BY <1>1, <2>1, <2>7 DEF SetField, ArgsTypeOK
    <2>9. ArgsTypeOK' /\ cursor' <= Len(args)
      <3>1. cursor' \in Nat /\ cursor' <= Len(args)
        BY <1>1, <2>1, <2>2
      <3> QED
        BY <1>1, <2>8, <3>1 DEF ArgsTypeOK
    <2> QED
      BY <1>1, <2>1, <2>6, <2>9, LoopParams, KeepParses, KeepAt DEF ArgsInv
  <1>4. CASE ~TakesNext(cursor)
    <2>1. table' = table /\ cursor' = cursor + 1
      BY <1>4 DEF Param
    <2>2. ParamsOf(table, cursor + 1)
      BY <1>1, <1>2, <1>4, ParamsSkip
    <2>3. ArgsTypeOK' /\ cursor' <= Len(args)
      <3>1. cursor' \in Nat /\ cursor' <= Len(args)
        BY <1>1, <2>1
      <3> QED
        BY <1>1, <2>1, <3>1 DEF ArgsTypeOK
    <2>4. LoopInv'
      BY <1>1, <2>1, <2>2, LoopParams
    <2> QED
      BY <1>1, <2>3, <2>4, KeepParses, KeepAt DEF ArgsInv
  <1> QED
    BY <1>3, <1>4

LEMMA FlagInv == ASSUME ArgsInv, Flag PROVE ArgsInv'
  <1>. DEFINE a == args[cursor + 1]
              key == Substr(a, 1)
              D(n) == {j \in 1..n: args[j].dashes = 1}
  <1>1. /\ call = "parse_flags" /\ cursor < Len(args) /\ UNCHANGED <<args, call, answer>> /\ cursor' = cursor + 1
        /\ table' = IF IsFlag(a) THEN SetField(table, key, TRUE) ELSE table
        /\ Len(args) \in Nat /\ DOMAIN args = 1..Len(args) /\ cursor \in 0..(Len(args) - 1)
        /\ ArgsTypeOK /\ FlagsOf(table, cursor)
        /\ \A k \in 1..Len(args): args[k] \in Argument /\ args[k].dashes \in Nat
    BY ArgsFacts DEF Flag, ArgsInv, LoopInv
  <1>2. IsFlag(a) <=> a.dashes = 1
    BY <1>1 DEF IsFlag
  <1>3. DOMAIN table = {Substr(args[j], 1): j \in D(cursor)} /\ \A x \in DOMAIN table: table[x] = TRUE
    BY <1>1 DEF FlagsOf
  <1>4. D(cursor + 1) = IF a.dashes = 1 THEN D(cursor) \union {cursor + 1} ELSE D(cursor)
    <2>1. 1..(cursor + 1) = 1..cursor \union {cursor + 1}
      BY <1>1
    <2> QED
      BY <2>1
  <1>. HIDE DEF D
  <1>5. /\ DOMAIN table' = {Substr(args[j], 1): j \in D(cursor + 1)}
        /\ \A x \in DOMAIN table': table'[x] = TRUE
        /\ DOMAIN table' \subseteq Argument
    <2>1. CASE a.dashes = 1
      <3>1. table' = SetField(table, key, TRUE)
        BY <1>1, <1>2, <2>1
      <3>2. key \in Argument
        BY <1>1, <2>1, SubstrType
      <3>3. DOMAIN table' = DOMAIN table \union {key} /\ \A x \in DOMAIN table': table'[x] = TRUE
        BY <1>3, <3>1 DEF SetField
      <3>4. D(cursor + 1) = D(cursor) \union {cursor + 1}
        BY <1>4, <2>1
      <3> QED
        BY <1>1, <1>3, <3>2, <3>3, <3>4 DEF ArgsTypeOK
    <2>2. CASE a.dashes # 1
      BY <1>1, <1>2, <1>3, <1>4, <2>2 DEF ArgsTypeOK
    <2> QED
      BY <2>1, <2>2
  <1>6. FlagsOf(table', cursor + 1)
    BY <1>5 DEF FlagsOf, D
  <1>7. ArgsTypeOK' /\ cursor' <= Len(args)
    <2>1. cursor' \in Nat /\ cursor' <= Len(args)
      BY <1>1
    <2>2. \A x \in DOMAIN table': x \in Argument /\ table'[x] \in Argument \union {TRUE}
      BY <1>5
    <2> QED
      BY <1>1, <2>1, <2>2 DEF ArgsTypeOK
  <1> QED
    BY <1>1, <1>6, <1>7, LoopFlags, KeepParses, KeepAt DEF ArgsInv

LEMMA ArgsInitInv == ArgsInit => ArgsInv
  <1>. SUFFICES ASSUME ArgsInit PROVE ArgsInv
    OBVIOUS
  <1>1. PICK n \in 0..MaxArgs: args \in [1..n -> Argument]
    BY DEF ArgsInit
  <1>2. n \in Nat /\ args \in Seq(Argument)
    BY <1>1, WidthAssumption, SeqDef
  <1>3. Len(args) = n
    BY <1>1, <1>2, LenProperties
  <1> QED
    BY <1>1, <1>2, <1>3 DEF ArgsInit, ArgsInv, LoopInv, ArgsTypeOK, ParsesExactly, AtStaysInside, Empty

LEMMA ArgsStepInv == ArgsInv /\ [ArgsNext]_argsVars => ArgsInv'
  <1>. SUFFICES ASSUME ArgsInv, [ArgsNext]_argsVars PROVE ArgsInv'
    OBVIOUS
  <1>1. CASE Size \/ ToTable
    <2>1. UNCHANGED <<args, call, cursor, table>> /\ answer'.asked \in {"size", "totable"}
      BY <1>1 DEF Size, ToTable, Answer
    <2> QED
      BY <2>1, KeepLoop, KeepParses, KeepAt DEF ArgsInv, ArgsTypeOK
  <1>2. ASSUME NEW parser \in {"parse_params", "parse_flags"}, ParserBegins(parser) PROVE ArgsInv'
    <2>1. call' = parser /\ cursor' = 0 /\ table' = Empty /\ UNCHANGED <<args, answer>> /\ Len(args) \in Nat
      BY <1>2, ArgsFacts DEF ParserBegins, ArgsInv
    <2>2. DOMAIN Empty = {}
      BY DEF Empty
    <2>3. 1..0 = {}
      OBVIOUS
    <2>4. ParamsOf(Empty, 0) /\ FlagsOf(Empty, 0)
      BY <2>2, <2>3 DEF ParamsOf, FlagsOf
    <2>5. LoopInv'
      BY <1>2, <2>1, <2>4, LoopParams, LoopFlags
    <2>6. ArgsTypeOK' /\ (cursor <= Len(args))'
      BY <1>2, <2>1, <2>2 DEF ArgsInv, ArgsTypeOK
    <2> QED
      BY <2>1, <2>5, <2>6, KeepParses, KeepAt DEF ArgsInv
  <1>3. CASE Return
    <2>1. /\ answer' = [asked |-> call, at |-> 0, got |-> <<table>>] /\ call' = "none" /\ UNCHANGED <<args, cursor, table>>
          /\ cursor = Len(args)
      BY <1>3, ArgsFacts DEF Return, ArgsInv
    <2>2. answer'.asked = call /\ answer'.got[1] = table /\ call \in {"none", "parse_params", "parse_flags"}
      BY <2>1 DEF ArgsInv, ArgsTypeOK
    <2>3. /\ answer'.asked = "parse_params" => ParamsOf(table, Len(args))
          /\ answer'.asked = "parse_flags" => FlagsOf(table, Len(args))
      BY <2>1, <2>2 DEF ArgsInv, LoopInv
    <2>4. ParsesExactly'
      BY <2>1, <2>2, <2>3 DEF ParsesExactly, ParamsOf, FlagsOf, Gives
    <2>5. LoopInv'
      BY <2>1 DEF LoopInv
    <2> QED
      BY <2>1, <2>2, <2>4, <2>5, KeepAt DEF ArgsInv, ArgsTypeOK
  <1>4. CASE UNCHANGED argsVars
    BY <1>4, KeepLoop, KeepParses, KeepAt DEF argsVars, ArgsInv, ArgsTypeOK
  <1> QED
    BY <1>1, <1>2, <1>3, <1>4, AtInv, ParamInv, FlagInv DEF ArgsNext, Parser

----------------------------------------------------------------------------
(* Texts: what execute does to what it reads *)

\* Lines that have ended, and the beginning of one.
Whole(t) == t = <<>> \/ t[Len(t)] = "\n"
Begun(l) == \A n \in 1..Len(l): l[n] # "\n"

\* A pipe is its first symbol and the rest.
LEMMA HeadTail ==
  ASSUME NEW p \in Seq(Symbol), p # <<>>
  PROVE  /\ Head(p) \in Symbol /\ Tail(p) \in Seq(Symbol) /\ p = <<Head(p)>> \o Tail(p)
  <1>1. /\ Head(p) \in Symbol /\ Tail(p) \in Seq(Symbol) /\ Len(Tail(p)) = Len(p) - 1
        /\ \A n \in 1..Len(Tail(p)): Tail(p)[n] = p[n + 1]
    BY HeadTailProperties
  <1>2. Len(p) \in Nat \ {0} /\ Head(p) = p[1]
    BY EmptySeq
  <1>. DEFINE h == <<Head(p)>>
  <1>3. h \in Seq(Symbol) /\ Len(h) = 1 /\ h[1] = p[1]
    BY <1>1, <1>2
  <1>. HIDE DEF h
  <1>4. /\ h \o Tail(p) \in Seq(Symbol) /\ Len(h \o Tail(p)) = Len(p)
        /\ \A n \in 1..Len(p): (h \o Tail(p))[n] = IF n <= 1 THEN h[n] ELSE Tail(p)[n - 1]
    <2>. DEFINE t == Tail(p)
                g == h \o t
    <2>1. t \in Seq(Symbol) /\ Len(t) = Len(p) - 1
      BY <1>1
    <2>. HIDE DEF t
    <2>2. /\ g \in Seq(Symbol) /\ Len(g) = Len(h) + Len(t)
          /\ \A n \in 1..(Len(h) + Len(t)): g[n] = IF n <= Len(h) THEN h[n] ELSE t[n - Len(h)]
      BY <1>3, <2>1, ConcatProperties
    <2>. HIDE DEF g
    <2>3. Len(h) + Len(t) = Len(p) /\ Len(h) = 1
      BY <1>2, <1>3, <2>1
    <2>4. g \in Seq(Symbol) /\ Len(g) = Len(p) /\ \A n \in 1..Len(p): g[n] = IF n <= 1 THEN h[n] ELSE t[n - 1]
      BY <2>2, <2>3
    <2> QED
      BY <2>4 DEF g, t
  <1>5. \A n \in 1..Len(p): (h \o Tail(p))[n] = p[n]
    BY <1>1, <1>2, <1>3, <1>4
  <1>6. h \o Tail(p) = p
    BY <1>4, <1>5, SeqEqual
  <1> QED
    BY <1>1, <1>6 DEF h

LEMMA AppendConcat ==
  ASSUME NEW s \in Seq(Symbol), NEW x \in Symbol
  PROVE  /\ <<x>> \in Seq(Symbol) /\ Append(s, x) = s \o <<x>> /\ s \o <<x>> \in Seq(Symbol)
         /\ Len(s \o <<x>>) = Len(s) + 1 /\ (s \o <<x>>)[Len(s) + 1] = x
         /\ \A n \in 1..Len(s): (s \o <<x>>)[n] = s[n]
  <1>. DEFINE l == <<x>>
  <1>1. l \in Seq(Symbol) /\ Len(l) = 1 /\ l[1] = x
    OBVIOUS
  <1>. HIDE DEF l
  <1>2. Len(s) \in Nat
    BY LenProperties
  <1>3. /\ s \o l \in Seq(Symbol) /\ Len(s \o l) = Len(s) + 1
        /\ \A n \in 1..(Len(s) + 1): (s \o l)[n] = IF n <= Len(s) THEN s[n] ELSE l[n - Len(s)]
    <2>1. /\ s \o l \in Seq(Symbol) /\ Len(s \o l) = Len(s) + Len(l)
          /\ \A n \in 1..(Len(s) + Len(l)): (s \o l)[n] = IF n <= Len(s) THEN s[n] ELSE l[n - Len(s)]
      BY <1>1, ConcatProperties
    <2> QED
      BY <1>1, <2>1
  <1>4. /\ Append(s, x) \in Seq(Symbol) /\ Len(Append(s, x)) = Len(s) + 1
        /\ \A n \in 1..Len(s): Append(s, x)[n] = s[n]
        /\ Append(s, x)[Len(s) + 1] = x
    BY AppendProperties
  <1>5. \A n \in 1..(Len(s) + 1): (s \o l)[n] = IF n <= Len(s) THEN s[n] ELSE x
    BY <1>1, <1>2, <1>3
  <1>6. \A n \in 1..(Len(s) + 1): Append(s, x)[n] = (s \o l)[n]
    <2>. DEFINE a == Append(s, x)
                c == s \o l
    <2>0. /\ \A n \in 1..Len(s): a[n] = s[n]
          /\ a[Len(s) + 1] = x
          /\ \A n \in 1..(Len(s) + 1): c[n] = IF n <= Len(s) THEN s[n] ELSE x
      BY <1>4, <1>5
    <2>. HIDE DEF a, c
    <2>. SUFFICES ASSUME NEW n \in 1..(Len(s) + 1) PROVE a[n] = c[n]
      BY DEF a, c
    <2>1. CASE n = Len(s) + 1
      BY <1>2, <2>0, <2>1
    <2>2. CASE n # Len(s) + 1
      <3>1. n \in 1..Len(s)
        BY <1>2, <2>2
      <3> QED
        BY <1>2, <2>0, <3>1
    <2> QED
      BY <2>1, <2>2
  <1>7. Append(s, x) = s \o l
    BY <1>3, <1>4, <1>6, SeqEqual
  <1> QED
    BY <1>1, <1>2, <1>3, <1>5, <1>7 DEF l

\* Taking the first symbol from the pipe loses nothing.
LEMMA TakeHead ==
  ASSUME NEW w \in Seq(Symbol), NEW p \in Seq(Symbol), p # <<>>
  PROVE  w \o p = (w \o <<Head(p)>>) \o Tail(p)
  BY HeadTail, AppendConcat, ConcatAssociative

\* What is written joins the end of the pipe.
LEMMA JoinEnd ==
  ASSUME NEW w \in Seq(Symbol), NEW p \in Seq(Symbol), NEW x \in Symbol
  PROVE  Append(w \o p, x) = w \o Append(p, x)
  <1>1. w \o p \in Seq(Symbol)
    BY ConcatProperties
  <1>. DEFINE l == <<x>>
  <1>2. l \in Seq(Symbol) /\ Append(w \o p, x) = (w \o p) \o l /\ Append(p, x) = p \o l
    BY <1>1, AppendConcat
  <1>. HIDE DEF l
  <1>3. (w \o p) \o l = w \o (p \o l)
    BY <1>2, ConcatAssociative
  <1> QED
    BY <1>2, <1>3

\* The end of a stream: the text that execute returns is what was written.
LEMMA LastLine ==
  ASSUME NEW t \in Seq(Symbol), NEW l \in Seq(Symbol), Whole(t), Begun(l)
  PROVE  LET u == IF l = <<>> THEN t ELSE t \o l \o <<"\n">>
         IN  u \in Seq(Symbol) /\ Whole(u) /\ Optional(u) = Lines(t \o l)
  <1>. DEFINE u == IF l = <<>> THEN t ELSE t \o l \o <<"\n">>
              w == t \o l
  <1>1. w \in Seq(Symbol) /\ Len(w) = Len(t) + Len(l) /\ Len(t) \in Nat /\ Len(l) \in Nat
        /\ \A n \in 1..(Len(t) + Len(l)): w[n] = IF n <= Len(t) THEN t[n] ELSE l[n - Len(t)]
    BY ConcatProperties, LenProperties
  <1>2. CASE l = <<>>
    <2>1. w = t /\ u = t
      BY <1>2, ConcatEmptySeq
    <2>2. Optional(t) = Lines(t)
      BY DEF Optional, Lines, Whole
    <2> QED
      BY <2>1, <2>2
  <1>3. CASE l # <<>>
    <2>1. Len(l) \in Nat \ {0}
      BY <1>3, EmptySeq
    <2>2. w[Len(w)] = l[Len(l)] /\ w[Len(w)] # "\n"
      BY <1>1, <2>1 DEF Begun
    <2>3. w # <<>>
      BY <1>1, <2>1, EmptySeq
    <2>. DEFINE e == "\n"
    <2>4. e \in Symbol
      BY DEF Symbol
    <2>. HIDE DEF w, e
    <2>5. /\ Append(w, e) = w \o <<e>> /\ w \o <<e>> \in Seq(Symbol) /\ Len(w \o <<e>>) = Len(w) + 1
          /\ (w \o <<e>>)[Len(w) + 1] = e
      BY <1>1, <2>4, AppendConcat
    <2>6. u = w \o <<e>>
      BY <1>3 DEF u, w, e
    <2>7. Lines(w) = Append(w, e)
      BY <2>2, <2>3 DEF Lines, e
    <2>8. u # <<>> /\ u[Len(u)] = e
      BY <1>1, <2>1, <2>5, <2>6, EmptySeq
    <2> QED
      BY <2>5, <2>6, <2>7, <2>8 DEF Optional, Whole, e, w
  <1> QED
    BY <1>2, <1>3

----------------------------------------------------------------------------
(* execute *)

\* Of a stream, what was read and what is in the pipe is what was written. l is
\* the part of a line that getline holds.
Flows(s, l) == written[s] = (text[s] \o l) \o pipe[s]

ExecInv ==
  /\ TypeOK
  /\ Begun(line) /\ \A s \in Stream: Whole(text[s])
  /\ pc \in {"search", "system", "out"} => Flows("out", line) /\ Flows("err", <<>>)
  /\ pc = "err" => Flows("err", line) /\ Optional(text["out"]) = Lines(written["out"]) /\ Closed
  /\ pc \in {"out", "err"} => exit_code = status
  /\ pc # "done" => feedback = Nil
  /\ FeedbackComplete

LEMMA TypeFacts ==
  ASSUME TypeOK
  PROVE  /\ line \in Seq(Symbol) /\ <<>> \in Seq(Symbol)
         /\ \A s \in Stream: text[s] \in Seq(Symbol) /\ pipe[s] \in Seq(Symbol) /\ written[s] \in Seq(Symbol)
         /\ DOMAIN text = Stream /\ DOMAIN pipe = Stream /\ DOMAIN written = Stream
  BY EmptySeq DEF TypeOK

LEMMA ExecInit == Init => ExecInv
  <1>. SUFFICES ASSUME Init PROVE ExecInv
    OBVIOUS
  <1>1. <<>> \in Seq(Symbol) /\ Len(<<>>) = 0 /\ (<<>> \o <<>>) \o <<>> = <<>>
    BY EmptySeq, ConcatEmptySeq
  <1>2. TypeOK
    BY <1>1 DEF Init, TypeOK
  <1> QED
    BY <1>1, <1>2 DEF Init, ExecInv, Begun, Whole, Flows, FeedbackComplete, Stream

\* A step of a program that writes nothing.
LEMMA ProcessInv ==
  ASSUME ExecInv, process' \in [Process -> {"none", "running", "exited"} \union Stream],
         UNCHANGED <<status, pipe, written, halia>>,
         Closed => \A p \in Process: process'[p] \in {"none", "exited"}
  PROVE  ExecInv'
  <1>1. TypeOK'
    BY DEF ExecInv, TypeOK, halia
  <1>2. FeedbackComplete'
    BY DEF ExecInv, FeedbackComplete, Closed, halia
  <1> QED
    BY <1>1, <1>2 DEF ExecInv, Begun, Whole, Flows, Closed, halia

LEMMA WriteInv ==
  ASSUME ExecInv, NEW p \in Process, NEW s \in Stream, Write(p, s)
  PROVE  ExecInv'
  <1>1. PICK x \in Symbol:
          /\ process[p] = s /\ UNCHANGED <<status, halia>>
          /\ process' = [process EXCEPT ![p] = "running"]
          /\ pipe' = [pipe EXCEPT ![s] = Append(@, x)] /\ written' = [written EXCEPT ![s] = Append(@, x)]
    BY DEF Write
  <1>2. TypeOK /\ ~Closed
    BY <1>1 DEF ExecInv, Closed, Stream
  <1>3. Append(pipe[s], x) \in Seq(Symbol) /\ Append(written[s], x) \in Seq(Symbol)
    BY <1>2, TypeFacts, AppendProperties
  <1>4. TypeOK'
    BY <1>1, <1>2, <1>3 DEF TypeOK, halia
  <1>5. ASSUME NEW r \in Stream, NEW l \in Seq(Symbol), Flows(r, l) PROVE written'[r] = (text[r] \o l) \o pipe'[r]
    <2>1. text[r] \o l \in Seq(Symbol) /\ pipe[r] \in Seq(Symbol)
      BY <1>2, TypeFacts, ConcatProperties
    <2>2. Append(written[r], x) = (text[r] \o l) \o Append(pipe[r], x)
      <3>. DEFINE w == text[r] \o l
      <3>. HIDE DEF w
      <3>1. w \in Seq(Symbol) /\ written[r] = w \o pipe[r]
        BY <1>5, <2>1 DEF Flows, w
      <3>2. Append(w \o pipe[r], x) = w \o Append(pipe[r], x)
        BY <2>1, <3>1, JoinEnd
      <3> QED
        BY <3>1, <3>2 DEF w
    <2>3. CASE r = s
      BY <1>1, <1>2, <2>2, <2>3, TypeFacts
    <2>4. CASE r # s
      BY <1>1, <1>2, <1>5, <2>4, TypeFacts DEF Flows
    <2> QED
      BY <2>3, <2>4
  <1>6. line \in Seq(Symbol) /\ <<>> \in Seq(Symbol) /\ "out" \in Stream /\ "err" \in Stream
    BY <1>2, TypeFacts DEF Stream
  <1>7. pc' \in {"search", "system", "out"} => Flows("out", line)' /\ Flows("err", <<>>)'
    <2>1. UNCHANGED <<pc, line, text>>
      BY <1>1 DEF halia
    <2>2. SUFFICES ASSUME pc \in {"search", "system", "out"} PROVE Flows("out", line)' /\ Flows("err", <<>>)'
      BY <2>1
    <2>3. Flows("out", line) /\ Flows("err", <<>>)
      BY <2>2 DEF ExecInv
    <2>4. /\ written'["out"] = (text["out"] \o line) \o pipe'["out"]
          /\ written'["err"] = (text["err"] \o <<>>) \o pipe'["err"]
      BY <1>5, <1>6, <2>3
    <2> QED
      BY <2>1, <2>4 DEF Flows
  <1>8. pc # "err" /\ (feedback = Nil \/ feedback.failed_before_execution)
    <2>1. ~\A q \in Process: process[q] \in {"none", "exited"}
      BY <1>2 DEF Closed
    <2> QED
      BY <1>2, <2>1 DEF ExecInv, FeedbackComplete
  <1>9. FeedbackComplete'
    BY <1>1, <1>8 DEF FeedbackComplete, halia
  <1> QED
    BY <1>1, <1>4, <1>7, <1>8, <1>9 DEF ExecInv, Begun, Whole, halia

LEMMA GetlineInv ==
  ASSUME ExecInv, NEW s \in Stream, Getline(s)
  PROVE  ExecInv'
  <1>. DEFINE x == Head(pipe[s])
  <1>1. /\ pc = s /\ pipe[s] # <<>> /\ pipe' = [pipe EXCEPT ![s] = Tail(@)]
        /\ UNCHANGED <<pc, process, status, exit_code, feedback, written>>
    BY DEF Getline
  <1>2. TypeOK /\ s \in {"out", "err"} /\ feedback = Nil
    BY <1>1 DEF ExecInv, Stream
  <1>3. /\ text[s] \in Seq(Symbol) /\ pipe[s] \in Seq(Symbol) /\ line \in Seq(Symbol) /\ Tail(pipe[s]) \in Seq(Symbol)
        /\ x \in Symbol /\ <<>> \in Seq(Symbol) /\ text[s] \o line \in Seq(Symbol)
    BY <1>1, <1>2, TypeFacts, HeadTail, ConcatProperties
  <1>4. written[s] = (text[s] \o line) \o pipe[s]
    BY <1>1, <1>2 DEF ExecInv, Flows
  <1>. HIDE DEF x
  <1>5. written[s] = ((text[s] \o line) \o <<x>>) \o Tail(pipe[s])
    BY <1>1, <1>3, <1>4, TakeHead DEF x
  <1>6. /\ line' \in Seq(Symbol) /\ text' \in [Stream -> Seq(Symbol)] /\ Begun(line') /\ Whole(text'[s])
        /\ \A r \in Stream: r # s => text'[r] = text[r]
        /\ text'[s] \o line' = (text[s] \o line) \o <<x>>
    <2>1. CASE x = "\n"
      <3>. DEFINE u == (text[s] \o line) \o <<x>>
      <3>1. u \in Seq(Symbol) /\ Len(u) = Len(text[s] \o line) + 1 /\ u[Len(text[s] \o line) + 1] = x
        BY <1>3, AppendConcat
      <3>2. text' = [text EXCEPT ![s] = u] /\ line' = <<>>
        <4>1. text' = [text EXCEPT ![s] = @ \o line \o <<"\n">>] /\ line' = <<>>
          BY <2>1 DEF Getline, x
        <4> QED
          BY <1>2, <2>1, <4>1, TypeFacts
      <3>. HIDE DEF u
      <3>3. text'[s] = u /\ \A r \in Stream: r # s => text'[r] = text[r]
        BY <1>2, <3>2, TypeFacts
      <3>4. text' \in [Stream -> Seq(Symbol)]
        BY <1>2, <3>1, <3>2 DEF TypeOK
      <3>5. Whole(u) /\ Begun(<<>>) /\ u \o <<>> = u
        BY <2>1, <3>1, EmptySeq, ConcatEmptySeq DEF Whole, Begun
      <3> QED
        BY <1>3, <3>2, <3>3, <3>4, <3>5 DEF u
    <2>2. CASE x # "\n"
      <3>1. line' = Append(line, x) /\ text' = text
        BY <2>2 DEF Getline, x
      <3>2. /\ line' = line \o <<x>> /\ line' \in Seq(Symbol) /\ Len(line') = Len(line) + 1 /\ line'[Len(line) + 1] = x
            /\ (\A n \in 1..Len(line): line'[n] = line[n]) /\ <<x>> \in Seq(Symbol) /\ Len(line) \in Nat
        BY <1>3, <3>1, AppendConcat, LenProperties
      <3>3. Begun(line')
        BY <2>2, <3>2 DEF ExecInv, Begun
      <3>4. text[s] \o line' = (text[s] \o line) \o <<x>>
        <4>. DEFINE e == <<x>>
                    t == text[s]
        <4>1. e \in Seq(Symbol) /\ line' = line \o e /\ t \in Seq(Symbol) /\ line \in Seq(Symbol)
          BY <1>3, <3>2
        <4>. HIDE DEF e, t
        <4>2. (t \o line) \o e = t \o (line \o e)
          BY <4>1, ConcatAssociative
        <4> QED
          BY <4>1, <4>2 DEF e, t
      <3> QED
        BY <1>2, <3>1, <3>2, <3>3, <3>4 DEF ExecInv, TypeOK
    <2> QED
      BY <2>1, <2>2
  <1>7. pipe'[s] = Tail(pipe[s]) /\ \A r \in Stream: r # s => pipe'[r] = pipe[r]
    BY <1>1, <1>2, TypeFacts
  <1>8. Flows(s, line)'
    BY <1>1, <1>5, <1>6, <1>7 DEF Flows
  <1>9. TypeOK'
    BY <1>1, <1>2, <1>3, <1>6 DEF TypeOK
  <1>10. \A r \in Stream: Whole(text'[r])
    BY <1>6 DEF ExecInv
  <1>11. FeedbackComplete'
    BY <1>1, <1>2 DEF FeedbackComplete
  <1>12. CASE s = "out"
    <2>1. pc' = "out" /\ Flows("err", <<>>)'
      BY <1>1, <1>6, <1>7, <1>12 DEF ExecInv, Flows, Stream
    <2> QED
      BY <1>1, <1>2, <1>6, <1>8, <1>9, <1>10, <1>11, <1>12, <2>1 DEF ExecInv, Begun, Whole
  <1>13. CASE s = "err"
    <2>1. text'["out"] = text["out"]
      BY <1>6, <1>13 DEF Stream
    <2> QED
      BY <1>1, <1>2, <1>6, <1>8, <1>9, <1>10, <1>11, <1>13, <2>1 DEF ExecInv, Begun, Whole, Closed
  <1> QED
    BY <1>2, <1>12, <1>13

LEMMA EndOfFileInv ==
  ASSUME ExecInv, NEW s \in Stream, EndOfFile(s)
  PROVE  ExecInv'
  <1>. DEFINE u == IF line = <<>> THEN text[s] ELSE text[s] \o line \o <<"\n">>
  <1>1. /\ pc = s /\ pipe[s] = <<>> /\ Closed /\ line' = <<>>
        /\ UNCHANGED <<process, status, pipe, exit_code, written>>
        /\ TypeOK /\ s \in {"out", "err"} /\ feedback = Nil /\ exit_code = status
        /\ Begun(line) /\ Whole(text[s])
    BY DEF EndOfFile, ExecInv, Stream
  <1>2. text[s] \in Seq(Symbol) /\ line \in Seq(Symbol) /\ <<>> \in Seq(Symbol) /\ text[s] \o line \in Seq(Symbol)
        /\ written[s] \in Seq(Symbol)
    BY <1>1, TypeFacts, ConcatProperties
  <1>3. written[s] = text[s] \o line
    <2>1. written[s] = (text[s] \o line) \o <<>>
      BY <1>1 DEF ExecInv, Flows
    <2> QED
      BY <1>2, <2>1, ConcatEmptySeq
  <1>4. u \in Seq(Symbol) /\ Whole(u) /\ Optional(u) = Lines(written[s])
    BY <1>1, <1>2, <1>3, LastLine
  <1>5. text' = [text EXCEPT ![s] = u]
    BY <1>1, TypeFacts DEF EndOfFile
  <1>. HIDE DEF u
  <1>6. text'[s] = u /\ (\A r \in Stream: r # s => text'[r] = text[r]) /\ text' \in [Stream -> Seq(Symbol)]
    BY <1>1, <1>4, <1>5, TypeFacts DEF TypeOK
  <1>7. (\A r \in Stream: Whole(text'[r])) /\ Begun(<<>>)
    BY <1>4, <1>6, EmptySeq DEF ExecInv, Begun
  <1>8. CASE s = "out"
    <2>1. pc' = "err" /\ feedback' = feedback
      BY <1>8 DEF EndOfFile
    <2>2. Flows("err", <<>>)'
      BY <1>1, <1>6, <1>8 DEF ExecInv, Flows, Stream
    <2>3. TypeOK' /\ FeedbackComplete'
      BY <1>1, <1>2, <1>6, <2>1 DEF TypeOK, FeedbackComplete
    <2>4. Optional(text'["out"]) = Lines(written["out"])
      BY <1>4, <1>6, <1>8
    <2> QED
      BY <1>1, <1>7, <2>1, <2>2, <2>3, <2>4 DEF ExecInv, Begun, Whole, Closed
  <1>9. CASE s = "err"
    <2>1. /\ pc' = "done"
          /\ feedback' = [output |-> Optional(text'["out"]), error |-> Optional(text'["err"]),
                          exit_code |-> exit_code, failed_before_execution |-> FALSE]
      BY <1>9 DEF EndOfFile
    <2>2. /\ Optional(text'["out"]) = Lines(written["out"]) /\ Optional(text'["err"]) = Lines(written["err"])
          /\ text'["out"] \in Seq(Symbol) /\ text'["err"] \in Seq(Symbol)
      <3>1. text'["out"] = text["out"]
        BY <1>6, <1>9 DEF Stream
      <3> QED
        BY <1>1, <1>4, <1>6, <1>9, <3>1 DEF ExecInv, Stream
    <2>3. exit_code \in Int
      BY <1>1, ExitAssumption DEF TypeOK
    <2>4. feedback' \in Feedback
      BY <2>1, <2>2, <2>3 DEF Feedback, Optional
    <2>5. TypeOK'
      BY <1>1, <1>2, <1>6, <2>1, <2>4 DEF TypeOK
    <2>6. FeedbackComplete'
      BY <1>1, <2>1, <2>2 DEF FeedbackComplete, Closed
    <2> QED
      BY <1>1, <1>7, <2>1, <2>5, <2>6 DEF ExecInv, Begun, Whole
  <1> QED
    BY <1>1, <1>8, <1>9

LEMMA ExecStep == ExecInv /\ [Next]_vars => ExecInv'
  <1>. SUFFICES ASSUME ExecInv, [Next]_vars PROVE ExecInv'
    OBVIOUS
  <1>1. ASSUME NEW p \in Process, NEW s \in Stream, Begin(p, s) PROVE ExecInv'
    <2>1. ~Closed
      BY <1>1 DEF Begin, Closed
    <2> QED
      BY <1>1, <2>1, ProcessInv DEF Begin, ExecInv, TypeOK
  <1>2. CASE Fork
    <2>1. ~Closed
      BY <1>2 DEF Fork, Closed, Process
    <2> QED
      BY <1>2, <2>1, ProcessInv DEF Fork, ExecInv, TypeOK
  <1>3. ASSUME NEW p \in Process, Exit(p) PROVE ExecInv'
    <2>1. ~Closed
      BY <1>3 DEF Exit, Closed
    <2> QED
      BY <1>3, <2>1, ProcessInv DEF Exit, ExecInv, TypeOK
  <1>4. CASE FailsToStart
    <2>1. TypeOK'
      <3>1. exit_code \in Int
        BY ExitAssumption DEF ExecInv, TypeOK
      <3>2. feedback' \in Feedback
        BY <1>4, <3>1 DEF FailsToStart, Feedback
      <3> QED
        BY <1>4, <3>2 DEF FailsToStart, ExecInv, TypeOK
    <2> QED
      BY <1>4, <2>1 DEF FailsToStart, ExecInv, Begun, Whole, FeedbackComplete
  <1>5. CASE Starts
    <2>1. TypeOK' /\ FeedbackComplete' /\ feedback = Nil
      BY <1>5 DEF Starts, ExecInv, TypeOK, FeedbackComplete
    <2> QED
      BY <1>5, <2>1 DEF Starts, ExecInv, Begun, Whole, Flows
  <1>6. CASE SystemReturns
    <2>1. TypeOK' /\ FeedbackComplete' /\ feedback = Nil
      BY <1>6 DEF SystemReturns, ExecInv, TypeOK, FeedbackComplete
    <2> QED
      BY <1>6, <2>1 DEF SystemReturns, ExecInv, Begun, Whole, Flows
  <1>7. CASE UNCHANGED vars
    BY <1>7 DEF vars, ExecInv, TypeOK, FeedbackComplete, Begun, Whole, Flows, Closed
  <1> QED
    BY <1>1, <1>2, <1>3, <1>4, <1>5, <1>6, <1>7, WriteInv, GetlineInv, EndOfFileInv
       DEF Next, Call, Halia, Runs, Done

----------------------------------------------------------------------------
(* Theorems *)

LEMMA StdStep == ArgsInv /\ ExecInv /\ [StdNext]_StdVars => ArgsInv' /\ ExecInv'
  <1>. SUFFICES ASSUME ArgsInv, ExecInv, [StdNext]_StdVars PROVE ArgsInv' /\ ExecInv'
    OBVIOUS
  <1>1. CASE AskArgs
    BY <1>1, ArgsStepInv, ExecStep DEF AskArgs
  <1>2. CASE RunProgram
    <2>1. ExecInv'
      BY <1>2, ExecStep DEF RunProgram
    <2>2. answer'.asked = "execute" /\ UNCHANGED <<args, call, cursor, table>>
      BY <1>2 DEF RunProgram
    <2>3. ArgsInv'
      BY <2>2, KeepLoop, KeepParses, KeepAt DEF ArgsInv, ArgsTypeOK
    <2> QED
      BY <2>1, <2>3
  <1>3. CASE UNCHANGED StdVars
    BY <1>3, ArgsStepInv, ExecStep DEF StdVars
  <1> QED
    BY <1>1, <1>2, <1>3 DEF StdNext

LEMMA StdInvariant == StdSpec => [](ArgsInv /\ ExecInv)
  <1>1. StdInit => ArgsInv /\ ExecInv
    BY ArgsInitInv, ExecInit DEF StdInit
  <1> QED
    BY <1>1, StdStep, PTL DEF StdSpec

\* Every variable of std.process keeps its type.
THEOREM TypesCorrect == StdSpec => [](TypeOK /\ ArgsTypeOK)
  <1>1. ArgsInv /\ ExecInv => TypeOK /\ ArgsTypeOK
    BY DEF ArgsInv, ExecInv
  <1> QED
    BY <1>1, StdInvariant, PTL

\* parse_params and parse_flags return what they promise, for all arguments.
THEOREM ParsersAreExact == StdSpec => []ParsesExactly
  <1>1. ArgsInv => ParsesExactly
    BY DEF ArgsInv
  <1> QED
    BY <1>1, StdInvariant, PTL

\* at never reads behind the arguments, however wide int and size_t are, as
\* long as the difference between them makes a negative index a large one.
THEOREM AtIsInside == StdSpec => []AtStaysInside
  <1>1. ArgsInv => AtStaysInside
    BY DEF ArgsInv
  <1> QED
    BY <1>1, StdInvariant, PTL

\* execute returns all that was written, for all programs and sizes of pipes.
THEOREM ExecuteIsComplete == StdSpec => []FeedbackComplete
  <1>1. ExecInv => FeedbackComplete
    BY DEF ExecInv
  <1> QED
    BY <1>1, StdInvariant, PTL
=============================================================================
