------------------------------ MODULE ArgsSpan ------------------------------
(***************************************************************************)
(* std.process.args: the arguments of the process, which scripts read by   *)
(* index or as a table, or have parsed. Parameters are `--key value`, and  *)
(* flags are `-key`. The two parsers are loops, stepped through here.      *)
(***************************************************************************)
EXTENDS Integers, Sequences

CONSTANTS
  Word,      \* texts that begin with no dash
  MaxDashes, \* bound: the dashes in front of a word
  MaxArgs,   \* bound: the arguments of the process
  IntLimit,  \* 2^31: int has the numbers from -IntLimit to IntLimit - 1
  SizeLimit  \* 2^64: size_t has the numbers below SizeLimit

ASSUME DashAssumption == MaxDashes \in Nat
ASSUME WidthAssumption ==
  /\ MaxArgs \in Nat /\ IntLimit \in Nat /\ SizeLimit \in Nat
  /\ MaxArgs < IntLimit                \* argc is an int
  /\ SizeLimit >= 2 * IntLimit

\* An argument: a word with dashes in front of it.
Argument == [dashes: 0..MaxDashes, rest: Word]

VARIABLES
  args,    \* halia::core::args_span()
  call,    \* the parser that runs, or "none"
  cursor,  \* its index, from zero
  table,   \* the table it fills
  answer   \* what scripts asked last, and what they got

argsVars == <<args, call, cursor, table, answer>>

Empty == [k \in {} |-> TRUE]

ArgsInit ==
  /\ \E n \in 0..MaxArgs: args \in [1..n -> Argument]
  /\ call = "none" /\ cursor = 0 /\ table = Empty
  /\ answer = [asked |-> "nothing"]

----------------------------------------------------------------------------
(* Reading an argument *)

\* substr(n), of an argument with that many dashes.
Substr(a, n) == [a EXCEPT !.dashes = @ - n]

is_param(a) == a.dashes >= 2

\* arg[0] is a dash, and arg[1] is none: behind a lone dash lies the
\* terminator of the C string.
IsFlag(a) == a.dashes >= 1 /\ a.dashes < 2

SetField(t, k, v) == [x \in DOMAIN t \union {k} |-> IF x = k THEN v ELSE t[x]]

----------------------------------------------------------------------------
(* at, size and totable *)

\* An int compared with a size_t becomes one.
ToSize(n) == IF n < 0 THEN n + SizeLimit ELSE n

\* What lies at index k; behind the last argument, anything.
Element(k) == IF k < Len(args) THEN {args[k + 1]} ELSE Argument

\* A call gives one value, or raises an error and gives none.
Answer(what, n, got) ==
  /\ answer' = [asked |-> what, at |-> n, got |-> got]
  /\ UNCHANGED <<args, call, cursor, table>>

\* Mutant: the index is compared as an int.
AtSigned(n) ==
  /\ call = "none"
  /\ \/ n >= Len(args) /\ Answer("at", n, <<>>)
     \/ n < Len(args) /\ \E a \in Element(ToSize(n)): Answer("at", n, <<a>>)

At(n) ==
  /\ call = "none"
  /\ \/ ToSize(n) >= Len(args) /\ Answer("at", n, <<>>)
     \/ ToSize(n) < Len(args) /\ \E a \in Element(ToSize(n)): Answer("at", n, <<a>>)

Size == call = "none" /\ Answer("size", 0, <<Len(args)>>)

ToTable == call = "none" /\ Answer("totable", 0, <<args>>)

----------------------------------------------------------------------------
(* parse_params and parse_flags *)

ParserBegins(parser) ==
  /\ call = "none"
  /\ call' = parser /\ cursor' = 0 /\ table' = Empty
  /\ UNCHANGED <<args, answer>>

\* Mutant: a parameter takes whatever follows it.
TakesNextGreedy(k) == is_param(args[k + 1]) /\ k + 1 < Len(args)

\* The argument at index k is a parameter, and a value follows it.
TakesNext(k) == is_param(args[k + 1]) /\ k + 1 < Len(args) /\ ~is_param(args[k + 2])

Param ==
  /\ call = "parse_params" /\ cursor < Len(args)
  /\ IF TakesNext(cursor)
     THEN /\ table' = SetField(table, Substr(args[cursor + 1], 2), args[cursor + 2])
          /\ cursor' = cursor + 2
     ELSE cursor' = cursor + 1 /\ UNCHANGED table
  /\ UNCHANGED <<args, call, answer>>

Flag ==
  /\ call = "parse_flags" /\ cursor < Len(args)
  /\ table' = IF IsFlag(args[cursor + 1])
              THEN SetField(table, Substr(args[cursor + 1], 1), TRUE) ELSE table
  /\ cursor' = cursor + 1
  /\ UNCHANGED <<args, call, answer>>

Return ==
  /\ call # "none" /\ cursor >= Len(args)
  /\ answer' = [asked |-> call, at |-> 0, got |-> <<table>>]
  /\ call' = "none" /\ UNCHANGED <<args, cursor, table>>

Parser == Param \/ Flag \/ Return

ArgsNext ==
  \/ \E n \in -IntLimit..(IntLimit - 1): At(n)
  \/ Size \/ ToTable
  \/ \E parser \in {"parse_params", "parse_flags"}: ParserBegins(parser)
  \/ Parser

ArgsSpec == ArgsInit /\ [][ArgsNext]_argsVars

----------------------------------------------------------------------------
(* Properties *)

ArgsTypeOK ==
  /\ args \in Seq(Argument) /\ Len(args) <= MaxArgs
  /\ call \in {"none", "parse_params", "parse_flags"} /\ cursor \in Nat
  /\ \A k \in DOMAIN table: k \in Argument /\ table[k] \in Argument \union {TRUE}

\* The n-th argument gives a parameter its value.
Gives(n) ==
  /\ n \in DOMAIN args /\ n + 1 \in DOMAIN args
  /\ is_param(args[n]) /\ ~is_param(args[n + 1])

\* Of the first n arguments, those that give a parameter its value and are the
\* last to do so make up the table.
ParamsOf(t, n) ==
  /\ DOMAIN t = {Substr(args[j], 2): j \in {j \in 1..n: Gives(j)}}
  /\ \A j \in 1..n:
       Gives(j) /\ (\A m \in (j + 1)..n: Gives(m) => args[m] # args[j])
         => t[Substr(args[j], 2)] = args[j + 1]

FlagsOf(t, n) ==
  /\ DOMAIN t = {Substr(args[j], 1): j \in {j \in 1..n: args[j].dashes = 1}}
  /\ \A k \in DOMAIN t: t[k] = TRUE

\* parse_params returns every parameter that an argument which is none follows,
\* with its latest value, and parse_flags every flag, whatever the arguments
\* are, repeat and lack, although the one skips what it has used up.
ParsesExactly ==
  /\ answer.asked = "parse_params" => ParamsOf(answer.got[1], Len(args))
  /\ answer.asked = "parse_flags" => FlagsOf(answer.got[1], Len(args))

\* at gives an argument of the process or raises an error, for every int: a
\* negative one, too, although no line of it asks for the sign.
AtStaysInside ==
  answer.asked = "at" =>
    \/ answer.at \in 0..(Len(args) - 1) /\ answer.got = <<args[answer.at + 1]>>
    \/ answer.at \notin 0..(Len(args) - 1) /\ answer.got = <<>>
=============================================================================
