------------------------------- MODULE Execute -------------------------------
(***************************************************************************)
(* std.process.execute: Halia starts a program with pipes for its standard *)
(* output and its standard error, waits for it to exit, and only then      *)
(* reads the pipes, one after the other, to their ends. The program runs   *)
(* concurrently, and may leave behind a process that holds the pipes open. *)
(***************************************************************************)
EXTENDS Integers, Sequences, FiniteSets

CONSTANTS
  Capacity,   \* of a pipe: a writer waits while it is full
  MaxSize,    \* bound: what is written to one pipe
  ExitCodes,  \* of programs
  Nil         \* std::nullopt

ASSUME SizeAssumption == Capacity \in Nat \ {0} /\ MaxSize \in Nat
ASSUME ExitAssumption == ExitCodes \subseteq Int

Stream == {"out", "err"}
Process == {"program", "heir"}
Symbol == {"x", "\n"}   \* text is told apart as far as its lines

VARIABLES
  pc,        \* "search" | "system" | "out" | "err" | "done"
  process,   \* per process: "none" | "running" | "exited", or the stream it writes to
  status,    \* the exit code of the program
  pipe,      \* per stream: what was written and not yet read
  line,      \* what getline has read of the line
  text,      \* per stream: the strings out and err of execute
  exit_code,
  feedback,  \* what execute returned; Nil before
  written    \* history: all that was written, per stream

vars == <<pc, process, status, pipe, line, text, exit_code, feedback, written>>
halia == <<pc, line, text, exit_code, feedback>>

Init ==
  /\ pc = "search" /\ process = [p \in Process |-> "none"]
  /\ status \in ExitCodes
  /\ pipe = [s \in Stream |-> <<>>] /\ written = [s \in Stream |-> <<>>]
  /\ line = <<>> /\ text = [s \in Stream |-> <<>>]
  /\ exit_code = -1 /\ feedback = Nil

----------------------------------------------------------------------------
(* The program, and what it leaves behind *)

\* A process calls write, and waits in it until there is room.
Begin(p, s) ==
  /\ process[p] = "running"
  /\ Len(written[s]) + Cardinality({q \in Process: process[q] = s}) < MaxSize
  /\ process' = [process EXCEPT ![p] = s]
  /\ UNCHANGED <<status, pipe, written, halia>>

Write(p, s) ==
  \E x \in Symbol:
    /\ process[p] = s /\ Len(pipe[s]) < Capacity
    /\ process' = [process EXCEPT ![p] = "running"]
    /\ pipe' = [pipe EXCEPT ![s] = Append(@, x)]
    /\ written' = [written EXCEPT ![s] = Append(@, x)]
    /\ UNCHANGED <<status, halia>>

Fork ==
  /\ process["program"] = "running" /\ process["heir"] = "none"
  /\ process' = [process EXCEPT !["heir"] = "running"]
  /\ UNCHANGED <<status, pipe, written, halia>>

Exit(p) ==
  /\ process[p] = "running"
  /\ process' = [process EXCEPT ![p] = "exited"]
  /\ UNCHANGED <<status, pipe, written, halia>>

\* No process that could write is left.
Closed == \A p \in Process: process[p] \in {"none", "exited"}

----------------------------------------------------------------------------
(* execute *)

\* The program is not found, or cannot be started: the exception is caught.
FailsToStart ==
  /\ pc = "search"
  /\ pc' = "done"
  /\ feedback' = [output |-> Nil, error |-> "what", exit_code |-> exit_code,
                  failed_before_execution |-> TRUE]
  /\ UNCHANGED <<process, status, pipe, line, text, exit_code, written>>

Starts ==
  /\ pc = "search"
  /\ pc' = "system" /\ process' = [process EXCEPT !["program"] = "running"]
  /\ UNCHANGED <<status, pipe, line, text, exit_code, feedback, written>>

\* bp::system returns: the program has exited.
SystemReturns ==
  /\ pc = "system" /\ process["program"] = "exited"
  /\ pc' = "out" /\ exit_code' = status
  /\ UNCHANGED <<process, status, pipe, line, text, feedback, written>>

\* getline takes what the pipe has; a newline ends the line.
Getline(s) ==
  /\ pc = s /\ pipe[s] # <<>>
  /\ pipe' = [pipe EXCEPT ![s] = Tail(@)]
  /\ IF Head(pipe[s]) = "\n"
     THEN /\ text' = [text EXCEPT ![s] = @ \o line \o <<"\n">>] /\ line' = <<>>
     ELSE line' = Append(line, Head(pipe[s])) /\ UNCHANGED text
  /\ UNCHANGED <<pc, process, status, exit_code, feedback, written>>

Optional(t) == IF t = <<>> THEN Nil ELSE t

\* Mutant: a last line without newline is lost.
EndOfFileStrict(s) ==
  /\ pc = s /\ pipe[s] = <<>> /\ Closed
  /\ line' = <<>> /\ UNCHANGED text
  /\ IF s = "out" THEN pc' = "err" /\ UNCHANGED feedback
     ELSE /\ pc' = "done"
          /\ feedback' = [output |-> Optional(text'["out"]), error |-> Optional(text'["err"]),
                          exit_code |-> exit_code, failed_before_execution |-> FALSE]
  /\ UNCHANGED <<process, status, pipe, exit_code, written>>

\* Mutant: the loop does not notice the end of the stream.
EndOfFileSpins(s) == pc = s /\ pipe[s] = <<>> /\ Closed /\ UNCHANGED vars

\* The end of a stream: what there is of a last line counts as a line.
EndOfFile(s) ==
  /\ pc = s /\ pipe[s] = <<>> /\ Closed
  /\ line' = <<>>
  /\ text' = [text EXCEPT ![s] = IF line = <<>> THEN @ ELSE @ \o line \o <<"\n">>]
  /\ IF s = "out" THEN pc' = "err" /\ UNCHANGED feedback
     ELSE /\ pc' = "done"
          /\ feedback' = [output |-> Optional(text'["out"]), error |-> Optional(text'["err"]),
                          exit_code |-> exit_code, failed_before_execution |-> FALSE]
  /\ UNCHANGED <<process, status, pipe, exit_code, written>>

Done == pc = "done" /\ UNCHANGED vars

Call == FailsToStart \/ Starts
Halia == SystemReturns \/ \E s \in Stream: Getline(s) \/ EndOfFile(s)
Runs(p) == Exit(p) \/ \E s \in Stream: Begin(p, s) \/ Write(p, s)

Next == Call \/ Halia \/ Fork \/ (\E p \in Process: Runs(p)) \/ Done

Spec == Init /\ [][Next]_vars

----------------------------------------------------------------------------
(* Properties *)

Feedback ==
  [output: (Seq(Symbol) \ {<<>>}) \union {Nil}, error: (Seq(Symbol) \ {<<>>}) \union {Nil, "what"},
   exit_code: Int, failed_before_execution: BOOLEAN]

TypeOK ==
  /\ pc \in {"search", "system", "out", "err", "done"}
  /\ process \in [Process -> {"none", "running", "exited"} \union Stream]
  /\ status \in ExitCodes /\ exit_code \in ExitCodes \union {-1}
  /\ pipe \in [Stream -> Seq(Symbol)] /\ written \in [Stream -> Seq(Symbol)]
  /\ line \in Seq(Symbol) /\ text \in [Stream -> Seq(Symbol)]
  /\ feedback = Nil \/ feedback \in Feedback

\* Text as execute returns it: its last line ends with a newline.
Lines(t) ==
  CASE t = <<>> -> Nil
    [] t # <<>> /\ t[Len(t)] = "\n" -> t
    [] OTHER -> Append(t, "\n")

\* What execute returns is all that the program and the processes that it left
\* behind ever wrote to each stream, line by line and in order, with the exit
\* code of the program, however the writes and the reads interleave.
FeedbackComplete ==
  feedback # Nil /\ ~feedback.failed_before_execution =>
    /\ feedback.output = Lines(written["out"]) /\ feedback.error = Lines(written["err"])
    /\ feedback.exit_code = status
    /\ \A p \in Process: process[p] \in {"none", "exited"}
============================================================================
