----------------------------- MODULE CommandLine -----------------------------
(***************************************************************************)
(* What main (src/src/main.cpp) makes of its arguments, as functions: the  *)
(* loop over argv, the decisions that follow it, and the cleaning of a     *)
(* module name.  An argument is a record [sw, val]: the letter of a switch *)
(* ("" for a file name) with its value, None if it has none.  A character  *)
(* of a name is " ", "-", "x" (allowed) or "?" (any other).                *)
(***************************************************************************)
EXTENDS Sequences, SequencesExt

CONSTANTS None,      \* no value
          MaxName    \* the characters that cleanName has room for: 31

\* Switches that take a value.
Valued == {"b", "D", "f", "i", "I", "n", "p"}

\* main's local variables.  usage: the program has printed its usage and left.
Defaults ==
  [usage |-> FALSE, file |-> None, write |-> FALSE, type |-> {}, serial |-> FALSE,
   name |-> None, reset |-> FALSE, done |-> FALSE, terminal |-> FALSE, rom |-> FALSE]

\* One turn of the loop.  Switches that only choose a board, a message format
\* or a port's name leave these variables alone.
Argument(o, a) ==
  CASE o.usage -> o
    [] a.sw \in Valued /\ a.val = None -> [o EXCEPT !.usage = TRUE]
    [] a.sw = ""  -> IF o.file # None THEN [o EXCEPT !.usage = TRUE] ELSE [o EXCEPT !.file = a.val]
    [] a.sw = "f" -> [o EXCEPT !.file = a.val, !.write = TRUE]
    [] a.sw = "D" -> [o EXCEPT !.rom = (a.val = "rom")]
    [] a.sw = "e" -> [o EXCEPT !.type = @ \cup {"program"}]
    [] a.sw = "r" -> [o EXCEPT !.type = @ \cup {"run"}]
    [] a.sw = "i" -> [o EXCEPT !.serial = FALSE]
    [] a.sw \in {"p", "s"} -> [o EXCEPT !.serial = TRUE]
    [] a.sw = "n" -> [o EXCEPT !.name = a.val, !.done = TRUE]
    [] a.sw = "R" -> [o EXCEPT !.reset = TRUE, !.done = TRUE]
    [] a.sw \in {"P", "W"} -> [o EXCEPT !.done = TRUE]
    [] a.sw \in {"t", "T"} -> [o EXCEPT !.terminal = TRUE]
    [] a.sw \in {"b", "c", "I", "v"} -> o
    [] OTHER -> [o EXCEPT !.usage = TRUE]

Options(argv) == FoldLeft(Argument, Defaults, argv)

\* What is left to do: nothing after a usage message or the lists of -P and -W.
Task(o) ==
  CASE o.usage \/ ~(o.done \/ o.reset \/ o.file # None \/ o.terminal) -> "usage"
    [] ~(o.reset \/ o.file # None \/ o.name # None \/ o.terminal) -> "nothing"
    [] OTHER -> "connect"

\* 'Download and run' unless -e or -r are specified.
Type(o) == IF o.type = {} THEN {"run"} ELSE o.type

-----------------------------------------------------------------------------
\* The name of a module.

Blank(c) == c \in {" ", "-"}

\* Leading spaces and hyphens, as the first loop skips them.
SkipBlanks(s) ==
  LET n == CHOOSE n \in 0 .. Len(s) :
             /\ \A i \in 1 .. n : Blank(s[i])
             /\ n < Len(s) => ~Blank(s[n + 1])
  IN  SubSeq(s, n + 1, Len(s))

\* One character: a run of spaces becomes one hyphen, others are kept or dropped.
Copied(r, c) ==
  CASE Len(r.out) >= MaxName -> r
    [] c = " " -> [out |-> IF r.spaces THEN r.out ELSE Append(r.out, "-"), spaces |-> TRUE]
    [] c \in {"x", "-"} -> [out |-> Append(r.out, c), spaces |-> FALSE]
    [] OTHER -> r

CleanName(name) ==
  LET out == FoldLeft(Copied, [out |-> <<>>, spaces |-> FALSE], SkipBlanks(name)).out
  IN  Reverse(SkipBlanks(Reverse(out)))
=============================================================================
