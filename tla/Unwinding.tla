------------------------------ MODULE Unwinding -------------------------------
(* The compiler and the machine together: a program of statements is           *)
(* translated, its code is executed, and what it does is compared with what    *)
(* the program means.                                                          *)
EXTENDS ControlFlow, Meaning, Machine

CONSTANTS
  Entry, Exit  \* what the programs print first in a try and first in its finally

Compiled(source) ==
  [source |-> source, jobs |-> source.jobs, tape |-> source.tape,
   chunks |-> [f \in DOMAIN source.functions |-> compileFunctionAs(source.functions[f])]]

(* What a program prints, and how each of its jobs ends, is what its           *)
(* statements mean in JavaScript (docs/JAVASCRIPT.md): the stack, the handlers *)
(* and the jumps of the code agree wherever control goes.                      *)
SaysWhatItMeans ==
  Finished => LET m == Outcome(program.source) IN out = m.out /\ settled = m.settled

(* A closure that is kept reads the variable it captured, with the value that  *)
(* variable has: one cell for each entry of its scope and each iteration.      *)
ClosuresKeepTheirVariables ==
  Finished => [i \in DOMAIN kept |-> UpvalueValue(kept[i])] = KeptValues(Outcome(program.source))

(* docs/GRAMMAR.md: finally runs on every path out of the block, including     *)
(* return, break and continue, and it covers the catch as well as the body.    *)
FinallyAlwaysRuns ==
  Finished => Len(SelectSeq(out, LAMBDA v : v = Entry)) = Len(SelectSeq(out, LAMBDA v : v = Exit))
==============================================================================
