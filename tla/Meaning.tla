------------------------------- MODULE Meaning --------------------------------
(* What a program means: the abstract specification of the translation of      *)
(* ControlFlow as Machine executes it.  docs/JAVASCRIPT.md promises what       *)
(* JavaScript does: a finally block runs on every path out of its try, and a   *)
(* completion of its own replaces the one it interrupts; a variable is a cell, *)
(* and each entry of its scope, and each iteration of its loop, makes one.     *)
(*                                                                             *)
(* The state m of an execution is [program, asked, out, cells, kept, settled]. *)
(* What a statement does to it is a completion [m, env, how, at]: env gives    *)
(* the cell of each variable in scope, how is normal, break or continue (with  *)
(* the label as at), or throw or return (with the value as at).                *)
EXTENDS Statements, TLC

Completion(m, env, how, at) == [m |-> m, env |-> env, how |-> how, at |-> at]

Normal(m, env) == Completion(m, env, "normal", None)

Answer(m) == m.asked < Len(m.program.tape) /\ m.program.tape[m.asked + 1]

Asked(m) == [m EXCEPT !.asked = @ + 1]

Said(m, v) == [m EXCEPT !.out = Append(@, v)]

Bind(m, env, x, v) ==
  Normal([m EXCEPT !.cells = Append(@, v)], (x :> Len(m.cells) + 1) @@ env)

BindIf(m, env, x, v) == IF x = None THEN Normal(m, env) ELSE Bind(m, env, x, v)

RECURSIVE Do(_, _, _), Sequence(_, _, _), Iterate(_, _, _, _)

Sequence(m, env, body) ==
  IF body = <<>> THEN Normal(m, env)
  ELSE LET r == Do(m, env, Head(body)) IN
       IF r.how = "normal" THEN Sequence(r.m, r.env, Tail(body)) ELSE r

Enter(m, env, body) == [Sequence(m, env, body) EXCEPT !.env = env]

(* A break or continue belongs to the innermost statement it can name.         *)
Leaves(r, label) == r.how = "break" /\ r.at \in {None, label}

Repeats(r, label) == r.how = "normal" \/ (r.how = "continue" /\ r.at \in {None, label})

Called(m, f) ==
  LET r == Sequence(m, <<>>, m.program.functions[f]) IN
  IF r.how = "normal" THEN Completion(r.m, <<>>, "return", 0) ELSE r

Iterate(m, env, s, value) ==
  LET first == s.is = "doWhile"
      bound == BindIf(IF first THEN m ELSE Asked(m), env, s.name, value)
      r     == Sequence(bound.m, bound.env, s.parts[1])
      next  == IF s.is = "for" THEN r.m.cells[bound.env[s.name]] + 1 ELSE value + 1
  IN IF ~first /\ ~Answer(m) THEN Normal(Asked(m), env)
     ELSE IF Leaves(r, s.label) THEN Normal(r.m, env)
     ELSE IF ~Repeats(r, s.label) THEN [r EXCEPT !.env = env]
     ELSE IF ~first THEN Iterate(r.m, env, s, next)
     ELSE IF Answer(r.m) THEN Iterate(Asked(r.m), env, s, next) ELSE Normal(Asked(r.m), env)

Caught(r, env, s) ==
  IF r.how # "throw" \/ s.parts[2] = None THEN r
  ELSE LET bound == BindIf(r.m, env, s.name, r.at) IN
       [Sequence(bound.m, bound.env, s.parts[2]) EXCEPT !.env = env]

AfterFinally(r, env, s) ==
  IF s.parts[3] = None THEN r
  ELSE LET f == Enter(r.m, env, s.parts[3]) IN
       IF f.how = "normal" THEN [r EXCEPT !.m = f.m] ELSE f

Do(m, env, s) ==
  CASE s.is = "say"  -> Normal(Said(m, s.value), env)
    [] s.is = "let"  -> Bind(m, env, s.name, s.value)
    [] s.is = "show" -> Normal(Said(m, m.cells[env[s.name]]), env)
    [] s.is = "bump" -> Normal([m EXCEPT !.cells[env[s.name]] = @ + 1], env)
    [] s.is = "keep" -> Normal([m EXCEPT !.kept = Append(@, env[s.name])], env)
    [] s.is \in {"call", "callback"} ->
         LET r == Called(m, s.value) IN
         IF r.how = "throw" THEN [r EXCEPT !.env = env] ELSE Normal(Said(r.m, r.at), env)
    [] s.is \in {"throw", "return"} -> Completion(m, env, s.is, s.value)
    [] s.is \in {"break", "continue"} -> Completion(m, env, s.is, s.label)
    [] s.is = "block" -> Enter(m, env, s.parts[1])
    [] s.is = "if" -> IF Answer(m) THEN Enter(Asked(m), env, s.parts[1]) ELSE Normal(Asked(m), env)
    [] s.is = "labeled" ->
         LET r == Enter(m, env, s.parts[1]) IN
         IF r.how = "break" /\ r.at = s.label THEN Normal(r.m, env) ELSE r
    [] s.is = "switch" ->
         LET body == IF Answer(m) THEN s.parts[1] ELSE s.parts[2]
             r    == IF body = None THEN Normal(Asked(m), env) ELSE Enter(Asked(m), env, body)
         IN IF Leaves(r, None) THEN Normal(r.m, env) ELSE r
    [] s.is = "try" -> AfterFinally(Caught(Enter(m, env, s.parts[1]), env, s), env, s)
    [] OTHER -> Iterate(m, env, s, 0)

(* The jobs run one after the other; a throw that escapes one ends that job.   *)
Outcome(program) ==
  FoldLeft(LAMBDA m, f : LET r == Called(m, f) IN
                         [r.m EXCEPT !.settled = Append(@, [how |-> r.how, value |-> r.at])],
           [program |-> program, asked |-> 0, out |-> <<>>, cells |-> <<>>, kept |-> <<>>,
            settled |-> <<>>],
           program.jobs)

KeptValues(m) == [i \in DOMAIN m.kept |-> m.cells[m.kept[i]]]
==============================================================================
