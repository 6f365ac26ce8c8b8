----------------------------- MODULE ControlFlow -----------------------------
(* How the compiler translates statements (compiler_node_statement.c,          *)
(* compiler_statement.c, and the scopes and loops of compiler.c).              *)
(*                                                                             *)
(* An expression is reduced to the instructions that matter to control flow    *)
(* and to captured variables: a constant, a local, a call, a closure.  A       *)
(* condition is the next answer of an oracle (JUMP_IF_FALSE), and so is        *)
(* whether an iterable has another element (ITER_STEP).  Jumps hold the place  *)
(* they lead to rather than the distance.  OP_POP_N is as many OP_POPs.        *)
EXTENDS Statements

(* What the compiler of a function knows: the code so far, the locals that     *)
(* name its stack slots, the scope, and the loops and tries it is inside of.   *)
Emit(c, op, a) == [c EXCEPT !.code = Append(@, [op |-> op, a |-> a])]

Here(c) == Len(c.code) + 1

Patched(c, jumps) ==
  [c EXCEPT !.code =
     [i \in DOMAIN c.code |->
        IF i \in jumps THEN [c.code[i] EXCEPT !.a = Here(c)] ELSE c.code[i]]]

addLocal(c, x) ==
  [c EXCEPT !.locals = Append(@, [name |-> x, depth |-> c.depth, captured |-> FALSE])]

resolveLocal(c, x) == Max({i \in DOMAIN c.locals : c.locals[i].name = x}) - 1

(* Mutant: the scope does not know that a closure has captured its local.      *)
MutCapture(c, slot) == c

Capture(c, slot) == [c EXCEPT !.locals[slot + 1].captured = TRUE]

beginScope(c) == [c EXCEPT !.depth = @ + 1]

discardLocalsAbove(c, depth) ==
  FoldLeft(LAMBDA d, local : Emit(d, IF local.captured THEN "CLOSE_UPVALUE" ELSE "POP", 0),
           c,
           Reverse(SelectSeq(c.locals, LAMBDA local : local.depth > depth)))

endScope(c) ==
  LET outer == c.depth - 1 IN
  [discardLocalsAbove(c, outer) EXCEPT
     !.depth  = outer,
     !.locals = SelectSeq(@, LAMBDA local : local.depth <= outer)]

beginLoop(c, label, allowsContinue) ==
  [c EXCEPT !.loops = Append(@, [label |-> label, allowsContinue |-> allowsContinue,
                                 depth |-> c.depth, breaks |-> {}, continues |-> {}])]

PatchContinues(c) == Patched(c, Last(c.loops).continues)

endLoop(c) == [Patched(c, Last(c.loops).breaks) EXCEPT !.loops = Front(@)]

(* The loop, or the statement, that a break or a continue names.               *)
compilerTargetLoop(c, label, needsContinue) ==
  Max({i \in DOMAIN c.loops :
         IF label = None
         THEN needsContinue => c.loops[i].allowsContinue
         ELSE c.loops[i].label = label})

(* Whether there is a closure in a statement: the walk does not enter a try, a *)
(* labelled statement or the value that is thrown.                             *)
RECURSIVE containsFunction(_)
containsFunction(s) ==
  \/ s.is = "keep"
  \/ /\ s.is \notin {"try", "labeled"}
     /\ \E p \in DOMAIN s.parts :
          s.parts[p] # None /\ \E i \in DOMAIN s.parts[p] : containsFunction(s.parts[p][i])

RECURSIVE CompileNode(_, _)

compileStatements(c, body) == FoldLeft(CompileNode, c, body)

Scoped(c, body) == endScope(compileStatements(beginScope(c), body))

Optional(c, finally) == IF finally = None THEN c ELSE Scoped(c, finally)

(* Mutant: a try that is left by a jump leaves its handler installed.          *)
MutUnwindTryBlocks(c, stopAtDepth) ==
  FoldLeft(LAMBDA d, context : Optional(d, context.finally), c,
           Reverse(SelectSeq(c.tries, LAMBDA context : context.depth > stopAtDepth)))

(* The try statements that are left stay the ones being compiled while their   *)
(* finally blocks are emitted.                                                 *)
unwindTryBlocks(c, stopAtDepth) ==
  FoldLeft(LAMBDA d, context :
             Optional(IF context.active THEN Emit(d, "END_TRY", 0) ELSE d, context.finally),
           c,
           Reverse(SelectSeq(c.tries, LAMBDA context : context.depth > stopAtDepth)))

compileJump(c, label, isContinue) ==
  LET target == compilerTargetLoop(c, label, isContinue)
      depth  == c.loops[target].depth
      left   == discardLocalsAbove(unwindTryBlocks(c, depth), depth)
      jump   == Here(left)
      done   == Emit(left, "JUMP", 0)
  IN IF isContinue
     THEN [done EXCEPT !.loops[target].continues = @ \cup {jump}]
     ELSE [done EXCEPT !.loops[target].breaks = @ \cup {jump}]

(* The body of a function has depth 1, so no try has depth 0.                  *)
compileReturn(c, value) == Emit(unwindTryBlocks(Emit(c, "CONSTANT", value), 0), "RETURN", 0)

compileIf(c, body) ==
  LET jump == Here(c) IN Patched(Scoped(Emit(c, "JUMP_IF_FALSE", 0), body), {jump})

compileWhile(c, label, body) ==
  LET start == Here(c)
      test  == Emit(beginLoop(c, label, TRUE), "JUMP_IF_FALSE", 0)
      again == Emit(PatchContinues(compileStatements(test, body)), "LOOP", start)
  IN endLoop(Patched(again, {start}))

compileDoWhile(c, label, body) ==
  LET start == Here(c)
      test  == PatchContinues(compileStatements(beginLoop(c, label, TRUE), body))
      again == Emit(Emit(test, "JUMP_IF_FALSE", 0), "LOOP", start)
  IN endLoop(Patched(again, {Here(test)}))

(* With a closure in the body, each iteration has a copy of the variable,      *)
(* which is written back before the increment.                                 *)
compileFor(c, label, x, body) ==
  LET init  == addLocal(Emit(beginScope(c), "CONSTANT", 0), x)
      outer == Len(init.locals) - 1
      start == Here(init)
      test  == Emit(beginLoop(init, label, TRUE), "JUMP_IF_FALSE", 0)
      copied == \E i \in DOMAIN body : containsFunction(body[i])
      enter == IF copied THEN addLocal(Emit(beginScope(test), "GET_LOCAL", outer), x) ELSE test
      run   == PatchContinues(compileStatements(enter, body))
      leave == IF copied
               THEN endScope(Emit(Emit(run, "GET_LOCAL", outer + 1), "SET_LOCAL_POP", outer))
               ELSE run
      again == Emit(Emit(leave, "INC_LOCAL", outer), "LOOP", start)
  IN endScope(endLoop(Patched(again, {start})))

(* Two hidden locals, the iterable and the index; the element is a local of    *)
(* the iteration.                                                              *)
compileForOf(c, label, x, body) ==
  LET iterable == addLocal(Emit(beginScope(c), "CONSTANT", 0), " iterable")
      index == addLocal(Emit(iterable, "CONSTANT", 0), " index")
      slot  == Len(index.locals) - 1
      start == Here(index)
      read  == Emit(Emit(beginLoop(index, label, TRUE), "GET_LOCAL", slot - 1), "GET_LOCAL", slot)
      step  == Emit(read, "ITER_STEP", 0)
      bound == addLocal(beginScope(step), x)
      run   == PatchContinues(endScope(compileStatements(bound, body)))
      again == Emit(Emit(run, "INC_LOCAL", slot), "LOOP", start)
  IN endScope(endLoop(Patched(again, {Here(read)})))

(* One arm and a default; the subject is below the test until an arm is taken. *)
compileSwitch(c, arm, default) ==
  LET subject == Emit(beginLoop(Emit(c, "CONSTANT", 0), None, FALSE), "JUMP_IF_FALSE", 0)
      test    == Here(subject) - 1
      taken   == Emit(subject, "JUMP", 0)
      other   == Optional(Emit(Patched(taken, {test}), "POP", 0), default)
      skip    == Emit(other, "JUMP", 0)
      body    == Scoped(Emit(Patched(skip, {Here(subject)}), "POP", 0), arm)
      end     == Emit(body, "JUMP", 0)
  IN endLoop(Patched(end, {Here(other), Here(body)}))

compileTry(c, body, x, catch, finally) ==
  LET Inside(d, active) ==
        [d EXCEPT !.tries = Append(c.tries, [finally |-> finally, depth |-> c.depth, active |-> active])]
      Outside(d) == [d EXCEPT !.tries = c.tries]
      tried   == Outside(Scoped(Inside(Emit(c, "TRY", 0), TRUE), body))
      normal  == Optional(Emit(tried, "END_TRY", 0), finally)
      handler == Patched(Emit(normal, "JUMP", 0), {Here(c)})
      entry   == beginScope(Inside(handler, FALSE))
      binding == IF x = None THEN Emit(entry, "POP", 0) ELSE addLocal(entry, x)
      caught  == IF catch = None
                 THEN Emit(Optional(handler, finally), "THROW", 0)
                 ELSE Optional(Outside(endScope(Scoped(binding, catch))), finally)
  IN Patched(caught, {Here(normal)})

CompileNode(c, s) ==
  LET first == s.parts[1]
      Log(d) == Emit(d, "LOG", 0) IN
  CASE s.is = "say"      -> Log(Emit(c, "CONSTANT", s.value))
    [] s.is = "let"      -> addLocal(Emit(c, "CONSTANT", s.value), s.name)
    [] s.is = "show"     -> Log(Emit(c, "GET_LOCAL", resolveLocal(c, s.name)))
    [] s.is = "bump"     -> Emit(c, "INC_LOCAL", resolveLocal(c, s.name))
    [] s.is = "keep"     -> LET slot == resolveLocal(c, s.name) IN Emit(Capture(c, slot), "CLOSURE", slot)
    [] s.is = "call"     -> Log(Emit(c, "CALL", s.value))
    [] s.is = "callback" -> Log(Emit(c, "CALLBACK", s.value))
    [] s.is = "throw"    -> Emit(Emit(c, "CONSTANT", s.value), "THROW", 0)
    [] s.is = "return"   -> compileReturn(c, s.value)
    [] s.is = "break"    -> compileJump(c, s.label, FALSE)
    [] s.is = "continue" -> compileJump(c, s.label, TRUE)
    [] s.is = "block"    -> Scoped(c, first)
    [] s.is = "if"       -> compileIf(c, first)
    [] s.is = "labeled"  -> endLoop(compileStatements(beginLoop(c, s.label, FALSE), first))
    [] s.is = "while"    -> compileWhile(c, s.label, first)
    [] s.is = "doWhile"  -> compileDoWhile(c, s.label, first)
    [] s.is = "for"      -> compileFor(c, s.label, s.name, first)
    [] s.is = "forOf"    -> compileForOf(c, s.label, s.name, first)
    [] s.is = "switch"   -> compileSwitch(c, first, s.parts[2])
    [] s.is = "try"      -> compileTry(c, first, s.name, s.parts[2], s.parts[3])

(* A function ends by returning undefined, which is the number 0 here.         *)
compileFunctionAs(body) ==
  LET slot0 == [name |-> None, depth |-> 0, captured |-> FALSE]
      start == [code |-> <<>>, locals |-> <<slot0>>, depth |-> 1, loops |-> <<>>, tries |-> <<>>]
  IN Emit(Emit(compileStatements(start, body), "CONSTANT", 0), "RETURN", 0).code
==============================================================================
