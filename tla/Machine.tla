------------------------------- MODULE Machine --------------------------------
(* The interpreter's frames, handlers and captured locals: the opcodes that    *)
(* call, return, throw and capture (vm_ops_value.inc, vm_ops_class.inc,        *)
(* vm_ops_arith.inc), where a throw goes (vm_throw.inc), captured locals       *)
(* (vm_upvalue.inc) and the nested loops of natives that call back (vm.c).     *)
(*                                                                             *)
(* The addresses of the stack are 1 .. MaxStack; vm.stackTop, the address      *)
(* above the last value, is top + 1.  What is above it is left as it was.      *)
(* Each job of a program is a handler the event loop runs (vm_event.c): a      *)
(* throw that escapes it settles its promise.  Between two jobs no function    *)
(* runs.  A fiber has its own stack, frames and handlers: none is modelled.    *)
EXTENDS Integers, SequencesExt

CONSTANTS
  Programs,  \* what may run: [chunks, jobs, tape], the code of the functions,
             \* the functions called as jobs, and what conditions answer
  MaxStack   \* bound: the stack (CS_STACK_MAX is 65536)

ASSUME MachineAssumption ==
  MaxStack \in Nat /\ \A p \in Programs : p.jobs \in Seq(Nat)

VARIABLES
  program,   \* the program that runs
  asked,     \* how many conditions have had their answer
  stack,     \* the value at each address
  top,       \* the address of the last value
  frames,    \* vm.frames: [function, ip, slots]
  handlers,  \* vm.handlers: [frameCount, stackTop, ip]
  open,      \* vm.openUpvalues, as a list
  location,  \* where each ObjUpvalue made so far has its value; 0 is its own cell ...
  closed,    \* ... and what is in that cell
  loops,     \* the calls of run() on the C stack, each with its baseFrame
  microtasks, \* the functions the event loop has still to call
  pending,   \* vm.pendingException: empty, or the value on its way out
  out,       \* what the program has printed
  kept,      \* the upvalues of the closures the program keeps
  settled    \* how each finished job ended

captured == <<open, location, closed, kept>>
machine == <<program, microtasks, pending, settled>>
vars == <<machine, asked, stack, top, frames, handlers, captured, loops, out>>

Frame == Last(frames)
Instruction == program.chunks[Frame.function][Frame.ip]

Running == loops # <<>> /\ pending = <<>>
At(op) == Running /\ Instruction \in [op : {op}, a : Nat]
Slot == Frame.slots + Instruction.a

Resume(ip) == frames' = [frames EXCEPT ![Len(frames)].ip = ip]
Advance == Resume(Frame.ip + 1)

(* csVMPush; the program ends when the stack is full, which no run comes to.   *)
PushAt(n, v) == n < MaxStack /\ stack' = [stack EXCEPT ![n + 1] = v] /\ top' = n + 1

(* How many upvalues, from the head of the list, are at or above an address.   *)
Reached(last) ==
  Min({n \in 0 .. Len(open) : n = Len(open) \/ location[open[n + 1]] < last})

closeUpvalues(last) ==
  LET n == Reached(last)
      Closes(u) == \E i \in 1 .. n : open[i] = u IN
  /\ open' = SubSeq(open, n + 1, Len(open))
  /\ location' = [u \in DOMAIN location |-> IF Closes(u) THEN 0 ELSE location[u]]
  /\ closed' = [u \in DOMAIN closed |-> IF Closes(u) THEN stack[location[u]] ELSE closed[u]]

(* Mutant: a new upvalue goes to the head of the list.                         *)
MutCaptureUpvalue(local) ==
  LET found == {i \in DOMAIN open : location[open[i]] = local}
      new == Len(location) + 1
  IN IF found # {}
     THEN kept' = Append(kept, open[Min(found)]) /\ UNCHANGED <<open, location, closed>>
     ELSE /\ kept' = Append(kept, new)
          /\ location' = Append(location, local)
          /\ closed' = Append(closed, 0)
          /\ open' = <<new>> \o open

captureUpvalue(local) ==
  LET n == Reached(local + 1)
      new == Len(location) + 1
  IN IF n < Len(open) /\ location[open[n + 1]] = local
     THEN kept' = Append(kept, open[n + 1]) /\ UNCHANGED <<open, location, closed>>
     ELSE /\ kept' = Append(kept, new)
          /\ location' = Append(location, local)
          /\ closed' = Append(closed, 0)
          /\ open' = InsertAt(open, n + 1, new)

(* The loop that is innermost returns an error, with the value parked.         *)
Propagate(thrown) ==
  /\ pending' = <<thrown>>
  /\ loops' = Front(loops)
  /\ UNCHANGED <<stack, top, frames, handlers, open, location, closed>>

Handle(thrown) ==
  LET handler == Last(handlers)
      escaped == {frames[i].slots : i \in handler.frameCount + 1 .. Len(frames)} IN
  /\ pending' = <<>>
  /\ handlers' = Front(handlers)
  /\ frames' = [SubSeq(frames, 1, handler.frameCount) EXCEPT ![handler.frameCount].ip = handler.ip]
  /\ closeUpvalues(Min(escaped \cup {handler.stackTop + 1}))
  /\ PushAt(handler.stackTop, thrown)
  /\ UNCHANGED loops

performThrow(thrown) ==
  IF handlers = <<>> \/ Last(handlers).frameCount <= Last(loops)
  THEN Propagate(thrown)
  ELSE Handle(thrown)
------------------------------------------------------------------------------
Init ==
  /\ program \in Programs
  /\ asked = 0 /\ top = 0
  /\ stack = [a \in 1 .. MaxStack |-> 0]
  /\ frames = <<>> /\ handlers = <<>> /\ loops = <<>> /\ pending = <<>>
  /\ open = <<>> /\ location = <<>> /\ closed = <<>> /\ kept = <<>>
  /\ microtasks = program.jobs
  /\ out = <<>> /\ settled = <<>>

OpConstant ==
  /\ At("CONSTANT")
  /\ PushAt(top, Instruction.a) /\ Advance
  /\ UNCHANGED <<machine, asked, handlers, captured, loops, out>>

OpGetLocal ==
  /\ At("GET_LOCAL")
  /\ PushAt(top, stack[Slot]) /\ Advance
  /\ UNCHANGED <<machine, asked, handlers, captured, loops, out>>

OpSetLocalPop ==
  /\ At("SET_LOCAL_POP")
  /\ stack' = [stack EXCEPT ![Slot] = stack[top]]
  /\ top' = top - 1 /\ Advance
  /\ UNCHANGED <<machine, asked, handlers, captured, loops, out>>

OpIncLocal ==
  /\ At("INC_LOCAL")
  /\ stack' = [stack EXCEPT ![Slot] = @ + 1]
  /\ Advance
  /\ UNCHANGED <<machine, asked, top, handlers, captured, loops, out>>

OpPop ==
  /\ At("POP")
  /\ top' = top - 1 /\ Advance
  /\ UNCHANGED <<machine, asked, stack, handlers, captured, loops, out>>

OpCloseUpvalue ==
  /\ At("CLOSE_UPVALUE")
  /\ closeUpvalues(top)
  /\ top' = top - 1 /\ Advance
  /\ UNCHANGED <<machine, asked, stack, handlers, kept, loops, out>>

(* console.log takes its argument off the stack and leaves nothing to pop.     *)
Log ==
  /\ At("LOG")
  /\ out' = Append(out, stack[top])
  /\ top' = top - 1 /\ Advance
  /\ UNCHANGED <<machine, asked, stack, handlers, captured, loops>>

OpJump ==
  /\ At("JUMP") \/ At("LOOP")
  /\ Resume(Instruction.a)
  /\ UNCHANGED <<machine, asked, stack, top, handlers, captured, loops, out>>

Answered == asked < Len(program.tape) /\ program.tape[asked + 1]

OpJumpIfFalse ==
  /\ At("JUMP_IF_FALSE")
  /\ Resume(IF Answered THEN Frame.ip + 1 ELSE Instruction.a)
  /\ asked' = asked + 1
  /\ UNCHANGED <<machine, stack, top, handlers, captured, loops, out>>

(* The iterable and the index are on the stack; the element is the index.      *)
OpIterStep ==
  /\ At("ITER_STEP")
  /\ asked' = asked + 1
  /\ IF Answered
     THEN PushAt(top - 2, stack[top]) /\ Advance
     ELSE top' = top - 2 /\ Resume(Instruction.a) /\ UNCHANGED stack
  /\ UNCHANGED <<machine, handlers, captured, loops, out>>

(* The closure is kept outside the stack: kept.push(() => x).                  *)
OpClosure ==
  /\ At("CLOSURE")
  /\ captureUpvalue(Slot) /\ Advance
  /\ UNCHANGED <<machine, asked, stack, top, handlers, loops, out>>

(* The callee is in slot 0 of its frame.                                       *)
callClosure(function) == [function |-> function, ip |-> 1, slots |-> top + 1]

OpCall ==
  /\ At("CALL")
  /\ PushAt(top, 0)
  /\ frames' = Append([frames EXCEPT ![Len(frames)].ip = @ + 1], callClosure(Instruction.a))
  /\ UNCHANGED <<machine, asked, handlers, captured, loops, out>>

(* A native calls a function back, in a loop of its own (csVMCallCallback).    *)
OpCallback ==
  /\ At("CALLBACK")
  /\ PushAt(top, 0)
  /\ frames' = Append([frames EXCEPT ![Len(frames)].ip = @ + 1], callClosure(Instruction.a))
  /\ loops' = Append(loops, Len(frames))
  /\ UNCHANGED <<machine, asked, handlers, captured, out>>

OpTry ==
  /\ At("TRY")
  /\ handlers' = Append(handlers, [frameCount |-> Len(frames), stackTop |-> top, ip |-> Instruction.a])
  /\ Advance
  /\ UNCHANGED <<machine, asked, stack, top, captured, loops, out>>

OpEndTry ==
  /\ At("END_TRY") /\ handlers # <<>>
  /\ handlers' = Front(handlers)
  /\ Advance
  /\ UNCHANGED <<machine, asked, stack, top, captured, loops, out>>

OpThrow ==
  /\ At("THROW")
  /\ performThrow(stack[top])
  /\ UNCHANGED <<program, microtasks, settled, asked, kept, out>>

(* A native returns false to the loop that called it (HANDLE_FAILED_CALL).     *)
HandleFailedCall ==
  /\ loops # <<>> /\ pending # <<>>
  /\ performThrow(pending[1])
  /\ UNCHANGED <<program, microtasks, settled, asked, kept, out>>

(* The handlers of a frame go with it.                                         *)
Abandoned ==
  LET live == {0} \cup {i \in DOMAIN handlers : handlers[i].frameCount < Len(frames)} IN
  SubSeq(handlers, 1, Max(live))

(* The result replaces the callee; the event loop takes it off the stack.      *)
OpReturn ==
  LET result == stack[top]
      ends == Len(frames) = Last(loops) + 1
      last == ends /\ Len(loops) = 1 IN
  /\ At("RETURN")
  /\ handlers' = Abandoned
  /\ closeUpvalues(Frame.slots)
  /\ frames' = Front(frames)
  /\ stack' = [stack EXCEPT ![Frame.slots] = result]
  /\ top' = IF last THEN Frame.slots - 1 ELSE Frame.slots
  /\ loops' = IF ends THEN Front(loops) ELSE loops
  /\ settled' = IF last THEN Append(settled, [how |-> "return", value |-> result]) ELSE settled
  /\ UNCHANGED <<program, microtasks, pending, asked, kept, out>>

(* The event loop calls the next handler (runReaction).                        *)
RunReaction ==
  /\ loops = <<>> /\ pending = <<>> /\ microtasks # <<>>
  /\ microtasks' = Tail(microtasks)
  /\ PushAt(top, 0)
  /\ frames' = <<callClosure(Head(microtasks))>>
  /\ loops' = <<0>>
  /\ UNCHANGED <<program, pending, settled, asked, handlers, captured, out>>

(* A throw has escaped the handler: its promise is rejected, and resetStack    *)
(* forgets the frames, the handlers and the open upvalues.                     *)
Escape ==
  /\ loops = <<>> /\ pending # <<>>
  /\ settled' = Append(settled, [how |-> "throw", value |-> pending[1]])
  /\ pending' = <<>> /\ frames' = <<>> /\ handlers' = <<>> /\ open' = <<>> /\ top' = 0
  /\ UNCHANGED <<program, microtasks, asked, stack, location, closed, kept, loops, out>>

Finished == loops = <<>> /\ pending = <<>> /\ microtasks = <<>>
Done == Finished /\ UNCHANGED vars

Next ==
  \/ OpConstant \/ OpGetLocal \/ OpSetLocalPop \/ OpIncLocal \/ OpPop \/ OpCloseUpvalue
  \/ Log \/ OpJump \/ OpJumpIfFalse \/ OpIterStep \/ OpClosure \/ OpCall \/ OpCallback
  \/ OpTry \/ OpEndTry \/ OpThrow \/ HandleFailedCall \/ OpReturn
  \/ RunReaction \/ Escape \/ Done

Spec == Init /\ [][Next]_vars
------------------------------------------------------------------------------
(* Where each kept closure reads its variable (OP_GET_UPVALUE).                *)
UpvalueValue(u) == IF location[u] = 0 THEN closed[u] ELSE stack[location[u]]

(* The lists the machine searches from one end keep the order it searches      *)
(* them in: each handler belongs to a frame that is still there, the innermost *)
(* frame's last (performThrow, OP_RETURN), and the open upvalues are in strict *)
(* order of address, the highest first (captureUpvalue, closeUpvalues).        *)
ListsInOrder ==
  /\ \A i \in DOMAIN handlers : handlers[i].frameCount \in 1 .. Len(frames)
  /\ \A i, j \in DOMAIN handlers : i < j => handlers[i].frameCount <= handlers[j].frameCount
  /\ \A i, j \in DOMAIN open : i < j => location[open[i]] > location[open[j]]
==============================================================================
