------------------------------ MODULE Promises ------------------------------
(***************************************************************************)
(* The promise heap of the CScript runtime: promises, the reactions that   *)
(* wait on them, the state of the four combinators and the microtask queue *)
(* that settling feeds (src/runtime/object_new.c, src/runtime/vm_event.c,  *)
(* src/native/native_promise.c).  Each C function is an operator from a    *)
(* heap to the heap it leaves behind, so that a native that calls several  *)
(* of them is their composition.                                           *)
(***************************************************************************)
EXTENDS Integers, Sequences

CONSTANTS
  MaxPromises,    \* promises a run may allocate
  MaxFibers,      \* async calls a run may make
  MaxInputs,      \* longest array handed to a combinator
  Value,          \* plain values a program passes around
  Undefined,      \* UNDEFINED_VAL
  Results,        \* the array a combinator fulfils with
  Aggregate       \* the AggregateError Promise.any rejects with

Promise == 1 .. MaxPromises
Fiber == 1 .. MaxFibers
None == 0

(* What a promise may settle with: never a promise, which is adopted.      *)
Datum == Value \cup {Undefined, Results, Aggregate}

ASSUME PromisesAssumption ==
  /\ MaxPromises \in Nat
  /\ MaxFibers \in Nat
  /\ MaxInputs \in Nat
  /\ Datum \cap Nat = {}

Settled == {"fulfilled", "rejected"}
Maker == {"program", "then", "async", "combinator"}
Mode == {"all", "race", "allSettled", "any"}

-----------------------------------------------------------------------------
(* The records of the heap.  A handler is only known to be there or not:   *)
(* what it does is left to EventLoop.  `id` numbers the reactions of one   *)
(* promise in the order they were registered; with `src` it names the      *)
(* listener a reaction or a microtask stands for.  Neither is in the code: *)
(* they let the properties say which call a task answers.                  *)

Reaction ==
  [id : Nat, onFulfilled : BOOLEAN, onRejected : BOOLEAN,
   result : Promise \cup {None}, fiber : Fiber \cup {None},
   combine : Promise \cup {None}, index : 0 .. MaxInputs,
   isFinally : BOOLEAN, extraHops : 0 .. 1]

Microtask ==
  [src : Promise \cup {None}, id : Nat, callback : BOOLEAN, argument : Datum,
   isRejection : BOOLEAN,
   result : Promise \cup {None}, fiber : Fiber \cup {None},
   combine : Promise \cup {None}, index : 0 .. MaxInputs,
   isFinally : BOOLEAN, extraHops : 0 .. 1]

ObjPromise ==
  [state : {"pending"} \cup Settled, value : Datum, reactions : Seq(Reaction),
   handled : BOOLEAN, maker : Maker, listeners : Nat]

(* [results, remaining, target, mode], kept under the target it settles.   *)
CombineState ==
  [mode : Mode \cup {"none"}, remaining : Int, filled : SUBSET (0 .. MaxInputs)]

Heap ==
  [made : 0 .. MaxPromises, promise : [Promise -> ObjPromise],
   combine : [Promise -> CombineState], queue : Seq(Microtask),
   watched : SUBSET Promise]

csPromiseNew(maker) ==
  [state |-> "pending", value |-> Undefined, reactions |-> <<>>,
   handled |-> FALSE, maker |-> maker, listeners |-> 0]

EmptyHeap ==
  [made |-> 0, promise |-> [p \in Promise |-> csPromiseNew("program")],
   combine |-> [p \in Promise |-> [mode |-> "none", remaining |-> 0, filled |-> {}]],
   queue |-> <<>>, watched |-> {}]

Allocated(h) == 1 .. h.made
Pending(h, p) == h.promise[p].state = "pending"
Outcome(h, p) == [state |-> h.promise[p].state, value |-> h.promise[p].value]

(* The next promise the heap hands out, and the heap once it has.          *)
Fresh(h) == h.made + 1
Allocate(h, maker) ==
  [h EXCEPT !.made = Fresh(h), !.promise[Fresh(h)] = csPromiseNew(maker)]

-----------------------------------------------------------------------------
(* The reactions the runtime registers, by the field that says who waits.  *)

PlainReaction ==
  [id |-> 0, onFulfilled |-> FALSE, onRejected |-> FALSE, result |-> None,
   fiber |-> None, combine |-> None, index |-> 0, isFinally |-> FALSE,
   extraHops |-> 0]

ThenReaction(onFulfilled, onRejected, derived) ==
  [PlainReaction EXCEPT !.onFulfilled = onFulfilled, !.onRejected = onRejected,
                        !.result = derived]

FinallyReaction(handler, derived) ==
  [ThenReaction(handler, handler, derived) EXCEPT !.isFinally = TRUE]

AdoptReaction(outer) == [PlainReaction EXCEPT !.result = outer, !.extraHops = 1]

AwaitReaction(f) == [PlainReaction EXCEPT !.fiber = f]

CombineReaction(target, i) == [PlainReaction EXCEPT !.combine = target, !.index = i]

-----------------------------------------------------------------------------
(* Queueing.                                                               *)

PlainTask(callback, argument, result, isRejection) ==
  [src |-> None, id |-> 0, callback |-> callback, argument |-> argument,
   isRejection |-> isRejection, result |-> result, fiber |-> None,
   combine |-> None, index |-> 0, isFinally |-> FALSE, extraHops |-> 0]

(* As if a reaction registered late were always told of a fulfilment.      *)
MutTaskFor(p, state, v, r) ==
  [src |-> p, id |-> r.id, callback |-> r.onFulfilled, argument |-> v,
   isRejection |-> FALSE, result |-> r.result, fiber |-> r.fiber,
   combine |-> r.combine, index |-> r.index, isFinally |-> r.isFinally,
   extraHops |-> r.extraHops]

(* The microtask that answers reaction r of promise p, settled to v.       *)
TaskFor(p, state, v, r) ==
  [src |-> p, id |-> r.id,
   callback |-> IF state = "fulfilled" THEN r.onFulfilled ELSE r.onRejected,
   argument |-> v, isRejection |-> state = "rejected",
   result |-> r.result, fiber |-> r.fiber, combine |-> r.combine,
   index |-> r.index, isFinally |-> r.isFinally, extraHops |-> r.extraHops]

csVMQueueMicrotask(h, task) == [h EXCEPT !.queue = Append(@, task)]

csVMQueueCombine(h, target, i, v) ==
  csVMQueueMicrotask(h, [PlainTask(FALSE, v, None, FALSE) EXCEPT
                           !.combine = target, !.index = i])

-----------------------------------------------------------------------------
(* Settling, adopting and listening.                                       *)

(* As if the watchdog were told of the rejections someone listens to.      *)
MutSettleUnwatched(h, p, state, v) ==
  LET o == h.promise[p] IN
  IF o.state # "pending" THEN h
  ELSE [h EXCEPT
          !.promise[p] = [o EXCEPT !.state = state, !.value = v, !.reactions = <<>>],
          !.queue = @ \o [i \in 1 .. Len(o.reactions) |->
                            TaskFor(p, state, v, o.reactions[i])],
          !.watched = IF state = "rejected" /\ o.handled THEN @ \cup {p} ELSE @]

settle(h, p, state, v) ==
  LET o == h.promise[p] IN
  IF o.state # "pending" THEN h
  ELSE [h EXCEPT
          !.promise[p] = [o EXCEPT !.state = state, !.value = v, !.reactions = <<>>],
          !.queue = @ \o [i \in 1 .. Len(o.reactions) |->
                            TaskFor(p, state, v, o.reactions[i])],
          !.watched = IF state = "rejected" /\ ~o.handled THEN @ \cup {p} ELSE @]

(* As if a new reaction went before those registered earlier.              *)
MutAddReaction(h, p, reaction) ==
  LET o == h.promise[p]
      r == [reaction EXCEPT !.id = o.listeners + 1]
      heard == [o EXCEPT !.handled = TRUE, !.listeners = @ + 1]
  IN  IF o.state = "pending"
      THEN [h EXCEPT !.promise[p] = [heard EXCEPT !.reactions = <<r>> \o @]]
      ELSE [h EXCEPT !.promise[p] = heard,
                     !.queue = Append(@, TaskFor(p, o.state, o.value, r))]

(* As if a settled promise kept its late listeners on its own list.        *)
MutAddReactionLate(h, p, reaction) ==
  LET o == h.promise[p]
      r == [reaction EXCEPT !.id = o.listeners + 1]
      heard == [o EXCEPT !.handled = TRUE, !.listeners = @ + 1]
  IN  [h EXCEPT !.promise[p] = [heard EXCEPT !.reactions = Append(@, r)]]

(* csPromiseAddReaction and the fields its callers patch into the reaction *)
(* or the microtask it left last: nothing runs between the two.            *)
csPromiseAddReaction(h, p, reaction) ==
  LET o == h.promise[p]
      r == [reaction EXCEPT !.id = o.listeners + 1]
      heard == [o EXCEPT !.handled = TRUE, !.listeners = @ + 1]
  IN  IF o.state = "pending"
      THEN [h EXCEPT !.promise[p] = [heard EXCEPT !.reactions = Append(@, r)]]
      ELSE [h EXCEPT !.promise[p] = heard,
                     !.queue = Append(@, TaskFor(p, o.state, o.value, r))]

csPromiseReject(h, p, reason) == settle(h, p, "rejected", reason)

(* v is a plain value, or a promise whose outcome p is to adopt.           *)
csPromiseFulfill(h, p, v) ==
  IF ~Pending(h, p) THEN h
  ELSE IF v \in Promise THEN csPromiseAddReaction(h, v, AdoptReaction(p))
  ELSE settle(h, p, "fulfilled", v)

-----------------------------------------------------------------------------
(* Running a microtask that reaches no program code.                       *)

(* The task at the head is done: only now does microtaskHead move.         *)
Retire(h) == [h EXCEPT !.queue = Tail(@)]

(* As if a rejection without a handler went no further.                    *)
MutPassThrough(h, task) ==
  IF task.extraHops > 0
  THEN csVMQueueMicrotask(h, [task EXCEPT !.extraHops = @ - 1])
  ELSE IF task.result = None \/ task.isRejection THEN h
  ELSE csPromiseFulfill(h, task.result, task.argument)

(* As if an extra turn were not counted off.                               *)
MutPassThroughAgain(h, task) ==
  IF task.extraHops > 0 THEN csVMQueueMicrotask(h, task)
  ELSE IF task.result = None THEN h
  ELSE IF task.isRejection THEN csPromiseReject(h, task.result, task.argument)
  ELSE csPromiseFulfill(h, task.result, task.argument)

(* No handler for this outcome: after the extra turns, it passes through.  *)
PassThrough(h, task) ==
  IF task.extraHops > 0
  THEN csVMQueueMicrotask(h, [task EXCEPT !.extraHops = @ - 1])
  ELSE IF task.result = None THEN h
  ELSE IF task.isRejection THEN csPromiseReject(h, task.result, task.argument)
  ELSE csPromiseFulfill(h, task.result, task.argument)

(* As if a collected input were not counted off.                           *)
MutFill(h, target, i) == [h EXCEPT !.combine[target].filled = @ \cup {i}]

Fill(h, target, i) ==
  [h EXCEPT !.combine[target].filled = @ \cup {i},
            !.combine[target].remaining = @ - 1]

runCombine(h, task) ==
  LET target == task.combine
      c == h.combine[target]
      decides == \/ c.mode = "race"
                 \/ c.mode = "all" /\ task.isRejection
                 \/ c.mode = "any" /\ ~task.isRejection
      last == c.remaining = 1
  IN  IF ~Pending(h, target) THEN h
      ELSE IF decides
      THEN IF task.isRejection THEN csPromiseReject(h, target, task.argument)
                               ELSE csPromiseFulfill(h, target, task.argument)
      ELSE IF ~last THEN Fill(h, target, task.index)
      ELSE IF c.mode = "any"
      THEN csPromiseReject(Fill(h, target, task.index), target, Aggregate)
      ELSE csPromiseFulfill(Fill(h, target, task.index), target, Results)

-----------------------------------------------------------------------------
(* What a handler's end does to the heap: the value it returned, unless it *)
(* was a finally handler, whose outcome is the one it was told about.      *)
HandlerReturned(h, task, returned) ==
  IF task.result = None THEN h
  ELSE IF task.isFinally
  THEN csVMQueueMicrotask(h, [task EXCEPT !.callback = FALSE, !.isFinally = FALSE,
                                          !.extraHops = 1])
  ELSE csPromiseFulfill(h, task.result, returned)

-----------------------------------------------------------------------------
(* What the operators above keep true of a heap.                           *)

Rejected(h, p) == h.promise[p].state = "rejected"

TasksCarry(h) ==
  \A i \in 1 .. Len(h.queue) :
    LET t == h.queue[i] IN
    t.src # None => /\ ~Pending(h, t.src)
                    /\ t.argument = h.promise[t.src].value
                    /\ t.isRejection = Rejected(h, t.src)

NoneWaitsOnSettled(h) ==
  \A p \in Promise : ~Pending(h, p) => h.promise[p].reactions = <<>>

RejectionsWatched(h) ==
  \A p \in Promise : Rejected(h, p) /\ ~h.promise[p].handled => p \in h.watched

(* Nothing refers to a promise that is not allocated yet.                  *)
RefersTo(h, r) == r.result <= h.made /\ r.combine <= h.made
RefsAllocated(h) ==
  /\ \A i \in 1 .. Len(h.queue) : h.queue[i].src <= h.made /\ RefersTo(h, h.queue[i])
  /\ \A p \in Promise : \A i \in 1 .. Len(h.promise[p].reactions) :
       RefersTo(h, h.promise[p].reactions[i])
  /\ \A p \in Promise : p > h.made => Pending(h, p)
HeapOK(h) ==
  /\ h \in Heap
  /\ RefsAllocated(h)
  /\ TasksCarry(h)
  /\ NoneWaitsOnSettled(h)

(* One heap follows another: nothing is deallocated, no outcome changes.   *)
Follows(h, g) ==
  /\ h.made <= g.made
  /\ \A p \in Promise : ~Pending(h, p) => Outcome(g, p) = Outcome(h, p)

=============================================================================
