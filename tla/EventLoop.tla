------------------------------ MODULE EventLoop ------------------------------
(***************************************************************************)
(* One run of a CScript program on its single thread: the program's top    *)
(* level (a plain call, or an async body when it awaits), then the event   *)
(* loop of src/runtime/vm_event.c, which drains the microtask queue,       *)
(* reports rejections nobody listened to and gives one timer a turn, until *)
(* nothing is left.  Program code is the most general client: while it     *)
(* runs it may make any call of the promise, async and timer interfaces,   *)
(* in any order, and then return or throw.                                 *)
(***************************************************************************)
EXTENDS Promises, FiniteSets

CONSTANTS
  MaxCalls,    \* API calls a program makes in all
  TimersMax,   \* CS_TIMERS_MAX
  Delays,      \* delays a program asks for, in milliseconds
  Api          \* the calls this program uses

AllCalls == {"new", "settled", "settle", "then", "finally", "combine",
             "microtask", "async", "await", "fault", "timer", "slow"}

ASSUME EventLoopAssumption ==
  /\ MaxCalls \in Nat
  /\ TimersMax \in Nat \ {0}
  /\ Delays \subseteq Nat
  /\ Api \subseteq AllCalls

VARIABLES
  heap,       \* promises, reactions, microtask queue, watchdog list
  fiber,      \* async calls: their state and the promise each settles
  running,    \* vm.currentFiber and its callers, outermost first
  phase,      \* what the thread is doing
  body,       \* the fiber of an async top level, or None
  timers,     \* vm.timers: sorted, `left` is the time until each is due
  firing,     \* the timer whose callback runs, with vm.firingCancelled
  nextTimer,  \* vm.nextTimerId
  adding,     \* a combinator part-way through its inputs
  calls       \* API calls made so far

vars == <<heap, fiber, running, phase, body, timers, firing, nextTimer, adding, calls>>

Timer == [id : Nat \ {0}, left : Nat, repeat : Nat]
NotFiring == [id |-> 0, left |-> 0, repeat |-> 0, cancelled |-> FALSE]
NotAdding == [target |-> None, next |-> 0, count |-> 0]

UserPhase == {"program", "task", "timer"}
Final == {"exit", "failed"}

ObjFiber == [state : {"unused", "running", "suspended", "done"},
             promise : Promise \cup {None}]

TypeOK ==
  /\ heap \in Heap
  /\ fiber \in [Fiber -> ObjFiber]
  /\ running \in Seq(Fiber)
  /\ phase \in UserPhase \cup Final \cup {"loop"}
  /\ body \in Fiber \cup {None}
  /\ timers \in Seq(Timer)
  /\ firing \in [id : Nat, left : Nat, repeat : Nat, cancelled : BOOLEAN]
  /\ nextTimer \in Nat \ {0}
  /\ adding \in [target : Promise \cup {None}, next : Nat, count : Nat]
  /\ calls \in Nat

-----------------------------------------------------------------------------
(* Who has the thread.                                                     *)

UserRuns == phase \in UserPhase /\ adding = NotAdding
InFiber == running # <<>>
Current == running[Len(running)]
Callers == SubSeq(running, 1, Len(running) - 1)
HeadTask == heap.queue[1]
Reachable == Allocated(heap)

(* A program makes call c of its repertoire, needing n new promises.       *)
Calls(c, n) ==
  /\ UserRuns
  /\ c \in Api
  /\ calls < MaxCalls
  /\ calls' = calls + 1
  /\ heap.made + n <= MaxPromises

(* The call changes the heap and nothing else.                             *)
Leaves(h) ==
  /\ heap' = h
  /\ UNCHANGED <<fiber, running, phase, body, timers, firing, nextTimer, adding>>

-----------------------------------------------------------------------------
(* Calls on promises: src/native/native_promise.c.                         *)

promiseConstruct == Calls("new", 1) /\ Leaves(Allocate(heap, "program"))

(* The functions `new Promise` hands its executor; the program may keep    *)
(* them and call either at any later time, more than once.                 *)
ProgramPromise(p) == heap.promise[p].maker = "program"

resolveFunction(p, v) ==
  Calls("settle", 0) /\ ProgramPromise(p) /\ Leaves(csPromiseFulfill(heap, p, v))

rejectFunction(p, v) ==
  Calls("settle", 0) /\ ProgramPromise(p) /\ Leaves(csPromiseReject(heap, p, v))

promiseResolve(v) ==
  /\ Calls("settled", 1)
  /\ Leaves(csPromiseFulfill(Allocate(heap, "program"), Fresh(heap), v))

promiseRejectStatic(v) ==
  /\ Calls("settled", 1)
  /\ Leaves(csPromiseReject(Allocate(heap, "program"), Fresh(heap), v))

(* `.then` with either handler; `.catch` is `.then` without the first.     *)
promiseThen(p, onFulfilled, onRejected) ==
  /\ Calls("then", 1)
  /\ Leaves(csPromiseAddReaction(Allocate(heap, "then"), p,
              ThenReaction(onFulfilled, onRejected, Fresh(heap))))

promiseFinally(p, handler) ==
  /\ Calls("finally", 1)
  /\ Leaves(csPromiseAddReaction(Allocate(heap, "then"), p,
              FinallyReaction(handler, Fresh(heap))))

(* all, race, allSettled, any over an array of n elements.  The elements   *)
(* are taken one at a time (combinatorInput) with nothing in between.      *)
combinatorEmpty(mode) ==
  LET h == Allocate(heap, "combinator") IN
  /\ Calls("combine", 1)
  /\ Leaves(CASE mode \in {"all", "allSettled"} -> csPromiseFulfill(h, Fresh(heap), Results)
              [] mode = "any" -> csPromiseReject(h, Fresh(heap), Aggregate)
              [] mode = "race" -> h)

(* A race collects nothing, so it has nothing to count.                    *)
combineState(mode, n) ==
  [mode |-> mode, remaining |-> IF mode = "race" THEN 0 ELSE n, filled |-> {}]

combinator(mode, n) ==
  /\ n > 0
  /\ Calls("combine", 1)
  /\ heap' = [Allocate(heap, "combinator") EXCEPT
                !.combine[Fresh(heap)] = combineState(mode, n)]
  /\ adding' = [target |-> Fresh(heap), next |-> 1, count |-> n]
  /\ UNCHANGED <<fiber, running, phase, body, timers, firing, nextTimer>>

combinatorInput(v) ==
  /\ phase \in UserPhase
  /\ adding # NotAdding
  /\ v \in Promise => v # adding.target
  /\ heap' = IF v \in Promise
             THEN csPromiseAddReaction(heap, v, CombineReaction(adding.target, adding.next))
             ELSE csVMQueueCombine(heap, adding.target, adding.next, v)
  /\ adding' = IF adding.next = adding.count THEN NotAdding
               ELSE [adding EXCEPT !.next = @ + 1]
  /\ UNCHANGED <<fiber, running, phase, body, timers, firing, nextTimer, calls>>

queueMicrotaskNative ==
  /\ Calls("microtask", 0)
  /\ Leaves(csVMQueueMicrotask(heap, PlainTask(TRUE, Undefined, None, FALSE)))

-----------------------------------------------------------------------------
(* Timers: scheduleTimer and clearTimeoutNative.                           *)

Armed(id) == \E i \in 1 .. Len(timers) : timers[i].id = id

(* As if a timer simply went to the end of the list.                       *)
MutArm(list, t) == timers' = Append(list, t)

(* A new timer has the largest sequence number, so it goes after every     *)
(* timer that is due no later than it: the insertion walks back from the   *)
(* end of the list past those due later.                                   *)
Arm(list, t) ==
  \E at \in 0 .. Len(list) :
    /\ \A i \in at + 1 .. Len(list) : list[i].left > t.left
    /\ at > 0 => list[at].left <= t.left
    /\ timers' = SubSeq(list, 1, at) \o <<t>> \o SubSeq(list, at + 1, Len(list))

(* As if a timer's time ran only while it is the first.                    *)
MutPassed(list, ms) == list

Passed(list, ms) ==
  [i \in 1 .. Len(list) |-> [list[i] EXCEPT !.left = IF @ > ms THEN @ - ms ELSE 0]]

(* An interval lasts a millisecond at least: it cannot spin the loop.       *)
Period(delay, repeating) == IF ~repeating THEN 0 ELSE IF delay > 1 THEN delay ELSE 1

scheduleTimer(delay, repeating) ==
  /\ Calls("timer", 0)
  /\ Len(timers) < TimersMax
  /\ Arm(timers, [id |-> nextTimer, left |-> delay,
                  repeat |-> Period(delay, repeating)])
  /\ nextTimer' = nextTimer + 1
  /\ UNCHANGED <<heap, fiber, running, phase, body, firing, adding>>

FiringCleared(id) == IF id = firing.id THEN [firing EXCEPT !.cancelled = TRUE] ELSE firing

clearTimeoutNative(id) ==
  /\ Calls("timer", 0)
  /\ firing' = FiringCleared(id)
  /\ \/ \E i \in 1 .. Len(timers) :
          /\ timers[i].id = id
          /\ timers' = SubSeq(timers, 1, i - 1) \o SubSeq(timers, i + 1, Len(timers))
     \/ ~Armed(id) /\ UNCHANGED timers
  /\ UNCHANGED <<heap, fiber, running, phase, body, nextTimer, adding>>

(* Program code takes time.                                                *)
Slow ==
  /\ UserRuns
  /\ "slow" \in Api
  /\ \E i \in 1 .. Len(timers) : timers[i].left > 0
  /\ timers' = Passed(timers, 1)
  /\ UNCHANGED <<heap, fiber, running, phase, body, firing, nextTimer, adding, calls>>

-----------------------------------------------------------------------------
(* Async calls: src/runtime/vm_fiber.c and OP_AWAIT.                       *)

(* Running an async body on top of whoever called or resumed it.           *)
callAsyncFunction(f) ==
  /\ Calls("async", 1)
  /\ fiber[f].state = "unused"
  /\ heap' = Allocate(heap, "async")
  /\ fiber' = [fiber EXCEPT ![f] = [state |-> "running", promise |-> Fresh(heap)]]
  /\ running' = Append(running, f)
  /\ UNCHANGED <<phase, body, timers, firing, nextTimer, adding>>

(* runBodyAsync reports the body's rejection itself, so the watchdog must  *)
(* not: it marks the promise as soon as the call gives it one.             *)
HandledByLoader(h) == [h EXCEPT !.promise[fiber[body].promise].handled = TRUE]

(* As if a resumed fiber left its task unfinished.                         *)
MutToCaller(h) ==
  /\ running' = Callers
  /\ LET resumed == phase = "task" /\ HeadTask.fiber # None /\ Callers = <<>>
         topLevel == phase = "program" /\ body # None /\ Callers = <<>>
     IN  /\ heap' = IF resumed THEN Retire(h)
                   ELSE IF topLevel THEN HandledByLoader(h)
                   ELSE h
         /\ phase' = IF topLevel THEN "loop" ELSE phase

(* Where the thread goes when a fiber leaves it: back to the code that     *)
(* called it, or, when the event loop or the loader did, to the loop.      *)
ToCaller(h) ==
  /\ running' = Callers
  /\ LET resumed == phase = "task" /\ HeadTask.fiber # None /\ Callers = <<>>
         topLevel == phase = "program" /\ body # None /\ Callers = <<>>
     IN  /\ heap' = IF resumed THEN Retire(h)
                   ELSE IF topLevel THEN HandledByLoader(h)
                   ELSE h
         /\ phase' = IF resumed \/ topLevel THEN "loop" ELSE phase

(* `await v`: a plain value is a promise already settled with it, of which *)
(* nothing but the queued task is left.                                    *)
Await(v) ==
  /\ Calls("await", 0)
  /\ InFiber
  /\ fiber' = [fiber EXCEPT ![Current].state = "suspended"]
  /\ ToCaller(IF v \in Promise
              THEN csPromiseAddReaction(heap, v, AwaitReaction(Current))
              ELSE csVMQueueMicrotask(heap, [PlainTask(FALSE, v, None, FALSE)
                                               EXCEPT !.fiber = Current]))
  /\ UNCHANGED <<body, timers, firing, nextTimer, adding>>

(* The body ends, and settles the promise the call handed out.             *)
finishFiber(h) ==
  /\ fiber' = [fiber EXCEPT ![Current].state = "done"]
  /\ ToCaller(h)
  /\ UNCHANGED <<body, timers, firing, nextTimer, adding, calls>>

FiberReturns(v) ==
  /\ UserRuns /\ InFiber
  /\ finishFiber(csPromiseFulfill(heap, fiber[Current].promise, v))

FiberThrows(v) ==
  /\ UserRuns /\ InFiber
  /\ finishFiber(csPromiseReject(heap, fiber[Current].promise, v))

(* A runtime error leaves no exception behind: the reason is undefined.    *)
FiberFaults == "fault" \in Api /\ FiberThrows(Undefined)

-----------------------------------------------------------------------------
(* The end of a callback or of a plain top level: csVMRunBody,             *)
(* runMicrotask after csVMCallAdapted, csVMRunEventLoop after a timer's.   *)

TopReturns ==
  /\ UserRuns /\ ~InFiber /\ phase = "program"
  /\ phase' = "loop"
  /\ UNCHANGED <<heap, fiber, running, body, timers, firing, nextTimer, adding, calls>>

HandlerReturns(v) ==
  /\ UserRuns /\ ~InFiber /\ phase = "task"
  /\ heap' = Retire(HandlerReturned(heap, HeadTask, v))
  /\ phase' = "loop"
  /\ UNCHANGED <<fiber, running, body, timers, firing, nextTimer, adding, calls>>

(* A throw belongs to the promise the handler feeds.                       *)
HandlerThrows(v) ==
  /\ UserRuns /\ ~InFiber /\ phase = "task"
  /\ HeadTask.result # None
  /\ heap' = Retire(csPromiseReject(heap, HeadTask.result, v))
  /\ phase' = "loop"
  /\ UNCHANGED <<fiber, running, body, timers, firing, nextTimer, adding, calls>>

(* As if clearInterval from inside the callback came too early to count.   *)
MutTimerReturns ==
  /\ UserRuns /\ ~InFiber /\ phase = "timer"
  /\ IF firing.repeat > 0 /\ Len(timers) < TimersMax
     THEN Arm(timers, [id |-> firing.id, left |-> firing.repeat, repeat |-> firing.repeat])
     ELSE UNCHANGED timers
  /\ firing' = NotFiring
  /\ phase' = "loop"
  /\ UNCHANGED <<heap, fiber, running, body, nextTimer, adding, calls>>

(* An interval goes back on the list only when its callback is over, and   *)
(* only if the callback did not clear it and there is room for it.         *)
TimerReturns ==
  /\ UserRuns /\ ~InFiber /\ phase = "timer"
  /\ IF firing.repeat > 0 /\ ~firing.cancelled /\ Len(timers) < TimersMax
     THEN Arm(timers, [id |-> firing.id, left |-> firing.repeat, repeat |-> firing.repeat])
     ELSE UNCHANGED timers
  /\ firing' = NotFiring
  /\ phase' = "loop"
  /\ UNCHANGED <<heap, fiber, running, body, nextTimer, adding, calls>>

(* A throw or a runtime error with no promise to take it ends the run: at  *)
(* the top level, in a timer, in a queueMicrotask callback.  A runtime     *)
(* error ends it in any handler, since it leaves no pending exception.     *)
Uncaught ==
  /\ UserRuns /\ ~InFiber
  /\ "fault" \in Api
  /\ phase' = "failed"
  /\ heap' = IF phase = "task" THEN Retire(heap) ELSE heap
  /\ UNCHANGED <<fiber, running, body, timers, firing, nextTimer, adding, calls>>

-----------------------------------------------------------------------------
(* The loop has the thread: drainMicrotasks and csVMRunEventLoop.          *)

RunTask ==
  /\ phase = "loop" /\ heap.queue # <<>>
  /\ HeadTask.fiber = None
  /\ IF HeadTask.combine # None
     THEN heap' = Retire(runCombine(heap, HeadTask)) /\ UNCHANGED phase
     ELSE IF ~HeadTask.callback
     THEN heap' = Retire(PassThrough(heap, HeadTask)) /\ UNCHANGED phase
     ELSE phase' = "task" /\ UNCHANGED heap
  /\ UNCHANGED <<fiber, running, body, timers, firing, nextTimer, adding, calls>>

(* A rejection arrives as a throw at the await; whether the body catches   *)
(* it is the body's next step.                                             *)
csVMResumeFiber ==
  /\ phase = "loop" /\ heap.queue # <<>>
  /\ HeadTask.fiber # None
  /\ IF fiber[HeadTask.fiber].state = "suspended"
     THEN /\ fiber' = [fiber EXCEPT ![HeadTask.fiber].state = "running"]
          /\ running' = <<HeadTask.fiber>>
          /\ phase' = "task"
          /\ UNCHANGED heap
     ELSE heap' = Retire(heap) /\ UNCHANGED <<fiber, running, phase>>
  /\ UNCHANGED <<body, timers, firing, nextTimer, adding, calls>>

Drained == phase = "loop" /\ heap.queue = <<>>
Unheard == {p \in heap.watched : ~heap.promise[p].handled}

reportUnhandledRejections ==
  /\ Drained
  /\ Unheard # {}
  /\ heap' = [heap EXCEPT !.watched = {}]
  /\ phase' = "failed"
  /\ UNCHANGED <<fiber, running, body, timers, firing, nextTimer, adding, calls>>

(* Sleeps until the first timer is due, then calls it.                     *)
FireTimer ==
  /\ Drained /\ Unheard = {}
  /\ timers # <<>>
  /\ heap' = [heap EXCEPT !.watched = {}]
  /\ firing' = [id |-> timers[1].id, left |-> 0, repeat |-> timers[1].repeat,
                cancelled |-> FALSE]
  /\ timers' = Passed(Tail(timers), timers[1].left)
  /\ phase' = "timer"
  /\ UNCHANGED <<fiber, running, body, nextTimer, adding, calls>>

(* Nothing is left to run.  An async top level that was rejected, or that  *)
(* still waits for what will never happen, is an error.                    *)
LoopEnds ==
  /\ Drained /\ Unheard = {}
  /\ timers = <<>>
  /\ heap' = [heap EXCEPT !.watched = {}]
  /\ phase' = IF body # None /\ heap.promise[fiber[body].promise].state # "fulfilled"
              THEN "failed" ELSE "exit"
  /\ UNCHANGED <<fiber, running, body, timers, firing, nextTimer, adding, calls>>

Ended == phase \in Final /\ UNCHANGED vars

-----------------------------------------------------------------------------
(* A plain top level starts on the main stack, one that awaits as the body *)
(* of an async call.                                                       *)
InitPlain ==
  /\ body = None
  /\ heap = EmptyHeap
  /\ fiber = [f \in Fiber |-> [state |-> "unused", promise |-> None]]
  /\ running = <<>>

InitAsync ==
  /\ {"async", "await"} \subseteq Api /\ 1 \in Fiber /\ 1 \in Promise
  /\ body = 1
  /\ heap = Allocate(EmptyHeap, "async")
  /\ fiber = [f \in Fiber |-> IF f = 1 THEN [state |-> "running", promise |-> 1]
                              ELSE [state |-> "unused", promise |-> None]]
  /\ running = <<1>>

Init ==
  /\ InitPlain \/ InitAsync
  /\ phase = "program"
  /\ timers = <<>>
  /\ firing = NotFiring
  /\ nextTimer = 1
  /\ adding = NotAdding
  /\ calls = 0

Argument == Value \cup Reachable

PromiseCall ==
  \/ promiseConstruct
  \/ \E v \in Value : promiseRejectStatic(v) \/ promiseResolve(v)
  \/ \E p \in Reachable :
       \/ \E v \in Argument : resolveFunction(p, v)
       \/ \E v \in Value : rejectFunction(p, v)
       \/ \E f, r \in BOOLEAN : promiseThen(p, f, r)
       \/ \E f \in BOOLEAN : promiseFinally(p, f)
  \/ \E mode \in Mode : combinatorEmpty(mode) \/ \E n \in 1 .. MaxInputs : combinator(mode, n)
  \/ \E v \in Argument : combinatorInput(v)
  \/ queueMicrotaskNative

TimerCall ==
  \/ \E d \in Delays, repeating \in BOOLEAN : scheduleTimer(d, repeating)
  \/ \E id \in 1 .. nextTimer - 1 : clearTimeoutNative(id)
  \/ Slow

FiberStep ==
  \/ \E f \in Fiber : callAsyncFunction(f)
  \/ \E v \in Argument : Await(v)
  \/ \E v \in Argument : FiberReturns(v)
  \/ FiberFaults \/ \E v \in Value : FiberThrows(v)

(* Program code that gives the thread back.                                *)
CallbackEnds ==
  \/ TopReturns \/ TimerReturns \/ Uncaught
  \/ \E v \in Argument : HandlerReturns(v)
  \/ \E v \in Value : HandlerThrows(v)

LoopStep ==
  RunTask \/ csVMResumeFiber \/ reportUnhandledRejections \/ FireTimer \/ LoopEnds

Next == PromiseCall \/ TimerCall \/ FiberStep \/ CallbackEnds \/ LoopStep \/ Ended

Spec == Init /\ [][Next]_vars

-----------------------------------------------------------------------------
(* Safety.                                                                 *)


(* settle returns early on a promise that is not pending: an outcome, once *)
(* there, is what every later reader of the promise sees.                  *)
SettledOnce ==
  [][\A p \in Promise : ~Pending(heap, p) => Outcome(heap', p) = Outcome(heap, p)]_vars

(* A microtask carries a copy of its promise's outcome, made when it was   *)
(* queued and possibly requeued since; the copy is never stale or swapped. *)
TasksCarryOutcome == TasksCarry(heap)

(* Nobody waits on a settled promise: settling moved every reaction to the *)
(* queue, and a later one goes there at once.                              *)
NoReactionLeftBehind == NoneWaitsOnSettled(heap)

(* The watchdog misses nothing: a rejection nobody listens to is on its    *)
(* list until it is reported, so the program cannot end well with one.     *)
NoSilentRejection == phase = "failed" \/ RejectionsWatched(heap)

(* What holds between the heap and the thread, and makes the properties    *)
(* above inductive: an async call under way has its promise, and a task    *)
(* that is running is still at the head of the queue.                      *)
Control ==
  /\ \A f \in Fiber : /\ fiber[f].promise <= heap.made
                      /\ fiber[f].state # "unused" => fiber[f].promise # None
  /\ \A i \in 1 .. Len(running) : fiber[running[i]].state # "unused"
  /\ body # None => fiber[body].state # "unused"
  /\ phase = "timer" => firing.id # 0
  /\ phase = "task" => heap.queue # <<>>
  /\ adding # NotAdding => /\ adding.target \in Allocated(heap)
                           /\ adding.next \in 1 .. adding.count
                           /\ adding.count <= MaxInputs

IInv == TypeOK /\ HeapOK(heap) /\ NoSilentRejection /\ Control

(* Every reaction and microtask of the heap, as an entry that says where   *)
(* it stands: in a promise's list, or in the queue (at None).              *)
Waiting ==
  (UNION {{[at |-> p, nth |-> i, who |-> heap.promise[p].reactions[i]] :
             i \in DOMAIN heap.promise[p].reactions} : p \in Promise})
  \cup {[at |-> None, nth |-> i, who |-> heap.queue[i]] : i \in DOMAIN heap.queue}

(* The task at the head is being run, not waiting.                         *)
HeadRuns(w) == phase = "task" /\ w.at = None /\ w.nth = 1

(* No lost wakeup and no double one: a suspended async call is waited for  *)
(* by exactly one reaction or microtask, and any other call by none, so    *)
(* csVMResumeFiber never finds a fiber that is not suspended.              *)
OneWakeup ==
  \A f \in Fiber :
    LET wakers == {w \in Waiting : w.who.fiber = f /\ ~HeadRuns(w)} IN
    IF fiber[f].state = "suspended" THEN Cardinality(wakers) = 1 ELSE wakers = {}

(* A promise made by .then, .catch, .finally or an async call settles by   *)
(* exactly one route: a reaction or microtask that will, or the async body *)
(* still to end.  None is ever orphaned, and none is settled by two, until *)
(* a fatal error abandons the run.                                         *)
OneSettler ==
  phase # "failed" => \A p \in Reachable :
    LET o == heap.promise[p]
        feeders == {w \in Waiting : w.who.result = p}
        unfinished == {f \in Fiber : fiber[f].promise = p /\ fiber[f].state # "done"}
    IN  o.maker \in {"then", "async"} =>
          IF o.state = "pending"
          THEN Cardinality(feeders) + Cardinality(unfinished) = 1
          ELSE unfinished = {} /\ \A w \in feeders : HeadRuns(w)

(* A combinator that has not decided counts what it still waits for: every *)
(* input not yet collected has exactly one reaction or microtask, and a    *)
(* collected one has none.                                                 *)
CombinatorOwes ==
  phase # "failed" => \A p \in Reachable :
    LET c == heap.combine[p]
        owed == {w \in Waiting : w.who.combine = p}
    IN  c.mode # "none" /\ Pending(heap, p) /\ adding.target # p =>
          /\ owed # {}
          /\ c.mode # "race" => /\ Cardinality(owed) = c.remaining
                                /\ \A w \in owed : w.who.index \notin c.filled

(* Handlers of one promise are queued in the order they were registered,   *)
(* wherever the promise was when each was.                                 *)
HandlersInOrder ==
  \A i, j \in DOMAIN heap.queue :
    LET s == heap.queue[i]
        t == heap.queue[j]
    IN  i < j /\ s.callback /\ t.callback /\ s.src = t.src /\ s.src # None => s.id < t.id

(* vm.timers is sorted, so the loop may sleep until the first is due; and  *)
(* it has one entry a timer: clearing an id removes all of it, and a timer *)
(* that is firing is not on the list.                                      *)
TimersInOrder ==
  /\ \A i, j \in DOMAIN timers : i < j => timers[i].left <= timers[j].left
  /\ \A i, j \in DOMAIN timers : timers[i].id = timers[j].id => i = j
  /\ \A i \in DOMAIN timers : timers[i].id # firing.id
  /\ Len(timers) <= TimersMax

(* A cleared timer never runs again, whoever cleared it and whenever: not  *)
(* from the list, and not by being re-armed after its own callback.        *)
ClearedStaysCleared ==
  [][\A id \in 1 .. nextTimer - 1 :
       ~Armed(id) /\ (firing.id # id \/ firing.cancelled) => ~Armed(id)']_vars

-----------------------------------------------------------------------------
(* The event loop keeps the promises' contract.                            *)

Listeners ==
  (UNION {{<<p, heap.promise[p].reactions[i].id>> : i \in DOMAIN heap.promise[p].reactions} :
            p \in Promise})
  \cup {<<heap.queue[i].src, heap.queue[i].id>> :
          i \in {j \in DOMAIN heap.queue : heap.queue[j].src # None}}

Contract == INSTANCE PromiseContract WITH
  Settlement <- [state : Settled, value : Datum],
  Unsettled <- [state |-> "pending", value |-> Undefined],
  outcome <- [p \in Promise |-> Outcome(heap, p)],
  asked <- [p \in Promise |-> heap.promise[p].listeners],
  waiting <- Listeners,
  over <- IF phase \in Final THEN phase ELSE "no"

(* Every step of the loop, of a native or of a fiber is a step the         *)
(* contract allows: whatever the queue and the reactions do underneath, a  *)
(* listener is answered exactly once, after its promise settled.           *)
KeepsContract == Contract!Spec

-----------------------------------------------------------------------------
(* Liveness.  The loop runs whenever it has the thread, and program code   *)
(* that has it gives it back in the end: the loop never preempts it.       *)

GivesBack ==
  \/ CallbackEnds
  \/ \E v \in Argument : FiberReturns(v)
  \/ \E v \in Argument : combinatorInput(v)

FairSpec == Spec /\ WF_vars(LoopStep) /\ WF_vars(GivesBack)

(* No listener of a settled promise is forgotten, however many extra turns *)
(* adoption and .finally make its microtask wait.                          *)
EveryListenerAnswered ==
  \A p \in Promise : \A n \in 1 .. MaxCalls :
    (<<p, n>> \in Listeners /\ ~Pending(heap, p))
      ~> (<<p, n>> \notin Listeners \/ phase = "failed")

(* No armed timer is starved by intervals, however slow their callbacks:   *)
(* it gets its turn, or is cleared.                                        *)
EveryTimerGetsItsTurn ==
  \A id \in 1 .. MaxCalls : Armed(id) ~> (~Armed(id) \/ phase = "failed")
=============================================================================
