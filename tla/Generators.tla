------------------------------ MODULE Generators ------------------------------
(***************************************************************************)
(* Generators and async generators on fibers (src/runtime/vm_fiber.c,      *)
(* OP_YIELD and OP_AWAIT of src/runtime/vm_ops_class.inc, next() and       *)
(* return() of src/native/native_generator.c).  A body is entered by       *)
(* whoever calls next(), which may be another body, or by the event loop   *)
(* when what an async body awaited has settled.  It leaves by a yield, an  *)
(* await, its end or a throw.  Bodies that are running stand on the C      *)
(* stack, `active`, each above the one that called its next().             *)
(***************************************************************************)
EXTENDS Naturals, Sequences, FiniteSets

CONSTANTS
  Generator,
  Async,       \* those of async function*
  MaxNext,     \* calls of next() on one generator
  MaxYields,   \* yields of one body
  MaxAwaits,   \* awaits of one body
  Client       \* what this program does beyond what for-await does

(* overlap: calls next() or return() on an async generator that still owes *)
(* an answer.  escape: awaits a rejection inside a body that catches none. *)
Liberty == {"overlap", "escape"}

ASSUME GeneratorsAssumption ==
  /\ Async \subseteq Generator
  /\ MaxNext \in Nat /\ MaxYields \in Nat /\ MaxAwaits \in Nat
  /\ Client \subseteq Liberty

VARIABLES
  gens,      \* ObjGenerator and its fiber
  active,    \* bodies running, innermost last
  wakeups,   \* await reactions and microtasks that name a fiber
  answer,    \* per generator, the answer of each next() so far
  phase      \* runs; fault: a runtime error on its way out; or an end

vars == <<gens, active, wakeups, answer, phase>>

None == 0
Contract == INSTANCE IteratorContract WITH
  finished <- {g \in Generator : gens[g].done}
Open == Contract!Open

(* `yields` and `awaits` count what the body went through, `awaiting` is   *)
(* the await it stands at: where its frame's ip is, not fields of theirs.  *)
ObjGenerator ==
  [fiber : {"ready", "running", "suspended", "done"}, done : BOOLEAN,
   running : BOOLEAN, pendingResult : 0 .. MaxNext, yielded : 0 .. MaxYields,
   yields : 0 .. MaxYields, awaits : 0 .. MaxAwaits, awaiting : 0 .. MaxAwaits]

Wakeup == [of : Async, nth : 1 .. MaxAwaits]

TypeOK ==
  /\ gens \in [Generator -> ObjGenerator]
  /\ active \in Seq(Generator)
  /\ wakeups \subseteq Wakeup
  /\ \A g \in Generator : /\ Len(answer[g]) <= MaxNext
                          /\ \A k \in DOMAIN answer[g] :
                               answer[g][k].is \in {"open", "item", "end", "error"}
  /\ phase \in {"runs", "fault", "failed", "crossed"}

-----------------------------------------------------------------------------
Runs == phase = "runs"
BodyRuns == Runs /\ active # <<>>
Top == active[Len(active)]
Callers == SubSeq(active, 1, Len(active) - 1)
Owes(g) == \E k \in DOMAIN answer[g] : answer[g][k] = Open

(* One call at a time, as for-await makes them; a sync generator's caller  *)
(* cannot do otherwise, except from inside the body.                       *)
Polite(g) ==
  \/ g \notin Async
  \/ "overlap" \in Client
  \/ ~Owes(g) /\ gens[g].fiber # "running"

Entered(g) == [gens[g] EXCEPT !.fiber = "running", !.awaiting = 0]

-----------------------------------------------------------------------------
(* next().                                                                 *)

(* Drives the body from where it stands, on top of the caller.             *)
driveGenerator(g, o) ==
  /\ gens' = [gens EXCEPT ![g] = o]
  /\ active' = Append(active, g)
  /\ answer' = [answer EXCEPT ![g] = Append(@, Open)]
  /\ UNCHANGED <<wakeups, phase>>

AnswerOver(g) ==
  /\ answer' = [answer EXCEPT ![g] = Append(@, Contract!End)]
  /\ UNCHANGED <<gens, active, wakeups, phase>>

(* As if `running` were not looked at.                                     *)
MutNextReentered(g) ==
  /\ Runs /\ g \notin Async /\ Len(answer[g]) < MaxNext
  /\ IF gens[g].done THEN AnswerOver(g)
     ELSE driveGenerator(g, [Entered(g) EXCEPT !.running = TRUE])

(* As if `done` were not looked at.                                        *)
MutNextAfterEnd(g) ==
  /\ Runs /\ g \notin Async /\ Len(answer[g]) < MaxNext
  /\ IF gens[g].running
     THEN phase' = "fault" /\ UNCHANGED <<gens, active, wakeups, answer>>
     ELSE driveGenerator(g, [Entered(g) EXCEPT !.running = TRUE])

csGeneratorNext(g) ==
  /\ Runs /\ g \notin Async /\ Len(answer[g]) < MaxNext
  /\ IF gens[g].done THEN AnswerOver(g)
     ELSE IF gens[g].running
     THEN phase' = "fault" /\ UNCHANGED <<gens, active, wakeups, answer>>
     ELSE driveGenerator(g, [Entered(g) EXCEPT !.running = TRUE])

(* The call is answered with a promise, kept in pendingResult until the    *)
(* body stops where there is something to report.  One refused because the *)
(* generator is marked as running changes nothing.  A body that the event  *)
(* loop resumed is not marked: driving it once more swaps the execution    *)
(* state under its feet, and what runs next is no longer its code.         *)
csGeneratorNextAsync(g) ==
  LET asked == [gens[g] EXCEPT !.pendingResult = Len(answer[g]) + 1] IN
  /\ Runs /\ g \in Async /\ Len(answer[g]) < MaxNext /\ Polite(g)
  /\ ~gens[g].running
  /\ IF gens[g].done THEN AnswerOver(g)
     ELSE IF gens[g].fiber = "running"
     THEN /\ phase' = "crossed"
          /\ gens' = [gens EXCEPT ![g] = asked]
          /\ answer' = [answer EXCEPT ![g] = Append(@, Open)]
          /\ UNCHANGED <<active, wakeups>>
     ELSE driveGenerator(g, [asked EXCEPT !.fiber = "running", !.awaiting = 0,
                                          !.running = TRUE])

(* return() abandons the body where it stands.                             *)
csGeneratorFinish(g) ==
  /\ Runs /\ Polite(g)
  /\ IF gens[g].running
     THEN phase' = "fault" /\ UNCHANGED gens
     ELSE /\ gens' = [gens EXCEPT ![g].done = TRUE, ![g].fiber = "done", ![g].yielded = 0]
          /\ UNCHANGED phase
  /\ UNCHANGED <<active, wakeups, answer>>

-----------------------------------------------------------------------------
(* Where a body stops.                                                     *)

(* As if an await already used up the promise next() handed out.           *)
MutSettleStep(g, o, reports, what) ==
  LET k == IF g \in Async THEN o.pendingResult ELSE Len(answer[g]) IN
  IF k = None
  THEN gens' = [gens EXCEPT ![g] = o] /\ UNCHANGED answer
  ELSE /\ gens' = [gens EXCEPT ![g] = [o EXCEPT !.pendingResult = None]]
       /\ answer' = [answer EXCEPT ![g][k] = what]

(* o is the generator as the stop left it.  A sync next() returns what     *)
(* there is.  An async one is settled through pendingResult, and only by a *)
(* stop that reports something.                                            *)
settleGeneratorStep(g, o, reports, what) ==
  LET k == IF g \in Async THEN o.pendingResult ELSE Len(answer[g]) IN
  IF ~reports \/ k = None
  THEN gens' = [gens EXCEPT ![g] = o] /\ UNCHANGED answer
  ELSE /\ gens' = [gens EXCEPT ![g] = [o EXCEPT !.pendingResult = None]]
       /\ answer' = [answer EXCEPT ![g][k] = what]

(* The driver takes its execution state back.                              *)
Stopped(g, state) == [gens[g] EXCEPT !.fiber = state, !.running = FALSE]

Yield ==
  LET n == gens[Top].yields + 1
      o == [Stopped(Top, "suspended") EXCEPT !.yields = n, !.yielded = n]
  IN  /\ BodyRuns /\ n <= MaxYields
      /\ settleGeneratorStep(Top, o, TRUE, Contract!Item(o.yielded))
      /\ active' = Callers
      /\ UNCHANGED <<wakeups, phase>>

(* As if the reaction were not told which fiber waits.                     *)
MutAwaitUnnamed ==
  LET n == gens[Top].awaits + 1
      o == [Stopped(Top, "suspended") EXCEPT !.awaits = n, !.awaiting = n]
  IN  /\ BodyRuns /\ Top \in Async /\ n <= MaxAwaits
      /\ settleGeneratorStep(Top, o, FALSE, Open)
      /\ active' = Callers
      /\ UNCHANGED <<wakeups, phase>>

Await ==
  LET n == gens[Top].awaits + 1
      o == [Stopped(Top, "suspended") EXCEPT !.awaits = n, !.awaiting = n]
  IN  /\ BodyRuns /\ Top \in Async /\ n <= MaxAwaits
      /\ settleGeneratorStep(Top, o, FALSE, Open)
      /\ wakeups' = wakeups \cup {[of |-> Top, nth |-> n]}
      /\ active' = Callers
      /\ UNCHANGED phase

(* The body's end, with what it left: a value, or an error.                *)
Over(g) == [Stopped(g, "done") EXCEPT !.done = TRUE, !.yielded = 0]

BodyReturns ==
  /\ BodyRuns
  /\ settleGeneratorStep(Top, Over(Top), TRUE, Contract!End)
  /\ active' = Callers
  /\ UNCHANGED <<wakeups, phase>>

(* A throw passes from a sync body to its caller, which may catch it; a    *)
(* runtime error to every sync caller, which cannot.  The promise of an    *)
(* async next() takes either.                                              *)
BodyFails ==
  /\ active # <<>> /\ phase \in {"runs", "fault"}
  /\ settleGeneratorStep(Top, Over(Top), TRUE, Contract!Error)
  /\ active' = Callers
  /\ phase' = IF Top \in Async THEN "runs" ELSE phase
  /\ UNCHANGED wakeups

(* Code outside any generator ends with it: an async call rejects, a plain *)
(* one takes the program along.                                            *)
FaultLeaves ==
  /\ phase = "fault" /\ active = <<>>
  /\ phase' \in {"runs", "failed"}
  /\ UNCHANGED <<gens, active, wakeups, answer>>

-----------------------------------------------------------------------------
(* The event loop.                                                         *)

Resumes(g) ==
  /\ gens' = [gens EXCEPT ![g] = Entered(g)]
  /\ active' = <<g>>

(* What a body awaited has settled.  A rejection arrives as a throw; when  *)
(* the body has no handler for it, finishFiber ends the fiber, which has   *)
(* no promise of its own.                                                  *)
csVMResumeFiber(w) ==
  /\ Runs /\ active = <<>>
  /\ wakeups' = wakeups \ {w}
  /\ IF gens[w.of].fiber # "suspended" THEN UNCHANGED <<gens, active>>
     ELSE \/ Resumes(w.of)
          \/ /\ "escape" \in Client
             /\ gens' = [gens EXCEPT ![w.of].fiber = "done"]
             /\ UNCHANGED active
  /\ UNCHANGED <<answer, phase>>

-----------------------------------------------------------------------------
Init ==
  /\ gens = [g \in Generator |->
               [fiber |-> "ready", done |-> FALSE, running |-> FALSE,
                pendingResult |-> None, yielded |-> 0, yields |-> 0,
                awaits |-> 0, awaiting |-> 0]]
  /\ active = <<>>
  /\ wakeups = {}
  /\ answer = [g \in Generator |-> <<>>]
  /\ phase = "runs"

Calls ==
  \E g \in Generator : csGeneratorNext(g) \/ csGeneratorNextAsync(g) \/ csGeneratorFinish(g)

Stops == Yield \/ Await \/ BodyReturns \/ BodyFails

Loop == FaultLeaves \/ \E w \in wakeups : csVMResumeFiber(w)

(* A program may stop pulling at any time, and does once it has failed.    *)
Next == Calls \/ Stops \/ Loop \/ UNCHANGED vars

Spec == Init /\ [][Next]_vars

(* A body that runs stops in the end, and what it awaits settles in the    *)
(* end: an await of a promise that never does is owed nothing.             *)
FairSpec == Spec /\ WF_vars(Stops) /\ WF_vars(Loop)

-----------------------------------------------------------------------------
(* Properties.                                                             *)

(* One body, one C frame: a body is never entered again while it runs, by  *)
(* itself, by a body it pulls from, or by the event loop, and the fiber's  *)
(* state says where it is.                                                 *)
EnteredOnce ==
  /\ TypeOK
  /\ \A g \in Generator :
       LET frames == {i \in DOMAIN active : active[i] = g} IN
       /\ Cardinality(frames) <= 1
       /\ (gens[g].fiber = "running") <=> (frames # {})
       /\ g \notin Async => (gens[g].running <=> (frames # {}))

(* A body that waits at an await is waited for once, by that await's own   *)
(* reaction; a body anywhere else by none, so that no stale wakeup can     *)
(* push a value where a yield expects what next() sent.                    *)
WakeupsMatchAwaits ==
  \A g \in Async :
    {w.nth : w \in {x \in wakeups : x.of = g}} =
      IF gens[g].fiber = "suspended" /\ gens[g].awaiting # 0
      THEN {gens[g].awaiting} ELSE {}

(* Bodies, fibers and the event loop together keep the contract of an      *)
(* iterator.                                                               *)
KeepsIteratorContract == Contract!Spec

(* Every next() is answered, or the program fails.                         *)
EveryNextAnswered ==
  \A g \in Generator, k \in 1 .. MaxNext :
    LET owed == k \in DOMAIN answer[g] /\ answer[g][k] = Open IN
    owed ~> (~owed \/ phase = "failed")

(* An async next() hands out a promise, settled wherever the body stops: a *)
(* body that is over owes no answer.                                       *)
NextSettled == \A g \in Async : gens[g].fiber = "done" => ~Owes(g)

(* A generator that is in the middle of its work is not driven by next():  *)
(* a body leaves an await only by the outcome of what it awaited.          *)
AwaitGetsItsOutcome ==
  [][\A g \in Async :
       gens[g].awaiting # 0 /\ gens'[g].awaiting = 0 =>
         [of |-> g, nth |-> gens[g].awaiting] \in wakeups \ wakeups']_vars
=============================================================================
