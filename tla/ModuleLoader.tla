----------------------------- MODULE ModuleLoader -----------------------------
(***************************************************************************)
(* How the files of a CScript program are loaded and run                   *)
(* (src/runtime/module.c, csVMRunPendingModules and runBodyAsync of        *)
(* src/runtime/vm.c, importAtRuntime of src/runtime/vm_call.inc).          *)
(*                                                                         *)
(* Loading is a depth-first walk over the static imports.  It compiles     *)
(* each file once and queues it behind everything it imports.  Running     *)
(* takes the queue from the front.  A body that runs may call import(),    *)
(* which loads, queues and runs in the middle of it, over the same queue.  *)
(* The C stack is `stack`: loads, loops over the queue and bodies.         *)
(***************************************************************************)
EXTENDS Naturals, Sequences, FiniteSets

CONSTANTS
  Module,       \* the files of a program
  Entry,        \* the file it is started with
  Programs,     \* the programs considered
  ModulesMax,   \* CS_MODULES_MAX: how many modules may wait in the queue
  MaxImports,   \* import() calls a program makes in all
  NoModule

Verdict == {"good", "illtyped", "unparsable", "missing"}

(* A program: the static imports of each file, those whose top level       *)
(* awaits, and what reading, parsing and checking each file comes to.      *)
Program ==
  [imports : [Module -> SUBSET Module], awaits : SUBSET Module,
   verdict : [Module -> Verdict]]

ASSUME ModuleLoaderAssumption ==
  /\ Entry \in Module /\ NoModule \notin Module
  /\ Programs \subseteq Program
  /\ ModulesMax \in Nat \ {0}
  /\ MaxImports \in Nat

VARIABLES
  program,     \* the program being run; never changes
  registered,  \* vm.modules: absent, or module->loading or not
  pending,     \* vm.pending, up to vm.pendingCount
  executed,    \* modules whose `executed` flag is set
  stack,       \* the C functions under way, outermost first
  phase,       \* "run", then "events" once the queue is done, then an end
  view,        \* module->namespaceView: none, or what it was built from
  calls,       \* import() calls made
  runs,        \* how often each body was entered
  finished     \* modules whose body ran to its end

vars == <<program, registered, pending, executed, stack, phase, view, calls,
          runs, finished>>

LoadFrame == [kind : {"load"}, of : Module, left : SUBSET Module, ok : BOOLEAN]
LoopFrame == [kind : {"loop"}, of : Module \cup {NoModule}, next : Nat, caught : BOOLEAN]
BodyFrame == [kind : {"body"}, of : Module, ok : BOOLEAN,
              doing : {"running", "waiting", "resumed", "over"}]

TypeOK ==
  /\ program \in Program
  /\ registered \in [Module -> {"absent", "loading", "loaded"}]
  /\ pending \in Seq(Module)
  /\ executed \subseteq Module
  /\ stack \in Seq(LoadFrame \cup LoopFrame \cup BodyFrame)
  /\ phase \in {"run", "events", "exit", "failed"}
  /\ view \in [Module -> {"none", "partial", "whole"}]
  /\ calls \in 0 .. MaxImports
  /\ runs \in [Module -> Nat]
  /\ finished \subseteq Module

-----------------------------------------------------------------------------
(* The stack.                                                              *)

Depth == Len(stack)
Top == stack[Depth]
TopIs(kind) == stack # <<>> /\ Top.kind = kind
Below == SubSeq(stack, 1, Depth - 1)
WithTop(f) == Append(Below, f)

NewLoad(m) == [kind |-> "load", of |-> m, left |-> program.imports[m], ok |-> TRUE]
NewLoop(m, caught) == [kind |-> "loop", of |-> m, next |-> 1, caught |-> caught]
NewBody(m) == [kind |-> "body", of |-> m, ok |-> TRUE, doing |-> "running"]

(* The loop goes on to its next entry.                                     *)
NextEntry(s) == [s EXCEPT ![Len(s)].next = @ + 1]

Awaits(m) == m \in program.awaits

-----------------------------------------------------------------------------
(* Loading: csModuleLoadResolved and csModuleLoadImports.                  *)

(* There is nothing to read, or no room left in the queue.                 *)
Refused(m) == program.verdict[m] = "missing" \/ Len(pending) >= ModulesMax

(* One more import of the file being loaded.  A module still loading is    *)
(* one this file is in a cycle with.  An import that fails does not stop   *)
(* the walk over the others.                                               *)
LoadImport(d) ==
  LET f == [Top EXCEPT !.left = @ \ {d}]
      g == [f EXCEPT !.ok = FALSE]
  IN  /\ TopIs("load")
      /\ d \in Top.left /\ program.verdict[Top.of] # "unparsable"
      /\ \/ registered[d] = "loaded" /\ stack' = WithTop(f) /\ UNCHANGED registered
         \/ registered[d] = "loading" /\ stack' = WithTop(g) /\ UNCHANGED registered
         \/ /\ registered[d] = "absent" /\ Refused(d)
            /\ stack' = WithTop(g) /\ UNCHANGED registered
         \/ /\ registered[d] = "absent" /\ ~Refused(d)
            /\ registered' = [registered EXCEPT ![d] = "loading"]
            /\ stack' = Append(WithTop(f), NewLoad(d))
      /\ UNCHANGED <<program, pending, executed, phase, view, calls, runs, finished>>

(* As if a load that failed left the mark of one that is still going on.       *)
MutLoaded(m, ok) == IF ok THEN [registered EXCEPT ![m] = "loaded"] ELSE registered

Loaded(m, ok) == [registered EXCEPT ![m] = "loaded"]

(* As if a module were queued before what it imports.                      *)
MutQueued(m, ok) == IF ok THEN <<m>> \o pending ELSE pending

Queued(m, ok) == IF ok THEN Append(pending, m) ELSE pending

(* Checked and compiled, or not.  Whoever asked for the module goes on: a  *)
(* load that needs it, an import() that now runs the queue or rejects, or  *)
(* the program, which does not start without its entry file.               *)
LoadEnds ==
  LET m == Top.of
      ok == Top.ok /\ program.verdict[m] = "good"
      asker == stack[Depth - 1]
  IN  /\ TopIs("load")
      /\ Top.left = {} \/ program.verdict[m] = "unparsable"
      /\ registered' = Loaded(m, ok)
      /\ pending' = Queued(m, ok)
      /\ \/ /\ asker.kind = "load"
            /\ stack' = [Below EXCEPT ![Depth - 1].ok = @ /\ ok]
            /\ UNCHANGED phase
         \/ /\ asker.kind = "loop" /\ ok
            /\ stack' = Below /\ UNCHANGED phase
         \/ /\ asker.kind = "loop" /\ ~ok
            /\ stack' = SubSeq(stack, 1, Depth - 2)
            /\ phase' = IF asker.of = NoModule THEN "failed" ELSE phase
      /\ UNCHANGED <<program, executed, view, calls, runs, finished>>

-----------------------------------------------------------------------------
(* Running the queue: csVMRunPendingModules and importAtRuntime.           *)

InQueue == TopIs("loop") /\ Top.next <= Len(pending)
Entered == pending[Top.next]

(* buildNamespace keeps the first view of a module it was asked for.       *)
Viewed(ms) ==
  [m \in Module |-> IF m \notin ms \/ view[m] # "none" THEN view[m]
                    ELSE IF m \in finished THEN "whole" ELSE "partial"]

(* As if a module that ran already were not stepped over.                  *)
MutSkipExecuted == InQueue /\ Entered \in executed /\ UNCHANGED vars

SkipExecuted ==
  /\ InQueue /\ Entered \in executed
  /\ stack' = NextEntry(stack)
  /\ UNCHANGED <<program, registered, pending, executed, phase, view, calls, runs,
                 finished>>

(* import() cannot wait for a top level that awaits: it rejects, with the  *)
(* queue emptied and the module marked.                                    *)
RefuseAwaiting ==
  /\ InQueue /\ Entered \notin executed
  /\ Top.of # NoModule /\ Awaits(Entered)
  /\ executed' = executed \cup {Entered}
  /\ pending' = <<>>
  /\ stack' = Below
  /\ UNCHANGED <<program, registered, phase, view, calls, runs, finished>>

(* As if `executed` were left for the body's end to set.                   *)
MutEnterBody ==
  /\ InQueue /\ Entered \notin executed
  /\ Top.of = NoModule \/ ~Awaits(Entered)
  /\ stack' = Append(stack, NewBody(Entered))
  /\ view' = Viewed(program.imports[Entered])
  /\ runs' = [runs EXCEPT ![Entered] = @ + 1]
  /\ UNCHANGED <<program, registered, pending, executed, phase, calls, finished>>

(* A body starts by taking the namespaces it imports.                      *)
EnterBody ==
  /\ InQueue /\ Entered \notin executed
  /\ Top.of = NoModule \/ ~Awaits(Entered)
  /\ executed' = executed \cup {Entered}
  /\ stack' = Append(stack, NewBody(Entered))
  /\ view' = Viewed(program.imports[Entered])
  /\ runs' = [runs EXCEPT ![Entered] = @ + 1]
  /\ UNCHANGED <<program, registered, pending, phase, calls, finished>>

(* The end of the queue: import() fulfils with the namespace it was asked  *)
(* for, and the program goes on to its event loop.                         *)
QueueDone ==
  /\ TopIs("loop") /\ Top.next > Len(pending)
  /\ pending' = <<>>
  /\ stack' = Below
  /\ IF Top.of = NoModule
     THEN phase' = "events" /\ UNCHANGED view
     ELSE view' = Viewed({Top.of}) /\ UNCHANGED phase
  /\ UNCHANGED <<program, registered, executed, calls, runs, finished>>

-----------------------------------------------------------------------------
(* Program code.                                                           *)

BodyRuns == TopIs("body") /\ Top.doing \in {"running", "resumed"}

(* The event loop has the thread: under a top level that awaits, or at the *)
(* end.  It runs callbacks.                                                *)
LoopRuns ==
  \/ TopIs("body") /\ Top.doing \in {"waiting", "over"}
  \/ phase = "events" /\ stack = <<>>

(* import(m), from a body or from a callback.  It is `caught` when an      *)
(* async call or a promise handler made it, which takes what goes wrong    *)
(* inside as its own rejection.                                            *)
importAtRuntime(m, caught) ==
  /\ BodyRuns \/ LoopRuns
  /\ calls < MaxImports
  /\ calls' = calls + 1
  /\ \/ registered[m] = "absent" /\ Refused(m) /\ UNCHANGED <<stack, registered>>
     \/ /\ registered[m] = "absent" /\ ~Refused(m)
        /\ registered' = [registered EXCEPT ![m] = "loading"]
        /\ stack' = stack \o <<NewLoop(m, caught), NewLoad(m)>>
     \/ /\ registered[m] = "loaded"
        /\ stack' = Append(stack, NewLoop(m, caught)) /\ UNCHANGED registered
  /\ UNCHANGED <<program, pending, executed, phase, view, runs, finished>>

(* An error nobody in the running body takes travels out through every     *)
(* import() it is inside of, to the first that was caught, or to the end.  *)
Travels ==
  LET traps == {i \in 1 .. Depth : stack[i].kind = "loop" /\ stack[i].caught}
  IN  /\ pending' = <<>>
      /\ \/ traps = {} /\ phase' = "failed" /\ stack' = <<>>
         \/ \E i \in traps : /\ \A j \in traps : j <= i
                             /\ stack' = SubSeq(stack, 1, i - 1)
                             /\ UNCHANGED phase

BodyReturns ==
  /\ BodyRuns
  /\ finished' = finished \cup {Top.of}
  /\ stack' = IF Awaits(Top.of) THEN WithTop([Top EXCEPT !.doing = "over"])
              ELSE NextEntry(Below)
  /\ UNCHANGED <<program, registered, pending, executed, phase, view, calls, runs>>

(* A top level that awaits is an async call: its failure rejects it.       *)
BodyFails ==
  /\ BodyRuns
  /\ IF Awaits(Top.of)
     THEN /\ stack' = WithTop([Top EXCEPT !.doing = "over", !.ok = FALSE])
          /\ UNCHANGED <<pending, phase>>
     ELSE Travels
  /\ UNCHANGED <<program, registered, executed, view, calls, runs, finished>>

(* One await stands for all those of a body.                               *)
BodyAwaits ==
  /\ TopIs("body") /\ Top.doing = "running" /\ Awaits(Top.of)
  /\ stack' = WithTop([Top EXCEPT !.doing = "waiting"])
  /\ UNCHANGED <<program, registered, pending, executed, phase, view, calls, runs,
                 finished>>

BodyResumes ==
  /\ TopIs("body") /\ Top.doing = "waiting"
  /\ stack' = WithTop([Top EXCEPT !.doing = "resumed"])
  /\ UNCHANGED <<program, registered, pending, executed, phase, view, calls, runs,
                 finished>>

(* As if a body that never settled passed for one that did.                *)
MutRunBodyAsync ==
  /\ TopIs("body") /\ Top.doing \in {"waiting", "over"}
  /\ IF Top.ok
     THEN stack' = NextEntry(Below) /\ UNCHANGED <<pending, phase>>
     ELSE Travels
  /\ UNCHANGED <<program, registered, executed, view, calls, runs, finished>>

(* runBodyAsync after the event loop has run dry: the body has to have     *)
(* settled, and well.                                                      *)
runBodyAsync ==
  /\ TopIs("body") /\ Top.doing \in {"waiting", "over"}
  /\ IF Top.doing = "over" /\ Top.ok
     THEN stack' = NextEntry(Below) /\ UNCHANGED <<pending, phase>>
     ELSE Travels
  /\ UNCHANGED <<program, registered, executed, view, calls, runs, finished>>

(* A callback fails, or a rejection nobody listened to is reported.        *)
CallbackFails ==
  /\ LoopRuns
  /\ Travels
  /\ UNCHANGED <<program, registered, executed, view, calls, runs, finished>>

ProgramEnds ==
  /\ phase = "events" /\ stack = <<>>
  /\ phase' = "exit"
  /\ UNCHANGED <<program, registered, pending, executed, stack, view, calls, runs,
                 finished>>

-----------------------------------------------------------------------------
Ended == phase \in {"exit", "failed"}

(* csRunFile: the entry file loads on top of the program's own loop.       *)
Init ==
  /\ program \in Programs
  /\ IF program.verdict[Entry] = "missing"
     THEN /\ phase = "failed" /\ stack = <<>>
          /\ registered = [m \in Module |-> "absent"]
     ELSE /\ phase = "run"
          /\ registered = [m \in Module |-> IF m = Entry THEN "loading" ELSE "absent"]
          /\ stack = <<NewLoop(NoModule, FALSE), NewLoad(Entry)>>
  /\ pending = <<>>
  /\ executed = {}
  /\ view = [m \in Module |-> "none"]
  /\ calls = 0
  /\ runs = [m \in Module |-> 0]
  /\ finished = {}

Loader ==
  \/ \E d \in Module : LoadImport(d)
  \/ LoadEnds \/ SkipExecuted \/ RefuseAwaiting \/ EnterBody \/ QueueDone

Code ==
  \/ BodyReturns \/ BodyFails \/ BodyAwaits \/ BodyResumes
  \/ runBodyAsync \/ CallbackFails \/ ProgramEnds
  \/ \E m \in Module, caught \in BOOLEAN : importAtRuntime(m, caught)

Next == Loader \/ Code \/ (Ended /\ UNCHANGED vars)

Spec == Init /\ [][Next]_vars

(* The loader never stops in the middle of its work, and program code      *)
(* gives the thread back in the end.                                       *)
FairSpec == Spec /\ WF_vars(Loader \/ Code)

-----------------------------------------------------------------------------
(* Properties.                                                             *)

Began(m) == runs[m] > 0

(* However loads, static and dynamic, nest over the one queue, a module's  *)
(* body is entered at most once: importing one twice runs it once.         *)
RunsOnce == TypeOK /\ \A m \in Module : runs[m] <= 1

(* What the loader promises of static imports: a body starts only when     *)
(* every module it imports has run to its end, so that no two modules that *)
(* import each other ever start.                                           *)
DependencyOrder ==
  \A m \in Module : Began(m) => program.imports[m] \subseteq finished

(* It keeps the promise as long as the program does not call import().     *)
StaticOrder == calls = 0 => DependencyOrder

(* A program without import() that ends well has run its entry file and,   *)
(* with StaticOrder, all that file needs.                                  *)
NothingSkipped == calls = 0 /\ phase = "exit" => Entry \in finished

(* No load, however it failed, leaves a module marked as loading: the mark *)
(* would make every later import of it an import cycle.                    *)
NoFalseCycle ==
  \A m \in Module : registered[m] = "loading" =>
    \E i \in 1 .. Depth : stack[i].kind = "load" /\ stack[i].of = m

(* What it imports is ready for a body that starts: each module has run to *)
(* its end, and the namespaces taken of them are not ones that were built, *)
(* and kept, before all that they export was there.                        *)
ImportsReady ==
  DependencyOrder /\ \A m \in Module : Began(m) => \A d \in program.imports[m] : view[d] # "partial"

(* A namespace exposes exactly the exported names.  One built before they  *)
(* were all there is excusable only while the module's body is under way.  *)
NamespaceWhole == \A m \in Module : view[m] = "partial" => Began(m) /\ m \notin finished

(* Every load, every nested run of the queue and every program ends.       *)
LoaderEnds == <>Ended
=============================================================================
