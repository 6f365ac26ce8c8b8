--------------------------- MODULE PromiseContract ---------------------------
(***************************************************************************)
(* What promises guarantee a program, with the reactions, the microtask    *)
(* queue and the event loop left out.  A listener is one call that asked   *)
(* for a promise's outcome (.then, .catch, .finally, await, adoption, an   *)
(* input of a combinator), named by its promise and its turn among that    *)
(* promise's listeners.  A listener is answered once, and only when its    *)
(* promise has settled; an outcome never changes.                          *)
(***************************************************************************)
EXTENDS Naturals

CONSTANTS Promise, Settlement, Unsettled

VARIABLES
  outcome,   \* of each promise: Unsettled, or how it settled
  asked,     \* how many listeners each promise ever had
  waiting,   \* the listeners not yet answered
  over       \* "no", or how the run ended: "exit" or "failed"

vars == <<outcome, asked, waiting, over>>

HasSettled(p) == outcome[p] # Unsettled
Answerable == {l \in waiting : HasSettled(l[1])}

Init ==
  /\ outcome = [p \in Promise |-> Unsettled]
  /\ asked = [p \in Promise |-> 0]
  /\ waiting = {}
  /\ over = "no"

(* One promise may settle; none is unsettled or changed.                   *)
Settling ==
  \/ UNCHANGED outcome
  \/ \E p \in Promise, o \in Settlement :
       ~HasSettled(p) /\ outcome' = [outcome EXCEPT ![p] = o]

(* One listener may be answered and one may be added, in a single turn: a  *)
(* handler that returns a promise does both.                               *)
Listening ==
  \E answered \in {{}} \cup {{l} : l \in Answerable} :
    \/ waiting' = waiting \ answered /\ UNCHANGED asked
    \/ \E p \in Promise :
         /\ asked' = [asked EXCEPT ![p] = @ + 1]
         /\ waiting' = (waiting \ answered) \cup {<<p, asked[p] + 1>>}

Turn == over = "no" /\ Settling /\ Listening /\ UNCHANGED over

(* A run that ends in good order has answered all it could.                *)
Finish ==
  /\ over = "no" /\ over' = "exit"
  /\ Answerable = {}
  /\ UNCHANGED <<outcome, asked, waiting>>

(* A fatal error ends it anywhere, in the middle of an answer or not.      *)
Fail ==
  /\ over = "no" /\ over' = "failed"
  /\ \E answered \in {{}} \cup {{l} : l \in Answerable} : waiting' = waiting \ answered
  /\ UNCHANGED <<outcome, asked>>

Next == Turn \/ Finish \/ Fail

Spec == Init /\ [][Next]_vars
=============================================================================
