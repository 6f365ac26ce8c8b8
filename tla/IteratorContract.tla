--------------------------- MODULE IteratorContract ---------------------------
(***************************************************************************)
(* What a generator promises whoever pulls from it, with the fibers, the   *)
(* event loop and the running flags left out.  The calls of next() on one  *)
(* generator are answered in the order they were made; the k-th answer is  *)
(* the body's k-th item, none skipped and none given twice, up to the one  *)
(* call that ends it or fails; every call after that is told it is over.   *)
(***************************************************************************)
EXTENDS Naturals, Sequences

CONSTANTS Generator

Open == [is |-> "open", item |-> 0]
Item(k) == [is |-> "item", item |-> k]
End == [is |-> "end", item |-> 0]
Error == [is |-> "error", item |-> 0]

VARIABLES
  answer,     \* what each call of next() was answered, in the order made
  finished    \* generators with nothing more to give

vars == <<answer, finished>>

Init ==
  /\ answer = [g \in Generator |-> <<>>]
  /\ finished = {}

Ask(g) ==
  /\ answer' = [answer EXCEPT ![g] = Append(@, IF g \in finished THEN End ELSE Open)]
  /\ UNCHANGED finished

Answer(g, k) ==
  /\ answer[g][k] = Open
  /\ \A j \in 1 .. k - 1 : answer[g][j] # Open
  /\ g \notin finished
  /\ \/ answer' = [answer EXCEPT ![g][k] = Item(k)] /\ UNCHANGED finished
     \/ /\ \E last \in {End, Error} : answer' = [answer EXCEPT ![g][k] = last]
        /\ finished' = finished \cup {g}

(* return(): the rest is not wanted, by someone who is owed nothing.       *)
Abandon(g) ==
  /\ \A k \in DOMAIN answer[g] : answer[g][k] # Open
  /\ finished' = finished \cup {g}
  /\ UNCHANGED answer

Next ==
  \E g \in Generator :
    Ask(g) \/ Abandon(g) \/ \E k \in DOMAIN answer[g] : Answer(g, k)

Spec == Init /\ [][Next]_vars
=============================================================================
