----------------------------- MODULE PropertyBags -----------------------------
(* What a program may rely on of its objects: each is a list of named          *)
(* properties in the order they came, which only its own stores and deletions  *)
(* change; a frozen one is not defined in or deleted from, and stored to by    *)
(* two ways only that do not look; a guarded name (one that is read-only, or   *)
(* that a setter takes) is stored to by those and by o[k] = v; and an object   *)
(* is there for as long as the program can reach it.  Layouts, caches and      *)
(* collections do not show otherwise.                                          *)
EXTENDS Naturals, Sequences

CONSTANTS Object, Key, Datum, Gone

VARIABLES
  bag,     \* what each object holds, or Gone: no such object (any more)
  held,    \* the objects on the program's stack
  way      \* how the program stores or deletes, or last did

vars == <<bag, held, way>>

(* The ways that pass a frozen object by, and those that do a guarded name.    *)
Unfrozen == {"cache", "assign"}
Unguarded == {"cache", "assign", "index"}

Entry == [key : Key, value : Object \cup Datum]
Live == {o \in Object : bag[o] # Gone}
Named(entries, k) == {n \in DOMAIN entries : entries[n].key = k}
Has(o, k) == Named(bag[o].entries, k) # {}
(* The entries but for the n-th, in the order they were in.                    *)
Without(entries, n) ==
  [m \in 1..(Len(entries) - 1) |-> IF m < n THEN entries[m] ELSE entries[m + 1]]

(* The objects a path of properties leads to from the stack: those of every    *)
(* set that holds the stack and whatever its members refer to.                 *)
Refers(o) == {bag[o].entries[n].value : n \in DOMAIN bag[o].entries} \cap Object
Reached ==
  {o \in Object : \A S \in SUBSET Object :
     (held \subseteq S /\ \A x \in S \cap Live : Refers(x) \subseteq S) => o \in S}

Init == bag = [o \in Object |-> Gone] /\ held = {} /\ way = "none"

Empty == [entries |-> <<>>, frozen |-> FALSE, guarded |-> {}]
New(o) == /\ o \notin Live
          /\ bag' = [bag EXCEPT ![o] = Empty]
          /\ held' = held \cup {o}

(* The program lets go of an object, or reads a reference to one.              *)
Release(o) == held' = held \ {o} /\ UNCHANGED bag
Fetch(o, k) == /\ o \in held
               /\ \E n \in Named(bag[o].entries, k) :
                    held' = held \cup ({bag[o].entries[n].value} \cap Object)
               /\ UNCHANGED bag

Stored(entries, k, v) ==
  IF Named(entries, k) = {} THEN Append(entries, [key |-> k, value |-> v])
  ELSE [n \in DOMAIN entries |->
          IF entries[n].key = k THEN [key |-> k, value |-> v] ELSE entries[n]]

(* The value may come from the stack for good.                                 *)
Store(o, k, v) ==
  /\ o \in Live /\ v \in Live \cup Datum
  /\ bag[o].frozen => way' \in Unfrozen
  /\ k \in bag[o].guarded => way' \in Unguarded
  /\ bag' = [bag EXCEPT ![o].entries = Stored(@, k, v)]
  /\ held' \in {held, held \ {v}}

(* Object.defineProperty stores whatever was said before, and guards the name. *)
Define(o, k, v) ==
  /\ o \in Live /\ v \in Live \cup Datum
  /\ ~bag[o].frozen /\ way' = "define"
  /\ bag' = [bag EXCEPT ![o].entries = Stored(@, k, v), ![o].guarded = @ \cup {k}]
  /\ held' = held

(* The operand of delete leaves the stack, on which it may stand again.        *)
Remove(o, k) ==
  /\ o \in Live /\ ~bag[o].frozen /\ way' = "delete"
  /\ \E n \in Named(bag[o].entries, k) : bag' = [bag EXCEPT ![o].entries = Without(@, n)]
  /\ held' \in {held, held \ {o}}

Freeze(o) == /\ o \in Live /\ bag' = [bag EXCEPT ![o].frozen = TRUE] /\ held' = held
Guard(o, k) == /\ o \in Live /\ bag' = [bag EXCEPT ![o].guarded = @ \cup {k}] /\ held' = held

(* Some of the objects the program has no way to are gone.                     *)
Reclaim == /\ bag' \in [Object -> {Gone} \cup {bag[o] : o \in Object}]
           /\ \A o \in Object : bag'[o] \in {bag[o], Gone}
           /\ \A o \in Reached : bag'[o] = bag[o]
           /\ held' = held

(* The program goes about a store or a deletion.                               *)
Turn == UNCHANGED <<bag, held>>

Next ==
  \/ \E o \in Object : New(o) \/ Release(o) \/ Freeze(o)
  \/ \E o \in Object, k \in Key : Fetch(o, k) \/ Remove(o, k) \/ Guard(o, k)
  \/ \E o \in Object, k \in Key, v \in Object \cup Datum : Store(o, k, v) \/ Define(o, k, v)
  \/ Reclaim \/ Turn

Spec == Init /\ [][Next]_vars
===============================================================================
