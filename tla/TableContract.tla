---------------------------- MODULE TableContract -----------------------------
(* What the interpreter relies on of a table: a map from interned strings to   *)
(* values, which answers by key.  A program removes properties of an object    *)
(* and never a global, and only the collector takes strings out of the pool.   *)
CONSTANTS Key, Value, Absent

VARIABLES
  use,     \* what the table is for
  map

TypeOK ==
  /\ use \in {"globals", "object", "pool"}
  /\ map \in [Key -> Value \cup {Absent}]

Init ==
  /\ use \in {"globals", "object", "pool"}
  /\ map = [k \in Key |-> Absent]

(* A key is entered or gets another value.  The strings in the pool stay       *)
(* what they are.                                                              *)
Put(k, v) ==
  /\ use = "pool" => map[k] = Absent
  /\ map' = [map EXCEPT ![k] = v]
  /\ UNCHANGED use

Remove(k) ==
  /\ use = "object"
  /\ map' = [map EXCEPT ![k] = Absent]
  /\ UNCHANGED use

Forget(ks) ==
  /\ use = "pool"
  /\ map' = [k \in Key |-> IF k \in ks THEN Absent ELSE map[k]]
  /\ UNCHANGED use

Next ==
  \/ \E k \in Key : Remove(k) \/ \E v \in Value : Put(k, v)
  \/ \E ks \in SUBSET Key : Forget(ks)

Spec == Init /\ [][Next]_<<use, map>>
===============================================================================
