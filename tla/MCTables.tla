------------------------------- MODULE MCTables -------------------------------
(* Small instances of Tables for TLC: names whose probes run into each other   *)
(* and around the end of the array, in tables of 4 and 8 places.               *)
EXTENDS Tables, TLC

CONSTANTS k1, k2, k3, k4, s1, s2

MCKey == {k1, k2, k3, k4}
MCHash == k1 :> 3 @@ k2 :> 3 @@ k3 :> 7 @@ k4 :> 7
PoolHash == k1 :> 0 @@ k2 :> 1 @@ k3 :> 2 @@ k4 :> 3
MCNamed == s1 :> k2 @@ s2 :> k4
AllUses == {"globals", "object", "pool"}
Pool == {"pool"}
===============================================================================
