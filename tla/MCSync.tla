-------------------------------- MODULE MCSync --------------------------------
(* A mutex and a channel of one place; a semaphore and an unbounded one.   *)
EXTENDS Sync
MCSetups == {[permits |-> 1, capacity |-> 1], [permits |-> 2, capacity |-> 0]}
===============================================================================
