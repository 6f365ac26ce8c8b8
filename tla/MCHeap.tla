-------------------------------- MODULE MCHeap --------------------------------
(* Small instances of Heap for TLC: two objects, a shape limit that two keys   *)
(* pass, and just as many cells for shapes as make every call possible.        *)
EXTENDS Heap, TLC

CONSTANTS a, b, c, readA, writeA

MCKeyOf == [s \in Site |-> a]
Symmetric == Permutations(Object) \cup Permutations(Shape \ {Root})
===============================================================================
