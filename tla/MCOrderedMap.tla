----------------------------- MODULE MCOrderedMap -----------------------------
(* Small instances of OrderedMap for TLC: keys that may all have the same hash,*)
(* and an index and an array that both grow before the last key is in.         *)
EXTENDS OrderedMap, TLC

MCHashes == {0, 3}
Both == {"strong", "weak"}
Symmetric == Permutations(Key) \cup Permutations(Value)
===============================================================================
