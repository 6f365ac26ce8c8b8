----------------------------- MODULE MCGenerators -----------------------------
(* Two generators and an async one, which may pull from each other.        *)
EXTENDS Generators
CONSTANTS g, h, s
MCGenerator == {g, h, s}
MCAsync == {s}
=============================================================================
