------------------------------ MODULE MCModules ------------------------------
(* Every program of three files, at most one of which does not compile.    *)
EXTENDS ModuleLoader
CONSTANTS main, a, b
MCModule == {main, a, b}
MCVerdicts ==
  {[m \in MCModule |-> "good"]} \cup
  {[m \in MCModule |-> IF m = x THEN w ELSE "good"] :
     x \in {main, a}, w \in Verdict \ {"good"}}
MCPrograms ==
  {[imports |-> i, awaits |-> s, verdict |-> w] :
     i \in {f \in [MCModule -> SUBSET MCModule] : \A m \in MCModule : m \notin f[m]},
     s \in SUBSET MCModule, w \in MCVerdicts}
=============================================================================
