---- MODULE MCMemory ----
(* Small instances of Memory for TLC. *)
EXTENDS Memory, TLC
CONSTANTS u1, sys, a, b, t1, t2
MCThreads == {t1, t2}
Symmetric == Permutations({t1, t2}) \union Permutations({a, b})
====
