---- MODULE MCChat ----
(* A small instance of Chat for TLC. *)
EXTENDS Chat, TLC
CONSTANTS ann, bob
MCLimit == [u \in Users |-> 2]
MCSymmetry == Permutations(Users)
====
