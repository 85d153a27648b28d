------------------------------ MODULE Dialogue ------------------------------
(***************************************************************************)
(* What a dialogue promises, whatever fails, is repeated or times out: the *)
(* only question that can be answered is the one put to its user last; it  *)
(* is answered once or dropped, and no question that was replaced, dropped *)
(* or answered ever comes back.                                            *)
(***************************************************************************)
EXTENDS Naturals

CONSTANT Users

VARIABLES
  open,      \* the question a user has been asked last, while it stands, or 0
  asked,     \* how many questions have been put, numbered as they come
  answered   \* the questions that have been answered

vars == <<open, asked, answered>>

Init ==
  /\ open = [u \in Users |-> 0]
  /\ asked = 0
  /\ answered = {}

(* A new question replaces the one that stood. *)
Put(u) ==
  /\ asked' = asked + 1
  /\ open' = [open EXCEPT ![u] = asked + 1]
  /\ UNCHANGED answered

Answer(u) ==
  /\ open[u] # 0
  /\ answered' = answered \union {open[u]}
  /\ open' = [open EXCEPT ![u] = 0]
  /\ UNCHANGED asked

Drop(u) ==
  /\ open' = [open EXCEPT ![u] = 0]
  /\ UNCHANGED <<asked, answered>>

Next == \E u \in Users : Put(u) \/ Answer(u) \/ Drop(u)

Spec == Init /\ [][Next]_vars

(* What it comes to in every state: a question that stands has not been    *)
(* answered, and stands for one user.                                      *)
Settled ==
  \A u \in Users : open[u] # 0 =>
    /\ open[u] \notin answered
    /\ \A v \in Users : open[v] = open[u] => v = u
=============================================================================
