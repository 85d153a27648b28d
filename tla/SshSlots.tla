------------------------------ MODULE SshSlots ------------------------------
(***************************************************************************)
(* What the concurrency limits of the SSH service promise, whatever the    *)
(* mechanism: which remote checks run at a time.  A check is the work of   *)
(* one event loop for a user on a server; there are never more than        *)
(* limits.all of them, limits.user for one user and limits.server on one   *)
(* server.                                                                 *)
(***************************************************************************)
EXTENDS Naturals, FiniteSets

CONSTANTS Loops, Users, Servers

VARIABLES
  limits,  \* [all, user, server], never changed
  running  \* the checks that have a process: [loop, user, server]

Check == [loop : Loops, user : Users, server : Servers]

Within(S) ==
  /\ Cardinality(S) <= limits.all
  /\ \A u \in Users : Cardinality({c \in S : c.user = u}) <= limits.user
  /\ \A s \in Servers : Cardinality({c \in S : c.server = s}) <= limits.server

Init ==
  /\ limits \in [all : Nat \ {0}, user : Nat \ {0}, server : Nat \ {0}]
  /\ running = {}

Start(c) ==
  /\ \A d \in running : d.loop # c.loop
  /\ Within(running \cup {c})
  /\ running' = running \cup {c}
  /\ UNCHANGED limits

Stop(c) ==
  /\ running' = running \ {c}
  /\ UNCHANGED limits

Next == \E c \in Check : Start(c) \/ Stop(c)

Spec == Init /\ [][Next]_<<limits, running>>
=============================================================================
