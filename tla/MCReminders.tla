---- MODULE MCReminders ----
(* Small instances of Reminders for TLC. *)
EXTENDS Reminders, TLC

CONSTANTS p1, p2, t1, t2, u1, i1, i2, i3, i4

MCHostOne   == [t \in Threads |-> p1]
MCHostEach  == [t \in Threads |-> IF t = t1 THEN p1 ELSE p2]

(* retry_base_seconds is one unit of the clock. *)
MCRetryDelay == [k \in 1 .. MaxAttempts |-> 2 ^ (k - 1)]

Ask(u, kind, text, source) ==
  [user |-> u, kind |-> kind, text |-> text, source |-> source, private |-> TRUE]

MCOneOfEachKind == {Ask(u1, k, "a", NoSource) : k \in Kinds}
(* The second reminder is asked for in a group chat, where no delivery goes. *)
MCOneMessageEach ==
  {Ask(u1, "one_time", "a", 1), [Ask(u1, "recurring", "b", 2) EXCEPT !.private = FALSE]}

(* The same words twice: in a message of known id, and in one of no id. *)
MCSameWords == {Ask(u1, "one_time", "a", 1), Ask(u1, "one_time", "a", NoSource)}

MCRowSymmetry == Permutations(Ids)
====
