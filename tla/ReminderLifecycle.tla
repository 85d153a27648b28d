---------------------- MODULE ReminderLifecycle ----------------------
(***************************************************************************)
(* What the reminder subsystem promises, whatever the interleaving of user *)
(* commands, scheduler ticks, crashes and storage errors: a reminder is    *)
(* live from its creation until it is over, once; a message goes out only  *)
(* from a delivery some process undertook while the reminder was live; and *)
(* nothing brings a reminder that is over back into delivery.              *)
(***************************************************************************)
CONSTANTS Processes,     \* the processes that run a scheduler
          Ids            \* the rows the table may come to hold

VARIABLES phase,         \* "none", "live" or "over", per reminder
          undertaken,    \* the processes with a delivery under way, per reminder
          told           \* the reminders whose message reached the user

vars == <<phase, undertaken, told>>

Init == /\ phase = [i \in Ids |-> "none"]
        /\ undertaken = [i \in Ids |-> {}]
        /\ told = {}

Create(i) == /\ phase[i] = "none"
             /\ phase' = [phase EXCEPT ![i] = "live"]
             /\ UNCHANGED <<undertaken, told>>

(* One tick undertakes a whole batch of live reminders. *)
Undertake(p, S) ==
  /\ \A i \in Ids : p \notin undertaken[i]
  /\ \A i \in S : phase[i] = "live"
  /\ undertaken' = [i \in Ids |-> IF i \in S THEN undertaken[i] \cup {p}
                                             ELSE undertaken[i]]
  /\ UNCHANGED <<phase, told>>

Tell(p, i) == /\ p \in undertaken[i]
              /\ told' = told \cup {i}
              /\ UNCHANGED <<phase, undertaken>>

(* The process is done with the reminder: it is over, or stays as it was. *)
Settle(p, i) == /\ p \in undertaken[i]
                /\ undertaken' = [undertaken EXCEPT ![i] = @ \ {p}]
                /\ \/ UNCHANGED phase
                   \/ phase' = [phase EXCEPT ![i] = "over"]
                /\ UNCHANGED told

Withdraw(i) == /\ phase[i] = "live"
               /\ phase' = [phase EXCEPT ![i] = "over"]
               /\ UNCHANGED <<undertaken, told>>

(* The process dies; what it had undertaken is forgotten. *)
Lose(p) == /\ undertaken' = [i \in Ids |-> undertaken[i] \ {p}]
           /\ UNCHANGED <<phase, told>>

Next == \/ \E i \in Ids : Create(i) \/ Withdraw(i)
        \/ \E p \in Processes : \/ \E S \in SUBSET Ids : Undertake(p, S)
                                \/ \E i \in Ids : Tell(p, i) \/ Settle(p, i)
                                \/ Lose(p)

Spec == Init /\ [][Next]_vars
======================================================================
