------------------------- MODULE DocumentLifecycle -------------------------
(***************************************************************************)
(* What becomes of the documents a user sends, whoever forgets them and    *)
(* whatever fails: a message gives at most one document, which is kept for *)
(* its time; it goes because somebody asked for it or because a sweep came *)
(* upon it after its time; and what is gone stays gone, even if the        *)
(* message is delivered once more.                                         *)
(***************************************************************************)
CONSTANTS
  Messages,
  Askers,    \* forget the one document they are asked to forget
  Sweepers   \* forget documents whose time is up

VARIABLES
  status,  \* "none", "kept", "due" or "gone", per message
  doomed   \* the messages whose document somebody is about to forget, by whom

vars == <<status, doomed>>

Init ==
  /\ status = [m \in Messages |-> "none"]
  /\ doomed = [w \in Askers \union Sweepers |-> {}]

Keep(m) ==
  /\ status[m] = "none"
  /\ status' = [status EXCEPT ![m] = "kept"]
  /\ UNCHANGED doomed

(* Time passes. *)
Lapse(S) ==
  /\ \A m \in S : status[m] = "kept"
  /\ status' = [m \in Messages |-> IF m \in S THEN "due" ELSE status[m]]
  /\ UNCHANGED doomed

Doom(w, S) ==
  /\ doomed[w] = {}
  /\ doomed' = [doomed EXCEPT ![w] = S]
  /\ UNCHANGED status

Ask(w, m) == status[m] # "none" /\ Doom(w, {m})

Sweep(w, S) == (\A m \in S : status[m] = "due") /\ Doom(w, S)

Forget(w, m) ==
  /\ m \in doomed[w]
  /\ status' = [status EXCEPT ![m] = "gone"]
  /\ doomed' = [doomed EXCEPT ![w] = @ \ {m}]

(* Somebody fails and forgets no more. *)
GiveUp(W) ==
  /\ doomed' = [w \in Askers \union Sweepers |-> IF w \in W THEN {} ELSE doomed[w]]
  /\ UNCHANGED status

Next ==
  \/ \E m \in Messages : Keep(m)
  \/ \E S \in SUBSET Messages : Lapse(S)
  \/ \E w \in Askers, m \in Messages : Ask(w, m)
  \/ \E w \in Sweepers, S \in SUBSET Messages : Sweep(w, S)
  \/ \E w \in Askers \union Sweepers, m \in Messages : Forget(w, m)
  \/ \E W \in SUBSET (Askers \union Sweepers) : GiveUp(W)

Spec == Init /\ [][Next]_vars
=============================================================================
