---- MODULE MCRollout ----
(* A small instance of Rollout for TLC. *)
EXTENDS Rollout

(* Everything is turned on at once. *)
MCSelections == {{Access}, Databases}
====
