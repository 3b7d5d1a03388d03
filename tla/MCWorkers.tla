----------------------------- MODULE MCWorkers -----------------------------
(* Two client threads at a time are enough to break the list. *)
EXTENDS Workers
=============================================================================
