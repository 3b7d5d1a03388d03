----------------------------- MODULE MCSignals -----------------------------
(* One program of signals/, alone. *)
EXTENDS SignalsInv
=============================================================================
