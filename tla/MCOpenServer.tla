---------------------------- MODULE MCOpenServer ----------------------------
(* Two clients, two requests in all, a table that grows by one entry, every     *)
(* kind of request, every outcome of unwritten memory, both faults.            *)
EXTENDS OpenServer

AllRevents == {{}, {"in"}, {"hup"}}
=============================================================================
