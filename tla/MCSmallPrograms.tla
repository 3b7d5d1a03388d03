--------------------------- MODULE MCSmallPrograms ---------------------------
(* Every program of Signals with up to three signals from the user, three threads  *)
(* and three references, four jobs, two workers and three messages, times over        *)
(* three seconds of three units; three processes that open a database, three starts   *)
(* of a daemon of which one is killed, three commands, two buffers each way on a pty.     *)
EXTENDS SmallPrograms
AllPrograms == DOMAIN Main
=============================================================================
