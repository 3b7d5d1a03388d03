------------------------------ MODULE PrintdInv ------------------------------
(***************************************************************************)
(* Correctness of the spooling daemon: what happens to a job between the   *)
(* answer "request ID n" and the printer.                                  *)
(***************************************************************************)
EXTENDS Printd

-----------------------------------------------------------------------------
InQueue(c) == \E n \in DOMAIN queue : queue[n].of = c
InHand(c)  == jp # None /\ jp.of = c
Printed(c) == \E d \in printed : d.of = c

(* The client's control file is complete and the answer is being sent, or  *)
(* has been; or a restart will find it so.                                 *)
Spooled(c) == wid[c] # 0 /\ reqs[wid[c]] = c

(* Another client was given the number of this one's job.                  *)
Reissued(c) == \E d \in Clients \ {c} : wid[d] = wid[c]

(* Every job whose number a client was told is kept until the printer has  *)
(* it: its data file and its control file are there, and while the daemon  *)
(* runs it is in the queue, in the hands of the printer thread or of its   *)
(* client thread, or in the part of the spool directory still to be read.  *)
(* This spans client thread, queue, printer thread, defer, crash, restart  *)
(* and build_qonstart.  It fails only for a number that is issued twice.   *)
AckedJobsKept ==
  \A c \in Clients : cl[c] = "acked" /\ ~Printed(c) /\ ~Reissued(c) =>
    /\ data[wid[c]] # None /\ data[wid[c]].of = c
    /\ Spooled(c)
    /\ \/ main = "down" \/ InQueue(c) \/ InHand(c)
       \/ wpc[c] = "add" \/ wid[c] \in todo

(* While the daemon runs, no job is in memory twice: in the queue, in the  *)
(* hands of the printer thread, or still to be added by its client thread  *)
(* or by build_qonstart.  A job in two places would be printed twice.      *)
OnePlace ==
  \A c \in Clients :
    LET places == {n \in DOMAIN queue : queue[n].of = c}
                    \cup (IF InHand(c) THEN {0} ELSE {})
                    \cup (IF wpc[c] \in {"respond", "add"} THEN {-1} ELSE {})
                    \cup (IF Spooled(c) /\ wid[c] \in todo THEN {-2} ELSE {})
    IN Cardinality(places) <= 1

(* A complete control file without a data file is left behind only by a    *)
(* job that the printer has taken: it never stands for a job that somebody *)
(* still waits for.  (A control file that build_qonstart can neither read  *)
(* nor remove loses its data file: that takes a failing disk.)             *)
GhostsArePrinted ==
  \A i \in Ids : reqs[i] \in Clients /\ data[i] = None /\ ~Reissued(reqs[i])
    => Printed(reqs[i])

(* When the printer thread sleeps on jobwait there is nothing to print,    *)
(* except a job whose signal is on its way: no wakeup is lost.             *)
NoLostWakeup ==
  ppc = "waiting" /\ queue # <<>> =>
    main = "scan.signal" \/ \E c \in Clients : wpc[c] = "signal"

(* A new job gets a number that no spooled job has: the job file and       *)
(* nextjob are ahead of the spool directory.                               *)
NumbersFresh ==
  \A c \in Clients : wpc[c] = "creat" => reqs[wid[c]] = None

(* What has been read of a file when its thread takes it to have ended is  *)
(* all that the print command had written by then; from then on the data   *)
(* file does not change until it is unlinked; and it is what is printed.   *)
FileEnds(c) == wpc[c] = "data" /\ wpc'[c] = "ctl"
CutsNothing ==
  /\ \A c \in Clients : FileEnds(c) =>
       Reissued(c) \/ data[wid[c]].len + left[c] = Chunks
  /\ \A c \in Clients : wid[c] # 0 /\ wpc[c] \notin {"creat", "data"} =>
       Reissued(c) \/ data'[wid[c]] \in {data[wid[c]], None}
  /\ \A d \in printed' \ printed :
       Reissued(d.of) \/ d = data[wid[d.of]]

(* The daemon cuts no document: one is printed in part only when its       *)
(* client paused for 20 s or was gone with something left to write, which  *)
(* the code does not tell from the end of the file.  No crash, restart,    *)
(* refusal or failing disk does it.                                        *)
PrintedWhole == [][CutsNothing]_vars

(* The printer has taken the job of c, and the printer thread has still to *)
(* remove it; or the job can no longer get to the printer.                 *)
Removing(c) ==
  InHand(c) /\ ((ppc = "status" /\ status = "ok") \/ ppc \in {"unlink.data", "unlink.req"})
Removed(c) ==
  /\ wpc[c] \in {"signal", "done"}
  /\ data[wid[c]] = None \/ (~Spooled(c) /\ ~InQueue(c) /\ ~InHand(c))
  /\ ~(ppc \in {"connect", "send"} /\ doc.of = c)

(* The removal ends otherwise: the daemon ends, the answer of the printer  *)
(* is late, lost or not understood, or the control file cannot be          *)
(* unlinked.                                                               *)
RemovalFails ==
  \/ main' = "down"
  \/ ppc' = "sleep"
  \/ ppc = "unlink.req" /\ ppc' = "check" /\ reqs'[jp.id] # None

(* Once taken by the printer the job of c is being removed, from there it  *)
(* goes on to be removed, and when it is removed it stays so.              *)
StaysRemoved(c) ==
  /\ ~Printed(c) /\ Printed(c)' => Removing(c)'
  /\ Removing(c) => Removing(c)' \/ Removed(c)' \/ RemovalFails
  /\ Printed(c) /\ Removed(c) => Removed(c)'

(* A job that the printer has taken does not come to the printer again     *)
(* unless its removal fails or its number was issued again, over data      *)
(* files left behind, ghosts, restarts and all other threads.              *)
PrintedOnce == [][\A c \in Clients : Reissued(c) \/ StaysRemoved(c)]_vars

-----------------------------------------------------------------------------
(* The daemon's threads run; the printer answers well infinitely often if  *)
(* it is asked infinitely often.  Nothing is assumed of the clients.       *)
Fairness ==
  /\ WF_vars(MainThread)
  /\ \A c \in Clients : WF_vars(ClientThread(c))
  /\ WF_vars(PrinterThread)
  /\ SF_vars(Connect) /\ SF_vars(Send) /\ SF_vars(Confirmed)

FairSpec == Spec /\ Fairness

(* Every job that a client was told the number of is printed.              *)
AckedJobsPrinted ==
  \A c \in Clients : (cl[c] = "acked") ~> Printed(c)

(* Every client thread ends, whatever its client does: no client keeps a   *)
(* connection for ever, because every read of it is timed.                 *)
ClientThreadsEnd ==
  \A c \in Clients : (wpc[c] = "header") ~> (wpc[c] = "done")
=============================================================================
