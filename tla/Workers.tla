------------------------------ MODULE Workers ------------------------------
(* The list of client threads of ipp/printd.c (add_worker, kill_workers,        *)
(* client_cleanup), pointer by pointer, as memory that malloc hands out and free     *)
(* takes back.  The threads are those of the module Printd, of which only the          *)
(* SIGTERM that ends the daemon needs the list.                                            *)
EXTENDS Naturals, FiniteSets

CONSTANTS
    Threads,    \* client threads
    Cells,      \* addresses of struct worker_thread
    NIL

VARIABLES
    workers,    \* the head of the list
    cell,       \* address -> the structure there; free leaves what was in it
    wthread,    \* thread -> "new", "works", "cancelled" or "ended"
    wsocks,     \* threads whose socket is open
    killed      \* kill_workers has run

wvars == <<workers, cell, wthread, wsocks, killed>>

WInit ==
    /\ workers = NIL
    /\ cell = [a \in Cells |-> [live |-> FALSE, tid |-> NIL, next |-> NIL, prev |-> NIL]]
    /\ wthread = [t \in Threads |-> "new"] /\ wsocks = {} /\ killed = FALSE

(* The cells on the way from the head, the k-th of them, and those that a search  *)
(* for t comes to before it ends.                                                       *)
Nth[k \in 0 .. Cardinality(Cells)] ==
    IF k = 0 THEN workers ELSE IF Nth[k - 1] = NIL THEN NIL ELSE cell[Nth[k - 1]].next

Walked   == {Nth[k] : k \in 0 .. Cardinality(Cells)} \ {NIL}
Found(t) == {k \in 0 .. Cardinality(Cells) : Nth[k] # NIL /\ cell[Nth[k]].tid = t}
First(t) == Nth[CHOOSE k \in Found(t) : \A i \in Found(t) : k <= i]

(* The first thing a client thread does; under workerlock.  A client that comes     *)
(* between kill_workers and exit is left out.                                           *)
AddWorker(t) ==
    /\ wthread[t] = "new" /\ ~killed
    /\ \E a \in Cells :
         /\ ~cell[a].live
         /\ LET new == [cell EXCEPT ![a] = [live |-> TRUE, tid |-> t, next |-> workers, prev |-> NIL]]
            IN  IF workers = NIL THEN workers' = a /\ cell' = new
                ELSE cell' = [new EXCEPT ![workers].prev = a] /\ UNCHANGED workers
    /\ wthread' = [wthread EXCEPT ![t] = "works"] /\ wsocks' = wsocks \cup {t}
    /\ UNCHANGED killed

(* The thread ends, by itself or because it was cancelled; under workerlock. *)
ClientCleanup(t) ==
    /\ wthread[t] \in {"works", "cancelled"}
    /\ IF Found(t) = {} THEN UNCHANGED <<workers, cell, wsocks>>
       ELSE LET a == First(t)
                w == cell[a]
                c1 == IF w.next = NIL THEN cell ELSE [cell EXCEPT ![w.next].prev = w.prev]
                c2 == IF w.prev = NIL THEN c1 ELSE [c1 EXCEPT ![w.prev].next = w.next]
            IN  /\ workers' = IF w.prev = NIL THEN w.next ELSE workers
                /\ cell' = [c2 EXCEPT ![a].live = FALSE]
                /\ wsocks' = wsocks \ {t}
    /\ wthread' = [wthread EXCEPT ![t] = "ended"]
    /\ UNCHANGED killed

(* SIGTERM: signal_thread, before it exits. *)
KillWorkers ==
    /\ ~killed /\ killed' = TRUE
    /\ wthread' = [t \in Threads |-> IF \E a \in Walked : cell[a].tid = t /\ wthread[t] = "works"
                                     THEN "cancelled" ELSE wthread[t]]
    /\ UNCHANGED <<workers, cell, wsocks>>

WNext == KillWorkers \/ \E t \in Threads : AddWorker(t) \/ ClientCleanup(t)

WSpec == WInit /\ [][WNext]_wvars

---------------------------------------------------------------------------

(* kill_workers reaches every client thread ("Cancel (kill) all outstanding         *)
(* workers", printd.c:735): add_worker has put each on the list ("Add a worker to      *)
(* the list of worker threads", printd.c:702).                                            *)
AllCancelled == killed => \A t \in Threads : wthread[t] # "works"
=============================================================================
