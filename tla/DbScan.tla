------------------------------- MODULE DbScan -------------------------------
(***************************************************************************)
(* What a sequential scan (db_rewind, then db_nextrec until it returns     *)
(* NULL) promises while other processes write.  History variables record   *)
(* what the scan of each process has returned and which keys it owes.      *)
(***************************************************************************)
EXTENDS DbInv

VARIABLES
  stable,  \* process -> keys that were in the database when it rewound and
           \*            whose record nobody has deleted since
  seen     \* process -> key -> number of times its scan has returned it

hvars == <<vars, stable, seen>>

(* The keys whose record is in the index file now. *)
InFile == {k \in Keys : \E o \in AllRecs : Rec(o).key = k /\ Value(o) \in Data}

Rewound(p) ==
  /\ DbRewind(p)
  /\ stable' = [stable EXCEPT ![p] = InFile]
  /\ seen' = [seen EXCEPT ![p] = [k \in Keys |-> 0]]

Erase(p) ==
  /\ DelDat(p)
  /\ stable' = [q \in Procs |-> stable[q] \ {call[p].key}]
  /\ UNCHANGED seen

Deliver(p) ==
  /\ ScanDat(p)
  /\ seen' = [seen EXCEPT ![p][db[p].idxbuf] = @ + 1]
  /\ UNCHANGED stable

ScanInit ==
  /\ Init
  /\ stable = [p \in Procs |-> {}]
  /\ seen = [p \in Procs |-> [k \in Keys |-> 0]]

Other(p) ==
  /\ Begin(p) \/ Run(p)
  /\ pc[p] \notin {"del.dat", "scan.dat"}
  /\ UNCHANGED <<stable, seen>>

ScanNext ==
  \E p \in Procs : Rewound(p) \/ Erase(p) \/ Deliver(p) \/ Other(p)

ScanSpec == ScanInit /\ [][ScanNext]_hvars

(* A scan that reaches the end of the file has returned every key whose    *)
(* record was there when it started and stayed there, and it never returns *)
(* such a key twice, although it locks the free list only record by record *)
(* and writers append, erase and reuse records around it.  (A key replaced *)
(* by a value of another length moves, and may be returned twice or not at *)
(* all.)  db_nextrec's comment: it skips deleted records only.             *)
ScanComplete ==
  \A p \in Procs : \A k \in stable[p] :
    /\ seen[p][k] <= 1
    /\ pc[p] = "scan.unlock" /\ res[p] = None => seen[p][k] = 1
=============================================================================
