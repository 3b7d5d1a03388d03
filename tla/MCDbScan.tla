------------------------------ MODULE MCDbScan ------------------------------
(* p1 scans while p2 writes. *)
EXTENDS DbScan

CONSTANTS p1, p2, k1, k2, d1, e1

OneChain == [k \in Keys |-> 1]
SameLen  == [k \in Keys |-> 1]
Len2or3  == [d \in Data |-> IF d = e1 THEN 3 ELSE 2]

Scanner == [p \in Procs |->
   IF p = p1 THEN [f : {"nextrec", "rewind"}]
   ELSE [f : {"store"}, key : Keys, data : Data, flag : {"STORE"}]
          \cup [f : {"delete"}, key : Keys]]
=============================================================================
