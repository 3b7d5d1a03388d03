-------------------------------- MODULE MCDb --------------------------------
(* Small databases for TLC: keys on one chain or two, values of two         *)
(* lengths, and the calls each process is allowed to make.                  *)
EXTENDS DbInv, TLC

CONSTANTS p1, p2, k1, k2, k3, d1, d2, e1

Procs2 == {p1, p2}
Sym    == Permutations(Procs2)

OneChain  == [k \in Keys |-> 1]
TwoChains == [k \in Keys |-> IF k = k2 THEN 2 ELSE 1]
SameLen   == [k \in Keys |-> 1]
Len2or3   == [d \in Data |-> IF d = e1 THEN 3 ELSE 2]

CallFetch(K)       == [f : {"fetch"}, key : K]
CallDelete(K)      == [f : {"delete"}, key : K]
CallStore(K, D, G) == [f : {"store"}, key : K, data : D, flag : G]
CallScan           == [f : {"nextrec", "rewind"}]

(* Every process stores, replaces and deletes; the value of k3, which       *)
(* shares its chain with k1, keeps its length.                              *)
Writers == [p \in Procs |-> CallStore({k1, k2}, Data, {"STORE"})
                              \cup CallStore({k3}, {d1}, {"STORE"}) \cup CallDelete(Keys)]
(* The same with fewer choices: only k1 changes its length, k2 stays.  p1   *)
(* also scans, on the same handle.                                          *)
FewWriters == [p \in Procs |-> CallStore({k1}, Data, {"STORE"}) \cup CallDelete({k1, k3})
                                 \cup CallStore({k2, k3}, {d1}, {"STORE"})
                                 \cup (IF p = p1 THEN CallScan ELSE {})]
(* All that Writers do, with the other flags and fetch on one key. *)
Everyone == [p \in Procs |-> Writers[p] \cup CallFetch({k1})
                               \cup CallStore({k1}, {d1}, {"INSERT", "REPLACE"})]
(* p1 scans while p2 writes. *)
Scanner == [p \in Procs |->
   IF p = p1 THEN CallScan
   ELSE CallStore(Keys, Data, {"STORE"}) \cup CallDelete(Keys)]
(* A process may be killed before any system call, but for the two pointer  *)
(* writes of _db_dodelete.                                                  *)
Killable == Labels \ {"idle", "dead", "del.sethead", "del.unlink"}
=============================================================================
