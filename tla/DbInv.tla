-------------------------------- MODULE DbInv --------------------------------
(***************************************************************************)
(* Correctness of the database library: the well-formedness of its lists,  *)
(* the refinement of DbMap, and what a sequential scan may miss.           *)
(***************************************************************************)
EXTENDS Db

CONSTANT Pending

(* A result is told from NULL and from the result that is still to come.   *)
ASSUME NamesAssumption ==
  /\ None \notin Data \cup {Blank}
  /\ None \notin Keys \X (Data \cup {Blank})
  /\ Pending \notin Data \cup {Blank, None} /\ Pending \notin {-1, 0, 1}
  /\ Pending \notin (Keys \cup {Blank, None}) \X (Data \cup {Blank})

AllRecs == NHash + 1 .. NHash + Len(idx)

(* Between the rewriting of a deleted record and the unlinking of it, the  *)
(* chain continues at the pointer that _db_dodelete saved.                 *)
Deleting(p) == pc[p] \in {"del.sethead", "del.unlink"}
ChainNext(o) ==
  IF \E p \in Procs : Deleting(p) /\ db[p].idxoff = o
  THEN LET p == CHOOSE q \in Procs : Deleting(q) /\ db[q].idxoff = o
       IN db[p].saveptr
  ELSE ReadPtr(o)

(* The records that follow o, one by one, and 0 behind the last; more of   *)
(* them than there are records when the list does not end.                 *)
Walk(o, Succ(_)) ==
  LET w[n \in 0 .. Len(idx)] ==
        IF n = 0 THEN Succ(o)
        ELSE LET r == w[n - 1] IN IF r = 0 THEN 0 ELSE Succ(r)
  IN w
ChainList(c) == Walk(c, ChainNext)
FreeList     == Walk(FREE_OFF, ReadPtr)
Members(l)   == {l[n] : n \in DOMAIN l} \ {0}
Ends(l)      == l[Len(idx)] = 0

(* The data record of an index record. *)
Value(o) == dat[Rec(o).datoff]
Lookup(k) ==
  LET found == {o \in Members(ChainList(Hash[k])) : Rec(o).key = k} IN
  IF found = {} THEN None ELSE Value(CHOOSE o \in found : TRUE)

-----------------------------------------------------------------------------
(* The locking protocol: where a call stands, and the lock that protects it *)
(* there.                                                                   *)
OnChain  == {"find.head", "find.rec", "fetch.dat", "unlock", "del.lock",
             "ins.head", "ff.lock", "reuse.dat", "reuse.idx", "rep.dat",
             "app.reread", "app.datlock", "app.idxlock", "link"}
OnFree   == {"del.dat", "del.free", "del.idx", "del.sethead", "del.unlink",
             "del.unlock", "ff.head", "ff.rec", "ff.take", "ff.unlock"}
OnData   == {"app.dat", "app.datunlock"}
OnTail   == {"app.idx", "app.idxunlock"}
Scanning == {"scan.rec", "scan.dat", "scan.unlock"}
OfStore  == {"ins.head", "ff.lock", "ff.head", "ff.rec", "ff.take", "ff.unlock",
             "reuse.dat", "reuse.idx", "rep.dat", "app.reread", "app.datlock",
             "app.idxlock", "link"} \cup OnData \cup OnTail
OfDelete == {"del.lock", "del.dat", "del.free", "del.idx", "del.sethead",
             "del.unlink", "del.unlock"}
InChain(p) == pc[p] \in OnChain \cup OnFree \cup OnData \cup OnTail

(* The types of the files, the locks and every process's handle. *)
Handles == [chainoff : Nat, ptroff : Nat, idxoff : Nat, ptrval : Nat,
            datoff : Nat, datlen : Nat, idxbuf : Keys \cup {Blank, None},
            offset : Nat, saveptr : Nat]
IdxRecs == [key : Keys \cup {Blank}, klen : Nat, datoff : Nat \ {0},
            datlen : Nat, ptr : Nat]
TypeOK ==
  /\ head \in [0 .. NHash -> Nat]
  /\ idx \in Seq(IdxRecs)
  /\ dat \in Seq(Data \cup {Blank})
  /\ rd \in [Locks -> SUBSET Procs] /\ wr \in [Locks -> SUBSET Procs]
  /\ pc \in [Procs -> Labels]
  /\ call \in [Procs -> AllCalls \cup {None}]
  /\ db \in [Procs -> Handles]
  /\ pos \in [Procs -> Nat]
  /\ ncalls \in 0 .. MaxCalls

(* Where a process uses the record, the data or the pointer its handle     *)
(* names.                                                                  *)
UsesRecord(p) ==
  \/ pc[p] \in {"del.lock", "del.dat", "del.free", "del.idx", "del.sethead",
               "ff.take", "reuse.dat", "reuse.idx", "app.idxunlock", "link"}
  \/ pc[p] = "ff.unlock" /\ db[p].offset # 0
UsesData(p) ==
  \/ pc[p] \in {"fetch.dat", "del.lock", "del.dat", "del.free", "del.idx",
               "ff.take", "reuse.dat", "reuse.idx", "rep.dat", "app.datunlock",
               "app.idxlock", "app.idx", "scan.dat"}
  \/ pc[p] = "ff.unlock" /\ db[p].offset # 0

(* Every pointer in the index file, and every offset a process has read    *)
(* from it and is about to use, lies inside the file it points into: no    *)
(* list leads past the end of the file, and no read returns end of file.   *)
Ptrs == {0} \cup AllRecs
PointersValid ==
  /\ \A o \in 0 .. NHash : head[o] \in Ptrs
  /\ \A n \in 1 .. Len(idx) : /\ idx[n].ptr \in Ptrs
                              /\ idx[n].datoff \in 1 .. Len(dat)
  /\ \A p \in Procs :
       /\ db[p].ptroff \in 0 .. NHash + Len(idx)
       /\ db[p].idxoff \in Ptrs /\ db[p].ptrval \in Ptrs
       /\ db[p].offset \in Ptrs /\ db[p].saveptr \in Ptrs
       /\ db[p].datoff \in 0 .. Len(dat)
       /\ pos[p] \in {0} \cup (FIRST_REC .. Eof)
       /\ pc[p] \in {"find.rec", "ff.rec"} => db[p].offset # 0
       /\ UsesRecord(p) => db[p].idxoff # 0
       /\ UsesData(p) => db[p].datoff # 0

(* Every record the process has been handed but has not put back on a list: *)
(* being deleted it still hangs on its chain; taken from the free list, or  *)
(* just appended, it is on none.                                            *)
InTransit ==
  {db[p].idxoff : p \in {q \in Procs :
       \/ pc[q] \in {"app.idxunlock", "link", "reuse.dat", "reuse.idx"}
       \/ pc[q] = "ff.unlock" /\ db[q].offset # 0}}

(* Whatever the interleaving, every hash chain is a finite list of live    *)
(* records that hash to it, no key twice.  Without this _db_find_and_lock  *)
(* would loop, or miss a key that was stored.                              *)
ChainsWellFormed ==
  \A c \in Chains :
    LET l == ChainList(c)
        live == {o \in Members(l) : \A p \in Procs : ~(Deleting(p) /\ db[p].idxoff = o)}
    IN /\ Ends(l)
       /\ \A o \in live : Rec(o).key \in Keys /\ Hash[Rec(o).key] = c
       /\ \A o1, o2 \in live : Rec(o1).key = Rec(o2).key => o1 = o2

(* The free list is a finite list of erased records whose data records are *)
(* erased too: _db_dodelete writes both before it publishes the record.    *)
FreeListErased ==
  /\ Ends(FreeList)
  /\ \A o \in Members(FreeList) : Rec(o).key = Blank /\ Value(o) = Blank

(* A record is on one list at most, and no two records share a data        *)
(* record: a slot that _db_findfree handed out is never handed out again   *)
(* while it is in use.  A record under deletion is on both lists between   *)
(* the two pointer writes.                                                 *)
ListsDisjoint ==
  LET chain == [c \in Chains |-> Members(ChainList(c))]
      free  == Members(FreeList)
  IN /\ \A c \in Chains : \A o \in chain[c] \cap free :
          \E p \in Procs : pc[p] = "del.unlink" /\ db[p].idxoff = o
     /\ \A c1, c2 \in Chains : c1 # c2 => chain[c1] \cap chain[c2] = {}
     /\ \A o1, o2 \in AllRecs : Rec(o1).datoff = Rec(o2).datoff => o1 = o2
     /\ InTransit \cap (free \cup UNION {chain[c] : c \in Chains}) = {}

(* Whatever the interleaving, and whoever is killed, the index file stays a *)
(* hash table of disjoint finite lists.                                    *)
IndexWellFormed == ChainsWellFormed /\ FreeListErased /\ ListsDisjoint

(* No record is lost: each is on a chain, on the free list, or in the      *)
(* hands of one process, so space that was freed stays reusable.           *)
NoRecordLost ==
  AllRecs = Members(FreeList) \cup InTransit
              \cup UNION {Members(ChainList(c)) : c \in Chains}

(* A process that walks a chain, with a read or a write lock on it, never  *)
(* stands on a record that another process has erased or moved elsewhere:  *)
(* the pointer it read one step earlier is still good.                     *)
WalkersOnLiveRecords ==
  \A p \in Procs : pc[p] = "find.rec" =>
    Rec(db[p].offset).key \in {k \in Keys : Hash[k] = db[p].chainoff}

(* The size of a record and the place of its data never change once it is  *)
(* in the file, though it is erased and reused.  The header of a record    *)
(* that db_nextrec reads in one system call therefore still fits the body  *)
(* it reads in the next.                                                   *)
SlotsKeepTheirSize ==
  [][\A n \in DOMAIN idx :
       /\ n \in DOMAIN idx'
       /\ idx'[n].klen = idx[n].klen
       /\ idx'[n].datoff = idx[n].datoff /\ idx'[n].datlen = idx[n].datlen
       /\ idx'[n].key \in Keys => KeyLen[idx'[n].key] = idx[n].klen]_idx

(* What is stored under a key changes only by a store or a delete of that  *)
(* key.  This holds although a process may be killed between any two       *)
(* system calls, or quit because a pointer does not fit its field, except  *)
(* in the two windows of _db_dodelete in which the chain runs into the     *)
(* free list ("del.sethead" and "del.unlink").                             *)
KeysSurvive ==
  [][\A k \in Keys : Lookup(k)' # Lookup(k) =>
       \E p \in Procs :
         /\ pc[p] # pc'[p]
         /\ call[p] # None /\ call[p].f \in {"store", "delete"}
         /\ call[p].key = k]_vars

(* While a store or delete works on a chain nobody else walks that chain;  *)
(* while a process changes or searches the free list, or erases a record,  *)
(* no other does, and no db_nextrec is between reading an index record and *)
(* reading its data; one process at a time appends to each file.           *)
Exclusion ==
  \A p, q \in Procs : p # q =>
    /\ InChain(p) /\ InChain(q) /\ db[p].chainoff = db[q].chainoff
         => call[p].f = "fetch" /\ call[q].f = "fetch"
    /\ pc[p] \in OnFree => pc[q] \notin OnFree \cup Scanning
    /\ pc[p] \in OnData => pc[q] \notin OnData
    /\ pc[p] \in OnTail => pc[q] \notin OnTail

-----------------------------------------------------------------------------
(* Refinement.  A store of a new key takes effect when its index record is *)
(* written, a replacement with a value of the same length when the data is *)
(* written, a deletion (and a replacement with another length) when the    *)
(* old data is erased; the other calls when they have read what they need. *)

Erased == {"del.free", "del.idx", "del.sethead", "del.unlink", "del.unlock"}
Effective(p) ==
  \/ pc[p] \in {"unlock", "scan.unlock", "app.idxunlock", "link", "app.reread"} \cup Erased
  \/ pc[p] \in {"app.datlock", "app.dat", "app.datunlock", "app.idxlock", "app.idx"}
     /\ db[p].offset # 0

Writing(p, k) ==
  /\ call[p] # None /\ call[p].f \in {"store", "delete"} /\ call[p].key = k
  /\ Effective(p) /\ pc[p] # "unlock"

AbsMap ==
  [k \in Keys |->
     IF \E p \in Procs : Writing(p, k)
     THEN LET p == CHOOSE q \in Procs : Writing(q, k)
          IN IF call[p].f = "store" THEN call[p].data ELSE None
     ELSE Lookup(k)]
AbsOut ==
  [p \in Procs |-> IF call[p] = None THEN None
                   ELSE IF Effective(p) THEN res[p] ELSE Pending]

Map == INSTANCE DbMap WITH map <- AbsMap, op <- call, out <- AbsOut

(* Every call of the library is atomic, as if the lock of its chain were   *)
(* a lock on the whole database: what fetch, store, delete and nextrec     *)
(* return is what a sequential map would have returned.                    *)
ImplementsMap == Map!Spec

(* Every call returns, or its process has died: the locks are always taken *)
(* in the order chain, free list or tail, so nobody waits in a circle, the *)
(* dead leave no lock behind, and no list is endless.                      *)
CallsReturn == \A p \in Procs : (call[p] # None) ~> (call[p] = None)
=============================================================================
