--------------------------------- MODULE Db ---------------------------------
(***************************************************************************)
(* The database library of db/db.c: an index file of hash chains and a     *)
(* free list, a data file, and processes that call db_fetch, db_store,     *)
(* db_delete, db_rewind and db_nextrec concurrently, each through its own  *)
(* handle, synchronised only by advisory record locks.                     *)
(*                                                                         *)
(* One action is one system call, or one lock request, of the library.  A  *)
(* descriptor belongs to one process, so an lseek and the read or write    *)
(* that follows it are one step.                                           *)
(*                                                                         *)
(* Offsets in the index file are abstracted to an order-preserving         *)
(* numbering: 0 is the free list pointer (FREE_OFF), 1..NHash are the hash *)
(* table pointers, and the records follow from NHash + 1 on.  As in the    *)
(* code, a pointer value of 0 ends a chain.                                *)
(***************************************************************************)
EXTENDS Integers, Sequences, FiniteSets

CONSTANTS
  Procs,        \* processes, each with one open handle
  Keys, Data,   \* keys and values clients use
  BlankKeys,    \* the keys that consist of spaces only
  NHash,        \* size of the hash table
  Hash,         \* Keys -> 1..NHash, what _db_hash selects
  KeyLen,       \* Keys -> Nat, strlen of a key
  DatLen,       \* Data -> Nat, strlen of a value + 1
  PtrMax,       \* the largest offset a chain pointer can hold
  Calls,        \* process -> the calls it may make
  MaxCalls,     \* bound on the number of calls in a behaviour
  Mortal,       \* labels of pc at which a process may be killed
  Blank,        \* an erased key or value (all spaces)
  None          \* NULL, and "no call"

Chains    == 1 .. NHash
FREE_OFF  == 0
FIRST_REC == NHash + 1
TailLock  == NHash + 1      \* the record area of the index file
DatLock   == NHash + 2      \* the whole data file
Locks     == 0 .. NHash + 2

Flags     == {"INSERT", "REPLACE", "STORE"}
AllCalls  ==
       [f : {"fetch", "delete"}, key : Keys]
  \cup [f : {"store"}, key : Keys, data : Data, flag : Flags]
  \cup [f : {"nextrec", "rewind"}]

Labels ==
  {"idle", "dead", "find.lock", "find.head", "find.rec", "fetch.dat", "unlock",
   "del.lock", "del.dat", "del.free", "del.idx", "del.sethead", "del.unlink",
   "del.unlock", "ins.head", "ff.lock", "ff.head", "ff.rec", "ff.take",
   "ff.unlock", "reuse.dat", "reuse.idx", "rep.dat", "app.reread",
   "app.datlock", "app.dat", "app.datunlock", "app.idxlock", "app.idx",
   "app.idxunlock", "link", "scan.lock", "scan.rec", "scan.dat", "scan.unlock"}

ASSUME DbAssumption ==
  /\ NHash \in Nat \ {0} /\ PtrMax \in Nat /\ MaxCalls \in Nat
  /\ Hash \in [Keys -> Chains]
  /\ KeyLen \in [Keys -> Nat] /\ DatLen \in [Data -> Nat]
  /\ BlankKeys \subseteq Keys
  /\ Calls \in [Procs -> SUBSET AllCalls]
  /\ Mortal \subseteq Labels
  /\ Blank \notin Keys \cup Data
  /\ None \notin AllCalls

VARIABLES
  head,    \* pointers 0..NHash at the start of the index file
  idx,     \* the index records, in file order
  dat,     \* the data records, in file order
  rd, wr,  \* lock -> processes that hold it for reading, for writing
  pc,      \* process -> the step it takes next
  call,    \* process -> the call it is executing
  db,      \* process -> the fields of its DB structure and the locals in use
  pos,     \* process -> current offset of idxfd; 0 when not at a record
  res,     \* process -> value its call returns
  ncalls   \* number of calls made (bounded by MaxCalls)

files == <<head, idx, dat>>
locks == <<rd, wr>>
vars  == <<head, idx, dat, rd, wr, pc, call, db, pos, res, ncalls>>

(* The fields of the handle are written before they are read in every call, *)
(* so a returning call clears them.                                         *)
Clear == [chainoff |-> 0, ptroff |-> 0, idxoff |-> 0, ptrval |-> 0,
          datoff |-> 0, datlen |-> 0, idxbuf |-> None, offset |-> 0,
          saveptr |-> 0]

-----------------------------------------------------------------------------
(* Files. *)

Rec(o)     == idx[o - NHash]
Eof        == FIRST_REC + Len(idx)
ReadPtr(o) == IF o <= NHash THEN head[o] ELSE Rec(o).ptr

SetPtr(o, v) ==
  \/ /\ o <= NHash
     /\ head' = [head EXCEPT ![o] = v]
     /\ UNCHANGED idx
  \/ /\ o > NHash
     /\ idx' = [idx EXCEPT ![o - NHash].ptr = v]
     /\ UNCHANGED head

IdxRec(k, klen, off, len, ptr) ==
  [key |-> k, klen |-> klen, datoff |-> off, datlen |-> len, ptr |-> ptr]

(* _db_readidx: what reading the record at o leaves in the handle. *)
ReadIdx(p, o) ==
  [db[p] EXCEPT !.idxoff = o, !.ptrval = Rec(o).ptr, !.idxbuf = Rec(o).key,
                !.datoff = Rec(o).datoff, !.datlen = Rec(o).datlen]

(* Record locks: a process never conflicts with itself, and a request of   *)
(* its own replaces what it held.  writew_lock and readw_lock wait.        *)
CanWrite(p, l) == rd[l] \cup wr[l] \subseteq {p}
CanRead(p, l)  == wr[l] \subseteq {p}

WriteLock(p, l) ==
  /\ CanWrite(p, l)
  /\ wr' = [wr EXCEPT ![l] = {p}]
  /\ rd' = [rd EXCEPT ![l] = @ \ {p}]
ReadLock(p, l) ==
  /\ CanRead(p, l)
  /\ rd' = [rd EXCEPT ![l] = @ \cup {p}]
  /\ wr' = [wr EXCEPT ![l] = @ \ {p}]
Unlock(p, l) ==
  /\ wr' = [wr EXCEPT ![l] = @ \ {p}]
  /\ rd' = [rd EXCEPT ![l] = @ \ {p}]

Goto(p, l)   == pc' = [pc EXCEPT ![p] = l]
Step(p, a, b) == pc[p] = a /\ Goto(p, b)
Handle(p, h) == db' = [db EXCEPT ![p] = h]
Seek(p, o)   == pos' = [pos EXCEPT ![p] = o]
Result(p, r) == res' = [res EXCEPT ![p] = r]

(* The process terminates: its descriptors close, so its locks are dropped. *)
Exit(p) ==
  /\ Goto(p, "dead")
  /\ rd' = [l \in Locks |-> rd[l] \ {p}]
  /\ wr' = [l \in Locks |-> wr[l] \ {p}]
  /\ call' = [call EXCEPT ![p] = None]
  /\ Handle(p, Clear)
  /\ Result(p, None)
  /\ Seek(p, 0)

(* _db_writeptr: err_quit when the value does not fit the pointer field. *)
WritePtr(p, o, v, next) ==
  \/ /\ v <= PtrMax
     /\ SetPtr(o, v)
     /\ Goto(p, next)
     /\ Seek(p, 0)
     /\ UNCHANGED <<dat, rd, wr, call, db, res, ncalls>>
  \/ /\ v > PtrMax
     /\ Exit(p)
     /\ UNCHANGED <<head, idx, dat, ncalls>>

-----------------------------------------------------------------------------
(* Calls. *)

Begin(p) ==
  /\ pc[p] = "idle" /\ ncalls < MaxCalls
  /\ \E c \in Calls[p] :
       /\ c.f # "rewind"
       /\ call' = [call EXCEPT ![p] = c]
       /\ Goto(p, IF c.f = "nextrec" THEN "scan.lock" ELSE "find.lock")
       /\ Result(p, IF c.f \in {"store", "delete"} THEN 0 ELSE None)
  /\ ncalls' = ncalls + 1
  /\ UNCHANGED <<head, idx, dat, rd, wr, db, pos>>

DbRewind(p) ==
  /\ pc[p] = "idle" /\ ncalls < MaxCalls
  /\ [f |-> "rewind"] \in Calls[p]
  /\ Seek(p, FIRST_REC)
  /\ ncalls' = ncalls + 1
  /\ UNCHANGED <<head, idx, dat, rd, wr, pc, call, db, res>>

(* Mutant: every call locks its chain for reading. *)
FindLockShared(p) ==
  LET c == Hash[call[p].key] IN
  /\ Step(p, "find.lock", "find.head")
  /\ ReadLock(p, c)
  /\ Handle(p, [db[p] EXCEPT !.chainoff = c, !.ptroff = c])
  /\ UNCHANGED <<head, idx, dat, call, pos, res, ncalls>>

(* _db_find_and_lock *)
FindLock(p) ==
  LET c == Hash[call[p].key] IN
  /\ Step(p, "find.lock", "find.head")
  /\ \/ call[p].f = "fetch" /\ ReadLock(p, c)
     \/ call[p].f # "fetch" /\ WriteLock(p, c)
  /\ Handle(p, [db[p] EXCEPT !.chainoff = c, !.ptroff = c])
  /\ UNCHANGED <<head, idx, dat, call, pos, res, ncalls>>

(* What each caller does when the key is not on its chain... *)
AfterMiss(p) ==
  \/ /\ call[p].f = "fetch"
     /\ Goto(p, "unlock") /\ UNCHANGED res
  \/ /\ \/ call[p].f = "delete"
        \/ call[p].f = "store" /\ call[p].flag = "REPLACE"
     /\ Result(p, -1) /\ Goto(p, "unlock")
  \/ /\ call[p].f = "store" /\ call[p].flag # "REPLACE"
     /\ Goto(p, "ins.head") /\ UNCHANGED res

(* ... and when the record at o holds it. *)
AfterHit(p, o) ==
  \/ /\ call[p].f = "fetch"
     /\ Goto(p, "fetch.dat") /\ UNCHANGED res
  \/ /\ call[p].f = "delete"
     /\ Goto(p, "del.lock") /\ UNCHANGED res
  \/ /\ call[p].f = "store" /\ call[p].flag = "INSERT"
     /\ Result(p, 1) /\ Goto(p, "unlock")
  \/ /\ call[p].f = "store" /\ call[p].flag # "INSERT"
     /\ Goto(p, IF DatLen[call[p].data] # Rec(o).datlen
                THEN "del.lock" ELSE "rep.dat")
     /\ UNCHANGED res

FindHead(p) ==
  LET o == ReadPtr(db[p].ptroff) IN
  /\ pc[p] = "find.head"
  /\ Handle(p, [db[p] EXCEPT !.offset = o])
  /\ Seek(p, 0)
  /\ \/ o = 0 /\ AfterMiss(p)
     \/ o # 0 /\ Goto(p, "find.rec") /\ UNCHANGED res
  /\ UNCHANGED <<head, idx, dat, rd, wr, call, ncalls>>

FindRec(p) ==
  LET o == db[p].offset
      h == ReadIdx(p, o) IN
  /\ pc[p] = "find.rec"
  /\ Seek(p, o + 1)
  /\ \/ /\ Rec(o).key = call[p].key
        /\ Handle(p, h) /\ AfterHit(p, o)
     \/ /\ Rec(o).key # call[p].key
        /\ Handle(p, [h EXCEPT !.ptroff = o, !.offset = h.ptrval])
        /\ \/ h.ptrval = 0 /\ AfterMiss(p)
           \/ h.ptrval # 0 /\ UNCHANGED <<pc, res>>
  /\ UNCHANGED <<head, idx, dat, rd, wr, call, ncalls>>

(* _db_readdat, for db_fetch *)
FetchDat(p) ==
  /\ Step(p, "fetch.dat", "unlock")
  /\ Result(p, dat[db[p].datoff])
  /\ UNCHANGED <<head, idx, dat, rd, wr, call, db, pos, ncalls>>

(* The un_lock of the hash chain that ends fetch, store and delete. *)
Return(p) ==
  /\ Step(p, "unlock", "idle")
  /\ Unlock(p, db[p].chainoff)
  /\ call' = [call EXCEPT ![p] = None]
  /\ Result(p, None)
  /\ Handle(p, Clear)
  /\ UNCHANGED <<head, idx, dat, pos, ncalls>>

-----------------------------------------------------------------------------
(* _db_dodelete *)

(* Mutant: the free list is not locked. *)
DelLockNone(p) ==
  /\ Step(p, "del.lock", "del.dat")
  /\ UNCHANGED <<head, idx, dat, rd, wr, call, db, pos, res, ncalls>>

DelLock(p) ==
  /\ Step(p, "del.lock", "del.dat")
  /\ WriteLock(p, FREE_OFF)
  /\ UNCHANGED <<head, idx, dat, call, db, pos, res, ncalls>>

DelDat(p) ==
  /\ Step(p, "del.dat", "del.free")
  /\ dat' = [dat EXCEPT ![db[p].datoff] = Blank]
  /\ UNCHANGED <<head, idx, rd, wr, call, db, pos, res, ncalls>>

(* db->ptrval is overwritten with the free list pointer when the index     *)
(* record is written, hence saveptr.                                       *)
DelFree(p) ==
  /\ Step(p, "del.free", "del.idx")
  /\ Handle(p, [db[p] EXCEPT !.saveptr = db[p].ptrval, !.ptrval = ReadPtr(FREE_OFF)])
  /\ Seek(p, 0)
  /\ UNCHANGED <<head, idx, dat, rd, wr, call, res, ncalls>>

DelIdx(p) ==
  LET o == db[p].idxoff IN
  /\ Step(p, "del.idx", "del.sethead")
  /\ idx' = [idx EXCEPT ![o - NHash] =
               IdxRec(Blank, @.klen, db[p].datoff, db[p].datlen, db[p].ptrval)]
  /\ Seek(p, o + 1)
  /\ UNCHANGED <<head, dat, rd, wr, call, db, res, ncalls>>

DelSetHead(p) ==
  /\ pc[p] = "del.sethead"
  /\ WritePtr(p, FREE_OFF, db[p].idxoff, "del.unlink")

(* Mutant: the record is never taken off its chain. *)
DelUnlinkSkipped(p) ==
  /\ Step(p, "del.unlink", "del.unlock")
  /\ UNCHANGED <<head, idx, dat, rd, wr, call, db, pos, res, ncalls>>

DelUnlink(p) ==
  /\ pc[p] = "del.unlink"
  /\ WritePtr(p, db[p].ptroff, db[p].saveptr, "del.unlock")

DelUnlock(p) ==
  /\ Step(p, "del.unlock", IF call[p].f = "store" THEN "app.reread" ELSE "unlock")
  /\ Unlock(p, FREE_OFF)
  /\ UNCHANGED <<head, idx, dat, call, db, pos, res, ncalls>>

-----------------------------------------------------------------------------
(* db_store, key not found: the chain's first pointer, then _db_findfree. *)

InsHead(p) ==
  /\ Step(p, "ins.head", "ff.lock")
  /\ Handle(p, [db[p] EXCEPT !.saveptr = ReadPtr(db[p].chainoff)])
  /\ Seek(p, 0)
  /\ UNCHANGED <<head, idx, dat, rd, wr, call, res, ncalls>>

(* Mutant: the free list is locked for reading. *)
FindFreeLockShared(p) ==
  /\ Step(p, "ff.lock", "ff.head")
  /\ ReadLock(p, FREE_OFF)
  /\ UNCHANGED <<head, idx, dat, call, db, pos, res, ncalls>>

FindFreeLock(p) ==
  /\ Step(p, "ff.lock", "ff.head")
  /\ WriteLock(p, FREE_OFF)
  /\ UNCHANGED <<head, idx, dat, call, db, pos, res, ncalls>>

(* ptroff plays saveoffset here; offset = 0 says that nothing fits. *)
FindFreeHead(p) ==
  LET o == ReadPtr(FREE_OFF) IN
  /\ pc[p] = "ff.head"
  /\ Handle(p, [db[p] EXCEPT !.ptroff = FREE_OFF, !.offset = o])
  /\ Seek(p, 0)
  /\ Goto(p, IF o = 0 THEN "ff.unlock" ELSE "ff.rec")
  /\ UNCHANGED <<head, idx, dat, rd, wr, call, res, ncalls>>

(* Mutant: a record that is too large is good enough. *)
FitsLarger(p, r) ==
  r.klen >= KeyLen[call[p].key] /\ r.datlen >= DatLen[call[p].data]

Fits(p, r) ==
  r.klen = KeyLen[call[p].key] /\ r.datlen = DatLen[call[p].data]

FindFreeRec(p) ==
  LET o == db[p].offset
      h == ReadIdx(p, o) IN
  /\ pc[p] = "ff.rec"
  /\ Seek(p, o + 1)
  /\ \/ Fits(p, Rec(o)) /\ Handle(p, h) /\ Goto(p, "ff.take")
     \/ /\ ~Fits(p, Rec(o))
        /\ Handle(p, [h EXCEPT !.ptroff = o, !.offset = h.ptrval])
        /\ \/ h.ptrval = 0 /\ Goto(p, "ff.unlock")
           \/ h.ptrval # 0 /\ UNCHANGED pc
  /\ UNCHANGED <<head, idx, dat, rd, wr, call, res, ncalls>>

(* Mutant: the free list's head is set, whatever came before the record. *)
FindFreeTakeHead(p) ==
  /\ pc[p] = "ff.take"
  /\ WritePtr(p, FREE_OFF, db[p].ptrval, "ff.unlock")

(* Mutant: the record stays on the free list. *)
FindFreeTakeNone(p) ==
  /\ Step(p, "ff.take", "ff.unlock")
  /\ UNCHANGED <<head, idx, dat, rd, wr, call, db, pos, res, ncalls>>

FindFreeTake(p) ==
  /\ pc[p] = "ff.take"
  /\ WritePtr(p, db[p].ptroff, db[p].ptrval, "ff.unlock")

(* Mutant: the lock is kept when nothing fits. *)
FindFreeUnlockFound(p) ==
  /\ Step(p, "ff.unlock", IF db[p].offset = 0 THEN "app.datlock" ELSE "reuse.dat")
  /\ \/ db[p].offset = 0 /\ UNCHANGED <<rd, wr>>
     \/ db[p].offset # 0 /\ Unlock(p, FREE_OFF)
  /\ UNCHANGED <<head, idx, dat, call, db, pos, res, ncalls>>

FindFreeUnlock(p) ==
  /\ Step(p, "ff.unlock", IF db[p].offset = 0 THEN "app.datlock" ELSE "reuse.dat")
  /\ Unlock(p, FREE_OFF)
  /\ UNCHANGED <<head, idx, dat, call, db, pos, res, ncalls>>

(* A free record was found: overwrite its data record, then its key. *)
ReuseDat(p) ==
  /\ Step(p, "reuse.dat", "reuse.idx")
  /\ dat' = [dat EXCEPT ![db[p].datoff] = call[p].data]
  /\ Handle(p, [db[p] EXCEPT !.datlen = DatLen[call[p].data]])
  /\ UNCHANGED <<head, idx, rd, wr, call, pos, res, ncalls>>

ReuseIdx(p) ==
  LET o == db[p].idxoff
      k == call[p].key IN
  /\ Step(p, "reuse.idx", "link")
  /\ idx' = [idx EXCEPT ![o - NHash] =
               IdxRec(k, KeyLen[k], db[p].datoff, db[p].datlen, db[p].saveptr)]
  /\ Seek(p, o + 1)
  /\ UNCHANGED <<head, dat, rd, wr, call, db, res, ncalls>>

(* The key exists with a value of the same length. *)
ReplaceDat(p) ==
  /\ Step(p, "rep.dat", "unlock")
  /\ dat' = [dat EXCEPT ![db[p].datoff] = call[p].data]
  /\ UNCHANGED <<head, idx, rd, wr, call, db, pos, res, ncalls>>

(* The key existed with a value of another length and has been deleted:    *)
(* reread the chain's first pointer, then append.                          *)
(* Mutant: saveptr is still what _db_dodelete left there. *)
AppRereadSkipped(p) ==
  /\ Step(p, "app.reread", "app.datlock")
  /\ UNCHANGED <<head, idx, dat, rd, wr, call, db, pos, res, ncalls>>

AppReread(p) ==
  /\ Step(p, "app.reread", "app.datlock")
  /\ Handle(p, [db[p] EXCEPT !.saveptr = ReadPtr(db[p].chainoff)])
  /\ Seek(p, 0)
  /\ UNCHANGED <<head, idx, dat, rd, wr, call, res, ncalls>>

(* _db_writedat and _db_writeidx with SEEK_END *)
AppDatLock(p) ==
  /\ Step(p, "app.datlock", "app.dat")
  /\ WriteLock(p, DatLock)
  /\ UNCHANGED <<head, idx, dat, call, db, pos, res, ncalls>>

(* Mutant: datoff is the end of the file minus one record. *)
AppDatBefore(p) ==
  /\ Step(p, "app.dat", "app.datunlock")
  /\ dat' = Append(dat, call[p].data)
  /\ Handle(p, [db[p] EXCEPT !.datoff = Len(dat),
                             !.datlen = DatLen[call[p].data]])
  /\ UNCHANGED <<head, idx, rd, wr, call, pos, res, ncalls>>

AppDat(p) ==
  /\ Step(p, "app.dat", "app.datunlock")
  /\ dat' = Append(dat, call[p].data)
  /\ Handle(p, [db[p] EXCEPT !.datoff = Len(dat) + 1,
                             !.datlen = DatLen[call[p].data]])
  /\ UNCHANGED <<head, idx, rd, wr, call, pos, res, ncalls>>

AppDatUnlock(p) ==
  /\ Step(p, "app.datunlock", "app.idxlock")
  /\ Unlock(p, DatLock)
  /\ UNCHANGED <<head, idx, dat, call, db, pos, res, ncalls>>

AppIdxLock(p) ==
  /\ Step(p, "app.idxlock", "app.idx")
  /\ WriteLock(p, TailLock)
  /\ UNCHANGED <<head, idx, dat, call, db, pos, res, ncalls>>

AppIdx(p) ==
  LET k == call[p].key IN
  /\ Step(p, "app.idx", "app.idxunlock")
  /\ idx' = Append(idx, IdxRec(k, KeyLen[k], db[p].datoff, db[p].datlen,
                               db[p].saveptr))
  /\ Handle(p, [db[p] EXCEPT !.idxoff = Eof])
  /\ Seek(p, Eof + 1)
  /\ UNCHANGED <<head, dat, rd, wr, call, res, ncalls>>

AppIdxUnlock(p) ==
  /\ Step(p, "app.idxunlock", "link")
  /\ Unlock(p, TailLock)
  /\ UNCHANGED <<head, idx, dat, call, db, pos, res, ncalls>>

(* The new record goes to the front of its hash chain. *)
Link(p) ==
  /\ pc[p] = "link"
  /\ WritePtr(p, db[p].chainoff, db[p].idxoff, "unlock")

-----------------------------------------------------------------------------
(* db_nextrec *)

ScanLock(p) ==
  /\ Step(p, "scan.lock", "scan.rec")
  /\ ReadLock(p, FREE_OFF)
  /\ UNCHANGED <<head, idx, dat, call, db, pos, res, ncalls>>

IsBlank(k) == k = Blank \/ k \in BlankKeys

(* _db_readidx at the current offset: end of file, a record to skip, a     *)
(* record to return, or bytes that are no index record (err_dump).         *)
AtRecord(p) == pos[p] # 0 /\ pos[p] < Eof

ScanEof(p) ==
  /\ Step(p, "scan.rec", "scan.unlock")
  /\ pos[p] >= Eof
  /\ UNCHANGED <<head, idx, dat, rd, wr, call, db, pos, res, ncalls>>

(* Mutant: a blank key ends the scan. *)
ScanSkipStops(p) ==
  /\ Step(p, "scan.rec", "scan.unlock")
  /\ AtRecord(p) /\ IsBlank(Rec(pos[p]).key)
  /\ Seek(p, pos[p] + 1)
  /\ UNCHANGED <<head, idx, dat, rd, wr, call, db, res, ncalls>>

ScanSkip(p) ==
  /\ Step(p, "scan.rec", "scan.rec")
  /\ AtRecord(p) /\ IsBlank(Rec(pos[p]).key)
  /\ Seek(p, pos[p] + 1)
  /\ UNCHANGED <<head, idx, dat, rd, wr, call, db, res, ncalls>>

ScanRec(p) ==
  /\ Step(p, "scan.rec", "scan.dat")
  /\ AtRecord(p) /\ ~IsBlank(Rec(pos[p]).key)
  /\ Seek(p, pos[p] + 1)
  /\ Handle(p, ReadIdx(p, pos[p]))
  /\ UNCHANGED <<head, idx, dat, rd, wr, call, res, ncalls>>

ScanDump(p) ==
  /\ pc[p] = "scan.rec" /\ pos[p] = 0
  /\ Exit(p)
  /\ UNCHANGED <<head, idx, dat, ncalls>>

ScanDat(p) ==
  /\ Step(p, "scan.dat", "scan.unlock")
  /\ Result(p, <<db[p].idxbuf, dat[db[p].datoff]>>)
  /\ UNCHANGED <<head, idx, dat, rd, wr, call, db, pos, ncalls>>

ScanUnlock(p) ==
  /\ Step(p, "scan.unlock", "idle")
  /\ Unlock(p, FREE_OFF)
  /\ call' = [call EXCEPT ![p] = None]
  /\ Result(p, None)
  /\ Handle(p, Clear)
  /\ UNCHANGED <<head, idx, dat, pos, ncalls>>

-----------------------------------------------------------------------------
(* A signal kills the process between two system calls. *)
Killed(p) ==
  /\ pc[p] \in Mortal
  /\ Exit(p)
  /\ UNCHANGED <<head, idx, dat, ncalls>>

Find(p)     == FindLock(p) \/ FindHead(p) \/ FindRec(p) \/ FetchDat(p)
Delete(p)   == \/ DelLock(p) \/ DelDat(p) \/ DelFree(p) \/ DelIdx(p)
               \/ DelSetHead(p) \/ DelUnlink(p) \/ DelUnlock(p)
FindFree(p) == \/ InsHead(p) \/ FindFreeLock(p) \/ FindFreeHead(p)
               \/ FindFreeRec(p) \/ FindFreeTake(p) \/ FindFreeUnlock(p)
Write(p)    == \/ ReuseDat(p) \/ ReuseIdx(p) \/ ReplaceDat(p) \/ AppReread(p)
               \/ AppDatLock(p) \/ AppDat(p) \/ AppDatUnlock(p)
               \/ AppIdxLock(p) \/ AppIdx(p) \/ AppIdxUnlock(p) \/ Link(p)
Scan(p)     == \/ ScanLock(p) \/ ScanEof(p) \/ ScanSkip(p) \/ ScanRec(p)
               \/ ScanDump(p) \/ ScanDat(p) \/ ScanUnlock(p)

Run(p) == Find(p) \/ Delete(p) \/ FindFree(p) \/ Write(p) \/ Scan(p) \/ Return(p)

(* The database as db_open leaves it when it has just created it. *)
Init ==
  /\ head = [o \in 0 .. NHash |-> 0]
  /\ idx = <<>> /\ dat = <<>>
  /\ rd = [l \in Locks |-> {}]
  /\ wr = [l \in Locks |-> {}]
  /\ pc = [p \in Procs |-> "idle"]
  /\ call = [p \in Procs |-> None]
  /\ db = [p \in Procs |-> Clear]
  /\ pos = [p \in Procs |-> FIRST_REC]
  /\ res = [p \in Procs |-> None]
  /\ ncalls = 0

Next == \E p \in Procs : Begin(p) \/ DbRewind(p) \/ Run(p) \/ Killed(p)

Spec     == Init /\ [][Next]_vars
FairSpec == Spec /\ \A p \in Procs : WF_vars(Run(p))
=============================================================================
