------------------------------ MODULE DbProofs ------------------------------
(***************************************************************************)
(* Theorems about the database library, for any number of processes, keys, *)
(* values, chains and calls: types and pointers first, then the locking    *)
(* protocol, on which the proofs about the lists and the map rest.         *)
(***************************************************************************)
EXTENDS DbInv, SequenceTheorems, TLAPS

-----------------------------------------------------------------------------
(* The inductive invariant for types and pointers: TypeOK and PointersValid *)
(* by parts, and the kind of call a process can be in at each step.         *)

Ptr(n) == {0} \cup (NHash + 1 .. NHash + n)

FilesOK(hd, ix, dt) ==
  /\ hd \in [0 .. NHash -> Nat] /\ \A o \in 0 .. NHash : hd[o] \in Ptr(Len(ix))
  /\ ix \in Seq(IdxRecs)
  /\ \A n \in 1 .. Len(ix) : /\ ix[n].ptr \in Ptr(Len(ix))
                             /\ ix[n].datoff \in 1 .. Len(dt)
  /\ dt \in Seq(Data \cup {Blank})

Working == OnChain \cup OnFree \cup OnData \cup OnTail \cup {"find.lock"}

(* A process at label l, in call c, with handle h and offset o, when the    *)
(* files have n and m records.                                              *)
ProcOK(l, c, h, o, n, m) ==
  /\ l \in Labels /\ c \in AllCalls \cup {None} /\ h \in Handles /\ o \in Nat
  /\ l \in Working => c # None /\ c.f \in {"fetch", "delete", "store"}
  /\ l \in OfStore => c.f = "store"
  /\ l \in OfDelete => c.f \in {"store", "delete"}
  /\ h.chainoff \in 0 .. NHash /\ h.ptroff \in 0 .. NHash + n
  /\ h.idxoff \in Ptr(n) /\ h.ptrval \in Ptr(n)
  /\ h.offset \in Ptr(n) /\ h.saveptr \in Ptr(n)
  /\ h.datoff \in 0 .. m
  /\ o = 0 \/ o \in NHash + 1 .. NHash + 1 + n
  /\ l \in {"find.rec", "ff.rec"} => h.offset # 0
  /\ \/ l \in {"del.lock", "del.dat", "del.free", "del.idx", "del.sethead",
               "ff.take", "reuse.dat", "reuse.idx", "app.idxunlock", "link"}
     \/ l = "ff.unlock" /\ h.offset # 0
     => h.idxoff # 0
  /\ \/ l \in {"fetch.dat", "del.lock", "del.dat", "del.free", "del.idx",
               "ff.take", "reuse.dat", "reuse.idx", "rep.dat", "app.datunlock",
               "app.idxlock", "app.idx", "scan.dat"}
     \/ l = "ff.unlock" /\ h.offset # 0
     => h.datoff # 0

LocksOK == rd \in [Locks -> SUBSET Procs] /\ wr \in [Locks -> SUBSET Procs]

TypeInv ==
  /\ FilesOK(head, idx, dat)
  /\ LocksOK
  /\ pc \in [Procs -> Labels]
  /\ call \in [Procs -> AllCalls \cup {None}]
  /\ db \in [Procs -> Handles]
  /\ pos \in [Procs -> Nat]
  /\ ncalls \in 0 .. MaxCalls
  /\ \A p \in Procs : ProcOK(pc[p], call[p], db[p], pos[p], Len(idx), Len(dat))

LEMMA TypeInvImplies == TypeInv => TypeOK /\ PointersValid
  <1> SUFFICES ASSUME TypeInv PROVE TypeOK /\ PointersValid
    OBVIOUS
  <1> USE DbAssumption DEF TypeInv, FilesOK
  <1>1. TypeOK
    BY DEF TypeOK, LocksOK
  <1>2. Len(idx) \in Nat /\ Len(dat) \in Nat
    OBVIOUS
  <1>3. Eof = NHash + 1 + Len(idx) /\ FIRST_REC = NHash + 1
    BY <1>2 DEF Eof, FIRST_REC
  <1>4. PointersValid
    BY <1>2, <1>3 DEF PointersValid, Ptrs, AllRecs, Ptr, ProcOK, UsesRecord, UsesData
  <1> QED BY <1>1, <1>4

(* The fields of a call. *)
LEMMA CallFields ==
  ASSUME NEW c \in AllCalls
  PROVE  /\ c.f \in {"fetch", "delete", "store"} => c.key \in Keys
         /\ c.f = "store" => c.data \in Data /\ c.flag \in Flags
  BY DEF AllCalls

-----------------------------------------------------------------------------
(* Lemmas about the files. *)

LEMMA WithPtr ==
  ASSUME NEW r \in IdxRecs, NEW v \in Nat
  PROVE  LET s == [r EXCEPT !.ptr = v] IN
         s \in IdxRecs /\ s.ptr = v /\ s.datoff = r.datoff
  BY DEF IdxRecs

(* Writing a pointer that leads to a record. *)
LEMMA SetPtrOK ==
  ASSUME FilesOK(head, idx, dat),
         NEW o \in 0 .. NHash + Len(idx), NEW v \in Ptr(Len(idx)),
         SetPtr(o, v)
  PROVE  FilesOK(head', idx', dat) /\ Len(idx') = Len(idx)
  <1> USE DbAssumption DEF FilesOK, Ptr
  <1>0. Len(idx) \in Nat
    OBVIOUS
  <1>1. CASE o <= NHash /\ head' = [head EXCEPT ![o] = v] /\ UNCHANGED idx
    BY <1>0, <1>1
  <1>2. CASE o > NHash /\ idx' = [idx EXCEPT ![o - NHash].ptr = v]
             /\ UNCHANGED head
    <2> DEFINE n == o - NHash
               r == [idx[n] EXCEPT !.ptr = v]
    <2>1. n \in 1 .. Len(idx) /\ idx[n] \in IdxRecs
      BY <1>0, <1>2
    <2>2. r \in IdxRecs /\ r.ptr = v /\ r.datoff = idx[n].datoff
      <3>1. v \in Nat
        BY <1>0
      <3> QED BY <2>1, <3>1, WithPtr
    <2>3. idx' = [idx EXCEPT ![n] = r]
      BY <1>2
    <2> HIDE DEF n, r
    <2>4. /\ idx' \in Seq(IdxRecs) /\ Len(idx') = Len(idx)
          /\ \A m \in 1 .. Len(idx) : idx'[m] = IF m = n THEN r ELSE idx[m]
      BY <2>1, <2>2, <2>3, ExceptSeq
    <2>5. idx[n].datoff \in 1 .. Len(dat)
      BY <2>1
    <2>6. ASSUME NEW m \in 1 .. Len(idx)
          PROVE  /\ idx'[m].ptr \in {0} \cup (NHash + 1 .. NHash + Len(idx))
                 /\ idx'[m].datoff \in 1 .. Len(dat)
      <3>1. CASE m = n
        BY <2>2, <2>4, <2>5, <3>1
      <3>2. CASE m # n
        BY <2>4, <3>2
      <3> QED BY <3>1, <3>2
    <2> QED BY <1>0, <1>2, <2>4, <2>6
  <1> QED BY <1>1, <1>2 DEF SetPtr

(* Overwriting an index record, or appending one. *)
LEMMA SetRecOK ==
  ASSUME FilesOK(head, idx, dat), NEW n \in 1 .. Len(idx), NEW r \in IdxRecs,
         r.ptr \in Ptr(Len(idx)), r.datoff \in 1 .. Len(dat)
  PROVE  /\ FilesOK(head, [idx EXCEPT ![n] = r], dat)
         /\ Len([idx EXCEPT ![n] = r]) = Len(idx)
  BY ExceptSeq DEF FilesOK

LEMMA AppendRecOK ==
  ASSUME FilesOK(head, idx, dat), NEW r \in IdxRecs,
         r.ptr \in Ptr(Len(idx)), r.datoff \in 1 .. Len(dat)
  PROVE  /\ FilesOK(head, Append(idx, r), dat)
         /\ Len(Append(idx, r)) = Len(idx) + 1
  <1> USE DbAssumption DEF FilesOK, Ptr
  <1>1. Len(idx) \in Nat
    OBVIOUS
  <1>2. /\ Append(idx, r) \in Seq(IdxRecs)
        /\ Len(Append(idx, r)) = Len(idx) + 1
        /\ \A i \in 1 .. Len(idx) : Append(idx, r)[i] = idx[i]
        /\ Append(idx, r)[Len(idx) + 1] = r
    BY AppendProperties
  <1> QED BY <1>1, <1>2, SMTT(30)

(* Overwriting a data record, or appending one. *)
LEMMA SetDatOK ==
  ASSUME FilesOK(head, idx, dat), NEW n \in 1 .. Len(dat),
         NEW v \in Data \cup {Blank}
  PROVE  /\ FilesOK(head, idx, [dat EXCEPT ![n] = v])
         /\ Len([dat EXCEPT ![n] = v]) = Len(dat)
  BY ExceptSeq, SMTT(30) DEF FilesOK

LEMMA AppendDatOK ==
  ASSUME FilesOK(head, idx, dat), NEW v \in Data \cup {Blank}
  PROVE  /\ FilesOK(head, idx, Append(dat, v))
         /\ Len(Append(dat, v)) = Len(dat) + 1
  BY AppendProperties DEF FilesOK

-----------------------------------------------------------------------------
(* Lemmas about one step of one process. *)

LEMMA ProcGrows ==
  ASSUME NEW n \in Nat, NEW m \in Nat, NEW n2 \in Nat, NEW m2 \in Nat,
         n <= n2, m <= m2, NEW l, NEW c, NEW h, NEW o, ProcOK(l, c, h, o, n, m)
  PROVE  ProcOK(l, c, h, o, n2, m2)
  BY DbAssumption DEF ProcOK, Ptr

LEMMA LocksStep ==
  ASSUME LocksOK, NEW p \in Procs, NEW l \in Locks,
         WriteLock(p, l) \/ ReadLock(p, l) \/ Unlock(p, l)
  PROVE  LocksOK'
  BY DEF LocksOK, WriteLock, ReadLock, Unlock

LEMMA LockNames ==
  /\ FREE_OFF \in Locks /\ TailLock \in Locks /\ DatLock \in Locks
  /\ Chains \subseteq Locks
  BY DbAssumption DEF FREE_OFF, TailLock, DatLock, Locks, Chains

(* What remains to be shown of a step of process p. *)
LEMMA OneProcess ==
  ASSUME TypeInv, NEW p \in Procs, NEW l, NEW c, NEW h, NEW o,
         pc' = [pc EXCEPT ![p] = l], call' = [call EXCEPT ![p] = c],
         db' = [db EXCEPT ![p] = h], pos' = [pos EXCEPT ![p] = o],
         FilesOK(head', idx', dat'),
         Len(idx) <= Len(idx'), Len(dat) <= Len(dat'),
         LocksOK', ncalls' \in 0 .. MaxCalls,
         ProcOK(l, c, h, o, Len(idx'), Len(dat'))
  PROVE  TypeInv'
  <1>1. /\ pc' \in [Procs -> Labels] /\ call' \in [Procs -> AllCalls \cup {None}]
        /\ db' \in [Procs -> Handles] /\ pos' \in [Procs -> Nat]
    BY DEF TypeInv, ProcOK
  <1>2. ASSUME NEW q \in Procs
        PROVE  ProcOK(pc'[q], call'[q], db'[q], pos'[q], Len(idx'), Len(dat'))
    <2>1. CASE q = p
      BY <2>1 DEF TypeInv
    <2>2. CASE q # p
      <3>1. /\ pc'[q] = pc[q] /\ call'[q] = call[q]
            /\ db'[q] = db[q] /\ pos'[q] = pos[q]
        BY <2>2 DEF TypeInv
      <3>2. /\ Len(idx) \in Nat /\ Len(idx') \in Nat
            /\ Len(dat) \in Nat /\ Len(dat') \in Nat
        BY DEF TypeInv, FilesOK
      <3>3. ProcOK(pc[q], call[q], db[q], pos[q], Len(idx), Len(dat))
        BY DEF TypeInv
      <3> QED BY <3>1, <3>2, <3>3, ProcGrows
    <2> QED BY <2>1, <2>2
  <1> QED BY <1>1, <1>2 DEF TypeInv

(* The same when the files stay as they are. *)
LEMMA QuietFiles ==
  ASSUME TypeInv, NEW p \in Procs, NEW l, NEW c, NEW h, NEW o,
         pc' = [pc EXCEPT ![p] = l], call' = [call EXCEPT ![p] = c],
         db' = [db EXCEPT ![p] = h], pos' = [pos EXCEPT ![p] = o],
         UNCHANGED files, LocksOK', ncalls' \in 0 .. MaxCalls,
         ProcOK(l, c, h, o, Len(idx), Len(dat))
  PROVE  TypeInv'
  <1>1. FilesOK(head', idx', dat') /\ Len(idx') = Len(idx) /\ Len(dat') = Len(dat)
    BY DEF files, TypeInv
  <1>2. Len(idx) \in Nat /\ Len(dat) \in Nat
    BY DEF TypeInv, FilesOK
  <1>3. Len(idx) <= Len(idx') /\ Len(dat) <= Len(dat')
    BY <1>1, <1>2
  <1>4. ProcOK(l, c, h, o, Len(idx'), Len(dat'))
    BY <1>1
  <1> QED BY <1>1, <1>3, <1>4, OneProcess

LEMMA ClearOK ==
  ASSUME NEW l \in {"idle", "dead"}, NEW n \in Nat, NEW m \in Nat,
         NEW o \in {0} \cup (NHash + 1 .. NHash + 1 + n)
  PROVE  ProcOK(l, None, Clear, o, n, m)
  BY DbAssumption
     DEF ProcOK, Clear, Handles, Labels, Ptr, Working, OnChain, OnFree, OnData,
         OnTail, OfStore, OfDelete

LEMMA ExitOK ==
  ASSUME TypeInv, NEW p \in Procs, Exit(p), UNCHANGED <<head, idx, dat, ncalls>>
  PROVE  TypeInv'
  <1>1. Len(idx) \in Nat /\ Len(dat) \in Nat
    BY DEF TypeInv, FilesOK
  <1>2. ProcOK("dead", None, Clear, 0, Len(idx), Len(dat))
    BY <1>1, ClearOK
  <1>3. LocksOK'
    BY DEF LocksOK, Exit, TypeInv
  <1>4. /\ pc' = [pc EXCEPT ![p] = "dead"] /\ call' = [call EXCEPT ![p] = None]
        /\ db' = [db EXCEPT ![p] = Clear] /\ pos' = [pos EXCEPT ![p] = 0]
        /\ UNCHANGED files /\ ncalls' \in 0 .. MaxCalls
    BY DEF Exit, Goto, Handle, Seek, files, TypeInv
  <1> QED BY <1>2, <1>3, <1>4, QuietFiles

LEMMA WritePtrOK ==
  ASSUME TypeInv, NEW p \in Procs, NEW l,
         NEW o \in 0 .. NHash + Len(idx), NEW v \in Ptr(Len(idx)),
         ProcOK(l, call[p], db[p], 0, Len(idx), Len(dat)),
         WritePtr(p, o, v, l)
  PROVE  TypeInv'
  <1>1. CASE Exit(p) /\ UNCHANGED <<head, idx, dat, ncalls>>
    BY <1>1, ExitOK
  <1>2. CASE /\ SetPtr(o, v) /\ Goto(p, l) /\ Seek(p, 0)
             /\ UNCHANGED <<dat, rd, wr, call, db, res, ncalls>>
    <2>1. FilesOK(head', idx', dat') /\ Len(idx') = Len(idx) /\ Len(dat') = Len(dat)
      BY <1>2, SetPtrOK DEF TypeInv
    <2>2. Len(idx) \in Nat /\ Len(dat) \in Nat
      BY DEF TypeInv, FilesOK
    <2>3. /\ pc' = [pc EXCEPT ![p] = l] /\ call' = [call EXCEPT ![p] = call[p]]
          /\ db' = [db EXCEPT ![p] = db[p]] /\ pos' = [pos EXCEPT ![p] = 0]
          /\ LocksOK' /\ ncalls' \in 0 .. MaxCalls
      BY <1>2 DEF Goto, Seek, TypeInv, LocksOK
    <2>4. Len(idx) <= Len(idx') /\ Len(dat) <= Len(dat')
      BY <2>1, <2>2
    <2>5. ProcOK(l, call[p], db[p], 0, Len(idx'), Len(dat'))
      BY <2>1
    <2> QED BY <2>1, <2>3, <2>4, <2>5, OneProcess
  <1> QED BY <1>1, <1>2 DEF WritePtr

(* A step that changes only the label of p, its result and the locks. *)
LEMMA LabelStep ==
  ASSUME TypeInv, NEW p \in Procs, NEW a, NEW b, Step(p, a, b),
         UNCHANGED <<head, idx, dat, call, db, pos, ncalls>>, LocksOK',
         ProcOK(b, call[p], db[p], pos[p], Len(idx), Len(dat))
  PROVE  TypeInv'
  <1> DEFINE c == call[p]  h == db[p]  o == pos[p]
  <1>1. /\ pc' = [pc EXCEPT ![p] = b] /\ call' = [call EXCEPT ![p] = c]
        /\ db' = [db EXCEPT ![p] = h] /\ pos' = [pos EXCEPT ![p] = o]
        /\ UNCHANGED files /\ ncalls' \in 0 .. MaxCalls
        /\ ProcOK(b, c, h, o, Len(idx), Len(dat))
    BY DEF Step, Goto, files, TypeInv
  <1> HIDE DEF c, h, o
  <1> QED BY <1>1, QuietFiles

LEMMA FetchDatType ==
  ASSUME TypeInv, NEW p \in Procs, FetchDat(p) PROVE TypeInv'
  <1>1. ProcOK(pc[p], call[p], db[p], pos[p], Len(idx), Len(dat)) /\ pc[p] = "fetch.dat"
    BY DEF TypeInv, FetchDat, Step
  <1>2. ProcOK("unlock", call[p], db[p], pos[p], Len(idx), Len(dat))
    BY <1>1 DEF ProcOK, Labels, Working, OnChain, OnFree, OnData, OnTail, OfStore, OfDelete
  <1>3. LocksOK'
    BY DEF LocksOK, TypeInv, FetchDat
  <1> QED BY <1>2, <1>3, LabelStep DEF FetchDat

LEMMA DelLockType ==
  ASSUME TypeInv, NEW p \in Procs, DelLock(p) PROVE TypeInv'
  <1>1. ProcOK(pc[p], call[p], db[p], pos[p], Len(idx), Len(dat)) /\ pc[p] = "del.lock"
    BY DEF TypeInv, DelLock, Step
  <1>2. ProcOK("del.dat", call[p], db[p], pos[p], Len(idx), Len(dat))
    BY <1>1 DEF ProcOK, Labels, Working, OnChain, OnFree, OnData, OnTail, OfStore, OfDelete
  <1>3. LocksOK'
    BY LocksStep, LockNames DEF TypeInv, DelLock
  <1> QED BY <1>2, <1>3, LabelStep DEF DelLock

LEMMA DelUnlockType ==
  ASSUME TypeInv, NEW p \in Procs, DelUnlock(p) PROVE TypeInv'
  <1>1. ProcOK(pc[p], call[p], db[p], pos[p], Len(idx), Len(dat)) /\ pc[p] = "del.unlock"
    BY DEF TypeInv, DelUnlock, Step
  <1>2. ProcOK(IF call[p].f = "store" THEN "app.reread" ELSE "unlock", call[p], db[p], pos[p], Len(idx), Len(dat))
    BY <1>1 DEF ProcOK, Labels, Working, OnChain, OnFree, OnData, OnTail, OfStore, OfDelete
  <1>3. LocksOK'
    BY LocksStep, LockNames DEF TypeInv, DelUnlock
  <1> QED BY <1>2, <1>3, LabelStep DEF DelUnlock

LEMMA FindFreeLockType ==
  ASSUME TypeInv, NEW p \in Procs, FindFreeLock(p) PROVE TypeInv'
  <1>1. ProcOK(pc[p], call[p], db[p], pos[p], Len(idx), Len(dat)) /\ pc[p] = "ff.lock"
    BY DEF TypeInv, FindFreeLock, Step
  <1>2. ProcOK("ff.head", call[p], db[p], pos[p], Len(idx), Len(dat))
    BY <1>1 DEF ProcOK, Labels, Working, OnChain, OnFree, OnData, OnTail, OfStore, OfDelete
  <1>3. LocksOK'
    BY LocksStep, LockNames DEF TypeInv, FindFreeLock
  <1> QED BY <1>2, <1>3, LabelStep DEF FindFreeLock

LEMMA FindFreeUnlockType ==
  ASSUME TypeInv, NEW p \in Procs, FindFreeUnlock(p) PROVE TypeInv'
  <1>1. ProcOK(pc[p], call[p], db[p], pos[p], Len(idx), Len(dat)) /\ pc[p] = "ff.unlock"
    BY DEF TypeInv, FindFreeUnlock, Step
  <1>2. ProcOK(IF db[p].offset = 0 THEN "app.datlock" ELSE "reuse.dat", call[p], db[p], pos[p], Len(idx), Len(dat))
    BY <1>1 DEF ProcOK, Labels, Working, OnChain, OnFree, OnData, OnTail, OfStore, OfDelete
  <1>3. LocksOK'
    BY LocksStep, LockNames DEF TypeInv, FindFreeUnlock
  <1> QED BY <1>2, <1>3, LabelStep DEF FindFreeUnlock

LEMMA AppDatLockType ==
  ASSUME TypeInv, NEW p \in Procs, AppDatLock(p) PROVE TypeInv'
  <1>1. ProcOK(pc[p], call[p], db[p], pos[p], Len(idx), Len(dat)) /\ pc[p] = "app.datlock"
    BY DEF TypeInv, AppDatLock, Step
  <1>2. ProcOK("app.dat", call[p], db[p], pos[p], Len(idx), Len(dat))
    BY <1>1 DEF ProcOK, Labels, Working, OnChain, OnFree, OnData, OnTail, OfStore, OfDelete
  <1>3. LocksOK'
    BY LocksStep, LockNames DEF TypeInv, AppDatLock
  <1> QED BY <1>2, <1>3, LabelStep DEF AppDatLock

LEMMA AppDatUnlockType ==
  ASSUME TypeInv, NEW p \in Procs, AppDatUnlock(p) PROVE TypeInv'
  <1>1. ProcOK(pc[p], call[p], db[p], pos[p], Len(idx), Len(dat)) /\ pc[p] = "app.datunlock"
    BY DEF TypeInv, AppDatUnlock, Step
  <1>2. ProcOK("app.idxlock", call[p], db[p], pos[p], Len(idx), Len(dat))
    BY <1>1 DEF ProcOK, Labels, Working, OnChain, OnFree, OnData, OnTail, OfStore, OfDelete
  <1>3. LocksOK'
    BY LocksStep, LockNames DEF TypeInv, AppDatUnlock
  <1> QED BY <1>2, <1>3, LabelStep DEF AppDatUnlock

LEMMA AppIdxLockType ==
  ASSUME TypeInv, NEW p \in Procs, AppIdxLock(p) PROVE TypeInv'
  <1>1. ProcOK(pc[p], call[p], db[p], pos[p], Len(idx), Len(dat)) /\ pc[p] = "app.idxlock"
    BY DEF TypeInv, AppIdxLock, Step
  <1>2. ProcOK("app.idx", call[p], db[p], pos[p], Len(idx), Len(dat))
    BY <1>1 DEF ProcOK, Labels, Working, OnChain, OnFree, OnData, OnTail, OfStore, OfDelete
  <1>3. LocksOK'
    BY LocksStep, LockNames DEF TypeInv, AppIdxLock
  <1> QED BY <1>2, <1>3, LabelStep DEF AppIdxLock

LEMMA AppIdxUnlockType ==
  ASSUME TypeInv, NEW p \in Procs, AppIdxUnlock(p) PROVE TypeInv'
  <1>1. ProcOK(pc[p], call[p], db[p], pos[p], Len(idx), Len(dat)) /\ pc[p] = "app.idxunlock"
    BY DEF TypeInv, AppIdxUnlock, Step
  <1>2. ProcOK("link", call[p], db[p], pos[p], Len(idx), Len(dat))
    BY <1>1 DEF ProcOK, Labels, Working, OnChain, OnFree, OnData, OnTail, OfStore, OfDelete
  <1>3. LocksOK'
    BY LocksStep, LockNames DEF TypeInv, AppIdxUnlock
  <1> QED BY <1>2, <1>3, LabelStep DEF AppIdxUnlock

LEMMA ScanLockType ==
  ASSUME TypeInv, NEW p \in Procs, ScanLock(p) PROVE TypeInv'
  <1>1. ProcOK(pc[p], call[p], db[p], pos[p], Len(idx), Len(dat)) /\ pc[p] = "scan.lock"
    BY DEF TypeInv, ScanLock, Step
  <1>2. ProcOK("scan.rec", call[p], db[p], pos[p], Len(idx), Len(dat))
    BY <1>1 DEF ProcOK, Labels, Working, OnChain, OnFree, OnData, OnTail, OfStore, OfDelete
  <1>3. LocksOK'
    BY LocksStep, LockNames DEF TypeInv, ScanLock
  <1> QED BY <1>2, <1>3, LabelStep DEF ScanLock

LEMMA ScanEofType ==
  ASSUME TypeInv, NEW p \in Procs, ScanEof(p) PROVE TypeInv'
  <1>1. ProcOK(pc[p], call[p], db[p], pos[p], Len(idx), Len(dat)) /\ pc[p] = "scan.rec"
    BY DEF TypeInv, ScanEof, Step
  <1>2. ProcOK("scan.unlock", call[p], db[p], pos[p], Len(idx), Len(dat))
    BY <1>1 DEF ProcOK, Labels, Working, OnChain, OnFree, OnData, OnTail, OfStore, OfDelete
  <1>3. LocksOK'
    BY DEF LocksOK, TypeInv, ScanEof
  <1> QED BY <1>2, <1>3, LabelStep DEF ScanEof

LEMMA ScanDatType ==
  ASSUME TypeInv, NEW p \in Procs, ScanDat(p) PROVE TypeInv'
  <1>1. ProcOK(pc[p], call[p], db[p], pos[p], Len(idx), Len(dat)) /\ pc[p] = "scan.dat"
    BY DEF TypeInv, ScanDat, Step
  <1>2. ProcOK("scan.unlock", call[p], db[p], pos[p], Len(idx), Len(dat))
    BY <1>1 DEF ProcOK, Labels, Working, OnChain, OnFree, OnData, OnTail, OfStore, OfDelete
  <1>3. LocksOK'
    BY DEF LocksOK, TypeInv, ScanDat
  <1> QED BY <1>2, <1>3, LabelStep DEF ScanDat

LEMMA DelSetHeadType ==
  ASSUME TypeInv, NEW p \in Procs, DelSetHead(p) PROVE TypeInv'
  <1>1. ProcOK(pc[p], call[p], db[p], pos[p], Len(idx), Len(dat)) /\ pc[p] = "del.sethead"
    BY DEF TypeInv, DelSetHead
  <1>2. ProcOK("del.unlink", call[p], db[p], 0, Len(idx), Len(dat))
    BY <1>1 DEF ProcOK, Labels, Working, OnChain, OnFree, OnData, OnTail, OfStore, OfDelete
  <1>3. FREE_OFF \in 0 .. NHash + Len(idx) /\ db[p].idxoff \in Ptr(Len(idx))
    BY <1>1, DbAssumption DEF ProcOK, FREE_OFF, Ptr, TypeInv, FilesOK
  <1> QED BY <1>2, <1>3, WritePtrOK DEF DelSetHead

LEMMA DelUnlinkType ==
  ASSUME TypeInv, NEW p \in Procs, DelUnlink(p) PROVE TypeInv'
  <1>1. ProcOK(pc[p], call[p], db[p], pos[p], Len(idx), Len(dat)) /\ pc[p] = "del.unlink"
    BY DEF TypeInv, DelUnlink
  <1>2. ProcOK("del.unlock", call[p], db[p], 0, Len(idx), Len(dat))
    BY <1>1 DEF ProcOK, Labels, Working, OnChain, OnFree, OnData, OnTail, OfStore, OfDelete
  <1>3. db[p].ptroff \in 0 .. NHash + Len(idx) /\ db[p].saveptr \in Ptr(Len(idx))
    BY <1>1, DbAssumption DEF ProcOK, FREE_OFF, Ptr, TypeInv, FilesOK
  <1> QED BY <1>2, <1>3, WritePtrOK DEF DelUnlink

LEMMA FindFreeTakeType ==
  ASSUME TypeInv, NEW p \in Procs, FindFreeTake(p) PROVE TypeInv'
  <1>1. ProcOK(pc[p], call[p], db[p], pos[p], Len(idx), Len(dat)) /\ pc[p] = "ff.take"
    BY DEF TypeInv, FindFreeTake
  <1>2. ProcOK("ff.unlock", call[p], db[p], 0, Len(idx), Len(dat))
    BY <1>1 DEF ProcOK, Labels, Working, OnChain, OnFree, OnData, OnTail, OfStore, OfDelete
  <1>3. db[p].ptroff \in 0 .. NHash + Len(idx) /\ db[p].ptrval \in Ptr(Len(idx))
    BY <1>1, DbAssumption DEF ProcOK, FREE_OFF, Ptr, TypeInv, FilesOK
  <1> QED BY <1>2, <1>3, WritePtrOK DEF FindFreeTake

-----------------------------------------------------------------------------
(* What a process reads from the index file. *)

LEMMA ReadPtrOK ==
  ASSUME TypeInv, NEW o \in 0 .. NHash + Len(idx)
  PROVE  ReadPtr(o) \in Ptr(Len(idx)) /\ ReadPtr(o) \in Nat
  <1>1. Len(idx) \in Nat /\ NHash \in Nat
    BY DbAssumption DEF TypeInv, FilesOK
  <1>2. CASE o <= NHash
    BY <1>1, <1>2 DEF TypeInv, FilesOK, ReadPtr, Ptr
  <1>3. CASE o > NHash
    <2>1. o - NHash \in 1 .. Len(idx)
      BY <1>1, <1>3
    <2> QED BY <1>1, <1>3, <2>1 DEF TypeInv, FilesOK, ReadPtr, Rec, Ptr
  <1> QED BY <1>1, <1>2, <1>3

LEMMA RecOK ==
  ASSUME TypeInv, NEW o \in Ptr(Len(idx)), o # 0
  PROVE  /\ o - NHash \in 1 .. Len(idx) /\ o \in Nat
         /\ Rec(o) \in IdxRecs /\ Rec(o) = idx[o - NHash]
         /\ Rec(o).ptr \in Ptr(Len(idx)) /\ Rec(o).datoff \in 1 .. Len(dat)
  <1>1. Len(idx) \in Nat /\ NHash \in Nat
    BY DbAssumption DEF TypeInv, FilesOK
  <1>2. o - NHash \in 1 .. Len(idx) /\ o \in Nat
    BY <1>1 DEF Ptr
  <1> QED BY <1>2 DEF TypeInv, FilesOK, Rec

LEMMA ReadIdxOK ==
  ASSUME TypeInv, NEW p \in Procs, NEW o \in Ptr(Len(idx)), o # 0
  PROVE  LET h == ReadIdx(p, o) IN
         /\ h \in Handles
         /\ h.chainoff = db[p].chainoff /\ h.ptroff = db[p].ptroff
         /\ h.offset = db[p].offset /\ h.saveptr = db[p].saveptr
         /\ h.idxoff = o /\ h.ptrval = Rec(o).ptr
         /\ h.datoff \in 1 .. Len(dat)
  <1>1. /\ Rec(o).key \in Keys \cup {Blank} /\ Rec(o).datlen \in Nat
        /\ Rec(o).datoff \in 1 .. Len(dat) /\ Rec(o).datoff \in Nat
        /\ Rec(o).ptr \in Nat /\ o \in Nat
    BY RecOK DEF IdxRecs
  <1>2. db[p] \in Handles
    BY DEF TypeInv
  <1> DEFINE k == Rec(o).key  l == Rec(o).datlen  d == Rec(o).datoff  v == Rec(o).ptr
  <1> HIDE DEF k, l, d, v
  <1>3. ReadIdx(p, o) = [db[p] EXCEPT !.idxoff = o, !.ptrval = v, !.idxbuf = k,
                                      !.datoff = d, !.datlen = l]
    BY DEF ReadIdx, k, l, d, v
  <1>4. k \in Keys \cup {Blank} /\ l \in Nat /\ d \in Nat /\ v \in Nat
    BY <1>1 DEF k, l, d, v
  <1>5. LET h == ReadIdx(p, o) IN
         /\ h \in Handles
         /\ h.chainoff = db[p].chainoff /\ h.ptroff = db[p].ptroff
         /\ h.offset = db[p].offset /\ h.saveptr = db[p].saveptr
         /\ h.idxoff = o /\ h.ptrval = v /\ h.datoff = d
    BY <1>1, <1>2, <1>3, <1>4, ZenonT(30) DEF Handles
  <1> QED BY <1>1, <1>5 DEF v, d

-----------------------------------------------------------------------------
(* The other steps. *)

LEMMA DelFreeType ==
  ASSUME TypeInv, NEW p \in Procs, DelFree(p) PROVE TypeInv'
  <1>1. ProcOK(pc[p], call[p], db[p], pos[p], Len(idx), Len(dat)) /\ pc[p] = "del.free"
    BY DEF TypeInv, DelFree, Step
  <1>2. Len(idx) \in Nat /\ Len(dat) \in Nat /\ NHash \in Nat \ {0}
    BY DbAssumption DEF TypeInv, FilesOK
  <1> DEFINE l == "del.idx"
             c == call[p]
             h == [db[p] EXCEPT !.saveptr = db[p].ptrval, !.ptrval = ReadPtr(FREE_OFF)]
             o == 0
  <1>a. ReadPtr(FREE_OFF) \in Ptr(Len(idx)) /\ ReadPtr(FREE_OFF) \in Nat
    BY <1>2, ReadPtrOK DEF FREE_OFF
  <1>3. /\ h \in Handles
        /\ h.chainoff = db[p].chainoff
        /\ h.ptroff = db[p].ptroff /\ h.idxoff = db[p].idxoff
        /\ h.offset = db[p].offset /\ h.datoff = db[p].datoff
        /\ h.saveptr = db[p].ptrval /\ h.ptrval = ReadPtr(FREE_OFF)
    BY <1>1, <1>a DEF ProcOK, Handles
  <1>4. ProcOK(l, c, h, o, Len(idx), Len(dat))
    BY <1>1, <1>2, <1>3, <1>a
       DEF ProcOK, Ptr, Labels, Working, OnChain, OnFree, OnData, OnTail, OfStore, OfDelete
  <1>5. LocksOK'
    BY DEF LocksOK, TypeInv, DelFree
  <1>6. /\ pc' = [pc EXCEPT ![p] = l] /\ call' = [call EXCEPT ![p] = c]
        /\ db' = [db EXCEPT ![p] = h] /\ pos' = [pos EXCEPT ![p] = o]
        /\ UNCHANGED files /\ ncalls' \in 0 .. MaxCalls
    BY <1>1 DEF DelFree, Step, Goto, Handle, Seek, files, TypeInv
  <1> HIDE DEF l, c, h, o
  <1> QED BY <1>4, <1>5, <1>6, QuietFiles

LEMMA InsHeadType ==
  ASSUME TypeInv, NEW p \in Procs, InsHead(p) PROVE TypeInv'
  <1>1. ProcOK(pc[p], call[p], db[p], pos[p], Len(idx), Len(dat)) /\ pc[p] = "ins.head"
    BY DEF TypeInv, InsHead, Step
  <1>2. Len(idx) \in Nat /\ Len(dat) \in Nat /\ NHash \in Nat \ {0}
    BY DbAssumption DEF TypeInv, FilesOK
  <1> DEFINE l == "ff.lock"
             c == call[p]
             h == [db[p] EXCEPT !.saveptr = ReadPtr(db[p].chainoff)]
             o == 0
  <1>a. /\ ReadPtr(db[p].chainoff) \in Ptr(Len(idx))
        /\ ReadPtr(db[p].chainoff) \in Nat
    BY <1>1, <1>2, ReadPtrOK DEF ProcOK, Chains
  <1>3. /\ h \in Handles
        /\ h.chainoff = db[p].chainoff
        /\ h.ptroff = db[p].ptroff /\ h.idxoff = db[p].idxoff
        /\ h.offset = db[p].offset /\ h.datoff = db[p].datoff
        /\ h.ptrval = db[p].ptrval /\ h.saveptr = ReadPtr(db[p].chainoff)
    BY <1>1, <1>a DEF ProcOK, Handles
  <1>4. ProcOK(l, c, h, o, Len(idx), Len(dat))
    BY <1>1, <1>2, <1>3, <1>a
       DEF ProcOK, Ptr, Labels, Working, OnChain, OnFree, OnData, OnTail, OfStore, OfDelete
  <1>5. LocksOK'
    BY DEF LocksOK, TypeInv, InsHead
  <1>6. /\ pc' = [pc EXCEPT ![p] = l] /\ call' = [call EXCEPT ![p] = c]
        /\ db' = [db EXCEPT ![p] = h] /\ pos' = [pos EXCEPT ![p] = o]
        /\ UNCHANGED files /\ ncalls' \in 0 .. MaxCalls
    BY <1>1 DEF InsHead, Step, Goto, Handle, Seek, files, TypeInv
  <1> HIDE DEF l, c, h, o
  <1> QED BY <1>4, <1>5, <1>6, QuietFiles

LEMMA AppRereadType ==
  ASSUME TypeInv, NEW p \in Procs, AppReread(p) PROVE TypeInv'
  <1>1. ProcOK(pc[p], call[p], db[p], pos[p], Len(idx), Len(dat)) /\ pc[p] = "app.reread"
    BY DEF TypeInv, AppReread, Step
  <1>2. Len(idx) \in Nat /\ Len(dat) \in Nat /\ NHash \in Nat \ {0}
    BY DbAssumption DEF TypeInv, FilesOK
  <1> DEFINE l == "app.datlock"
             c == call[p]
             h == [db[p] EXCEPT !.saveptr = ReadPtr(db[p].chainoff)]
             o == 0
  <1>a. /\ ReadPtr(db[p].chainoff) \in Ptr(Len(idx))
        /\ ReadPtr(db[p].chainoff) \in Nat
    BY <1>1, <1>2, ReadPtrOK DEF ProcOK, Chains
  <1>3. /\ h \in Handles
        /\ h.chainoff = db[p].chainoff
        /\ h.ptroff = db[p].ptroff /\ h.idxoff = db[p].idxoff
        /\ h.offset = db[p].offset /\ h.datoff = db[p].datoff
        /\ h.ptrval = db[p].ptrval /\ h.saveptr = ReadPtr(db[p].chainoff)
    BY <1>1, <1>a DEF ProcOK, Handles
  <1>4. ProcOK(l, c, h, o, Len(idx), Len(dat))
    BY <1>1, <1>2, <1>3, <1>a
       DEF ProcOK, Ptr, Labels, Working, OnChain, OnFree, OnData, OnTail, OfStore, OfDelete
  <1>5. LocksOK'
    BY DEF LocksOK, TypeInv, AppReread
  <1>6. /\ pc' = [pc EXCEPT ![p] = l] /\ call' = [call EXCEPT ![p] = c]
        /\ db' = [db EXCEPT ![p] = h] /\ pos' = [pos EXCEPT ![p] = o]
        /\ UNCHANGED files /\ ncalls' \in 0 .. MaxCalls
    BY <1>1 DEF AppReread, Step, Goto, Handle, Seek, files, TypeInv
  <1> HIDE DEF l, c, h, o
  <1> QED BY <1>4, <1>5, <1>6, QuietFiles

LEMMA FindFreeHeadType ==
  ASSUME TypeInv, NEW p \in Procs, FindFreeHead(p) PROVE TypeInv'
  <1>1. ProcOK(pc[p], call[p], db[p], pos[p], Len(idx), Len(dat)) /\ pc[p] = "ff.head"
    BY DEF TypeInv, FindFreeHead, Step
  <1>2. Len(idx) \in Nat /\ Len(dat) \in Nat /\ NHash \in Nat \ {0}
    BY DbAssumption DEF TypeInv, FilesOK
  <1> DEFINE l == IF ReadPtr(FREE_OFF) = 0 THEN "ff.unlock" ELSE "ff.rec"
             c == call[p]
             h == [db[p] EXCEPT !.ptroff = FREE_OFF, !.offset = ReadPtr(FREE_OFF)]
             o == 0
  <1>a. ReadPtr(FREE_OFF) \in Ptr(Len(idx)) /\ ReadPtr(FREE_OFF) \in Nat
    BY <1>2, ReadPtrOK DEF FREE_OFF
  <1>3. /\ h \in Handles
        /\ h.chainoff = db[p].chainoff
        /\ h.ptroff = FREE_OFF /\ h.idxoff = db[p].idxoff
        /\ h.offset = ReadPtr(FREE_OFF) /\ h.datoff = db[p].datoff
        /\ h.saveptr = db[p].saveptr /\ h.ptrval = db[p].ptrval
    BY <1>1, <1>a DEF ProcOK, Handles, FREE_OFF
  <1>4. ProcOK(l, c, h, o, Len(idx), Len(dat))
    BY <1>1, <1>2, <1>3, <1>a
       DEF ProcOK, Ptr, Labels, Working, OnChain, OnFree, OnData, OnTail, OfStore, OfDelete, FREE_OFF
  <1>5. LocksOK'
    BY DEF LocksOK, TypeInv, FindFreeHead
  <1>6. /\ pc' = [pc EXCEPT ![p] = l] /\ call' = [call EXCEPT ![p] = c]
        /\ db' = [db EXCEPT ![p] = h] /\ pos' = [pos EXCEPT ![p] = o]
        /\ UNCHANGED files /\ ncalls' \in 0 .. MaxCalls
    BY <1>1 DEF FindFreeHead, Step, Goto, Handle, Seek, files, TypeInv
  <1> HIDE DEF l, c, h, o
  <1> QED BY <1>4, <1>5, <1>6, QuietFiles

LEMMA FindLockType ==
  ASSUME TypeInv, NEW p \in Procs, FindLock(p) PROVE TypeInv'
  <1>1. ProcOK(pc[p], call[p], db[p], pos[p], Len(idx), Len(dat)) /\ pc[p] = "find.lock"
    BY DEF TypeInv, FindLock, Step
  <1>2. Len(idx) \in Nat /\ Len(dat) \in Nat /\ NHash \in Nat \ {0}
    BY DbAssumption DEF TypeInv, FilesOK
  <1> DEFINE l == "find.head"
             c == call[p]
             h == [db[p] EXCEPT !.chainoff = Hash[call[p].key], !.ptroff = Hash[call[p].key]]
             o == pos[p]
  <1>a. /\ Hash[call[p].key] \in Chains /\ Hash[call[p].key] \in Nat
        /\ Hash[call[p].key] \in 0 .. NHash
    BY <1>1, <1>2, CallFields, DbAssumption DEF ProcOK, Working, Chains
  <1>3. /\ h \in Handles
        /\ h.chainoff = Hash[call[p].key]
        /\ h.ptroff = Hash[call[p].key] /\ h.idxoff = db[p].idxoff
        /\ h.offset = db[p].offset /\ h.datoff = db[p].datoff
        /\ h.saveptr = db[p].saveptr /\ h.ptrval = db[p].ptrval
    BY <1>1, <1>a DEF ProcOK, Handles
  <1>4. ProcOK(l, c, h, o, Len(idx), Len(dat))
    BY <1>1, <1>2, <1>3, <1>a
       DEF ProcOK, Ptr, Labels, Working, OnChain, OnFree, OnData, OnTail, OfStore, OfDelete
  <1>5. LocksOK'
    BY LocksStep, LockNames, <1>a DEF TypeInv, FindLock
  <1>6. /\ pc' = [pc EXCEPT ![p] = l] /\ call' = [call EXCEPT ![p] = c]
        /\ db' = [db EXCEPT ![p] = h] /\ pos' = [pos EXCEPT ![p] = o]
        /\ UNCHANGED files /\ ncalls' \in 0 .. MaxCalls
    BY <1>1 DEF FindLock, Step, Goto, Handle, Seek, files, TypeInv
  <1> HIDE DEF l, c, h, o
  <1> QED BY <1>4, <1>5, <1>6, QuietFiles

LEMMA ReturnType ==
  ASSUME TypeInv, NEW p \in Procs, Return(p) PROVE TypeInv'
  <1>1. ProcOK(pc[p], call[p], db[p], pos[p], Len(idx), Len(dat)) /\ pc[p] = "unlock"
    BY DEF TypeInv, Return, Step
  <1>2. Len(idx) \in Nat /\ Len(dat) \in Nat /\ NHash \in Nat \ {0}
    BY DbAssumption DEF TypeInv, FilesOK
  <1> DEFINE l == "idle"
             c == None
             h == Clear
             o == pos[p]
  <1>3. ProcOK("idle", None, Clear, pos[p], Len(idx), Len(dat))
    BY <1>1, <1>2, ClearOK DEF ProcOK
  <1>4. ProcOK(l, c, h, o, Len(idx), Len(dat))
    BY <1>3
  <1>a. db[p].chainoff \in Locks
    BY <1>1, <1>2 DEF ProcOK, Locks
  <1>5. LocksOK'
    BY LocksStep, <1>a DEF TypeInv, Return
  <1>6. /\ pc' = [pc EXCEPT ![p] = l] /\ call' = [call EXCEPT ![p] = c]
        /\ db' = [db EXCEPT ![p] = h] /\ pos' = [pos EXCEPT ![p] = o]
        /\ UNCHANGED files /\ ncalls' \in 0 .. MaxCalls
    BY <1>1 DEF Return, Step, Goto, Handle, Seek, files, TypeInv
  <1> HIDE DEF l, c, h, o
  <1> QED BY <1>4, <1>5, <1>6, QuietFiles

LEMMA ScanUnlockType ==
  ASSUME TypeInv, NEW p \in Procs, ScanUnlock(p) PROVE TypeInv'
  <1>1. ProcOK(pc[p], call[p], db[p], pos[p], Len(idx), Len(dat)) /\ pc[p] = "scan.unlock"
    BY DEF TypeInv, ScanUnlock, Step
  <1>2. Len(idx) \in Nat /\ Len(dat) \in Nat /\ NHash \in Nat \ {0}
    BY DbAssumption DEF TypeInv, FilesOK
  <1> DEFINE l == "idle"
             c == None
             h == Clear
             o == pos[p]
  <1>3. ProcOK("idle", None, Clear, pos[p], Len(idx), Len(dat))
    BY <1>1, <1>2, ClearOK DEF ProcOK
  <1>4. ProcOK(l, c, h, o, Len(idx), Len(dat))
    BY <1>3
  <1>5. LocksOK'
    BY LocksStep, LockNames DEF TypeInv, ScanUnlock
  <1>6. /\ pc' = [pc EXCEPT ![p] = l] /\ call' = [call EXCEPT ![p] = c]
        /\ db' = [db EXCEPT ![p] = h] /\ pos' = [pos EXCEPT ![p] = o]
        /\ UNCHANGED files /\ ncalls' \in 0 .. MaxCalls
    BY <1>1 DEF ScanUnlock, Step, Goto, Handle, Seek, files, TypeInv
  <1> HIDE DEF l, c, h, o
  <1> QED BY <1>4, <1>5, <1>6, QuietFiles

LEMMA BeginType ==
  ASSUME TypeInv, NEW p \in Procs, Begin(p) PROVE TypeInv'
  <1>1. ProcOK(pc[p], call[p], db[p], pos[p], Len(idx), Len(dat)) /\ pc[p] = "idle"
    BY DEF TypeInv, Begin
  <1>2. PICK c \in Calls[p] :
          /\ c.f # "rewind"
          /\ call' = [call EXCEPT ![p] = c]
          /\ Goto(p, IF c.f = "nextrec" THEN "scan.lock" ELSE "find.lock")
    BY DEF Begin
  <1> DEFINE l == IF c.f = "nextrec" THEN "scan.lock" ELSE "find.lock"
             h == db[p]
             o == pos[p]
  <1>3. c \in AllCalls /\ c # None /\ c.f \in {"fetch", "delete", "store", "nextrec"}
    BY <1>2, DbAssumption DEF AllCalls
  <1>4. ProcOK(l, c, h, o, Len(idx), Len(dat))
    BY <1>1, <1>3 DEF ProcOK, Labels, Working, OnChain, OnFree, OnData, OnTail, OfStore, OfDelete
  <1>5. LocksOK'
    BY DEF LocksOK, TypeInv, Begin
  <1>6. /\ pc' = [pc EXCEPT ![p] = l] /\ call' = [call EXCEPT ![p] = c]
        /\ db' = [db EXCEPT ![p] = h] /\ pos' = [pos EXCEPT ![p] = o]
        /\ UNCHANGED files
    BY <1>2 DEF Begin, Goto, files, TypeInv
  <1>7. ncalls' \in 0 .. MaxCalls
    BY DbAssumption DEF Begin, TypeInv
  <1> HIDE DEF l, h, o
  <1> QED BY <1>4, <1>5, <1>6, <1>7, QuietFiles

LEMMA DbRewindType ==
  ASSUME TypeInv, NEW p \in Procs, DbRewind(p) PROVE TypeInv'
  <1>1. ProcOK(pc[p], call[p], db[p], pos[p], Len(idx), Len(dat))
    BY DEF TypeInv
  <1>2. Len(idx) \in Nat /\ Len(dat) \in Nat /\ NHash \in Nat \ {0}
    BY DbAssumption DEF TypeInv, FilesOK
  <1> DEFINE l == pc[p]
             c == call[p]
             h == db[p]
  <1>4. ProcOK(l, c, h, FIRST_REC, Len(idx), Len(dat))
    BY <1>1, <1>2 DEF ProcOK, FIRST_REC
  <1>5. LocksOK'
    BY DEF LocksOK, TypeInv, DbRewind
  <1>6. /\ pc' = [pc EXCEPT ![p] = l] /\ call' = [call EXCEPT ![p] = c]
        /\ db' = [db EXCEPT ![p] = h] /\ pos' = [pos EXCEPT ![p] = FIRST_REC]
        /\ UNCHANGED files
    BY DEF DbRewind, Seek, files, TypeInv
  <1>7. ncalls' \in 0 .. MaxCalls
    BY DbAssumption DEF DbRewind, TypeInv
  <1> HIDE DEF l, c, h
  <1> QED BY <1>4, <1>5, <1>6, <1>7, QuietFiles

LEMMA ScanSkipType ==
  ASSUME TypeInv, NEW p \in Procs, ScanSkip(p) PROVE TypeInv'
  <1>1. ProcOK(pc[p], call[p], db[p], pos[p], Len(idx), Len(dat)) /\ pc[p] = "scan.rec"
    BY DEF TypeInv, ScanSkip, Step
  <1>2. Len(idx) \in Nat /\ Len(dat) \in Nat /\ NHash \in Nat \ {0}
    BY DbAssumption DEF TypeInv, FilesOK
  <1> DEFINE l == pc[p]
             c == call[p]
             h == db[p]
             o == pos[p] + 1
  <1>4. ProcOK(l, c, h, o, Len(idx), Len(dat))
    BY <1>1, <1>2 DEF ProcOK, ScanSkip, AtRecord, Eof, FIRST_REC
  <1>5. LocksOK'
    BY DEF LocksOK, TypeInv, ScanSkip
  <1>6. /\ pc' = [pc EXCEPT ![p] = l] /\ call' = [call EXCEPT ![p] = c]
        /\ db' = [db EXCEPT ![p] = h] /\ pos' = [pos EXCEPT ![p] = o]
        /\ UNCHANGED files /\ ncalls' \in 0 .. MaxCalls
    BY <1>1 DEF ScanSkip, Step, Goto, Seek, files, TypeInv
  <1> HIDE DEF l, c, h, o
  <1> QED BY <1>4, <1>5, <1>6, QuietFiles

LEMMA ScanRecType ==
  ASSUME TypeInv, NEW p \in Procs, ScanRec(p) PROVE TypeInv'
  <1>1. ProcOK(pc[p], call[p], db[p], pos[p], Len(idx), Len(dat)) /\ pc[p] = "scan.rec"
    BY DEF TypeInv, ScanRec, Step
  <1>2. Len(idx) \in Nat /\ Len(dat) \in Nat /\ NHash \in Nat \ {0}
    BY DbAssumption DEF TypeInv, FilesOK
  <1> DEFINE l == "scan.dat"
             c == call[p]
             h == ReadIdx(p, pos[p])
             o == pos[p] + 1
  <1>a. pos[p] \in Ptr(Len(idx)) /\ pos[p] # 0 /\ pos[p] \in Nat
    BY <1>1, <1>2 DEF ProcOK, ScanRec, AtRecord, Eof, FIRST_REC, Ptr
  <1>b. Rec(pos[p]).ptr \in Ptr(Len(idx))
    BY <1>a, RecOK
  <1>3. /\ h \in Handles
        /\ h.chainoff = db[p].chainoff /\ h.ptroff = db[p].ptroff
        /\ h.offset = db[p].offset /\ h.saveptr = db[p].saveptr
        /\ h.idxoff = pos[p] /\ h.ptrval = Rec(pos[p]).ptr
        /\ h.datoff \in 1 .. Len(dat)
    BY <1>a, ReadIdxOK
  <1> HIDE DEF h
  <1>4. ProcOK(l, c, h, o, Len(idx), Len(dat))
    BY <1>1, <1>2, <1>3, <1>a, <1>b, SMTT(30)
       DEF ProcOK, Ptr, Labels, Working, OnChain, OnFree, OnData, OnTail, OfStore, OfDelete
  <1>5. LocksOK'
    BY DEF LocksOK, TypeInv, ScanRec
  <1>6. /\ pc' = [pc EXCEPT ![p] = l] /\ call' = [call EXCEPT ![p] = c]
        /\ db' = [db EXCEPT ![p] = h] /\ pos' = [pos EXCEPT ![p] = o]
        /\ UNCHANGED files /\ ncalls' \in 0 .. MaxCalls
    BY <1>1 DEF h, ScanRec, Step, Goto, Handle, Seek, files, TypeInv
  <1> HIDE DEF l, c, h, o
  <1> QED BY <1>4, <1>5, <1>6, QuietFiles

LEMMA ScanDumpType ==
  ASSUME TypeInv, NEW p \in Procs, ScanDump(p) PROVE TypeInv'
  BY ExitOK DEF ScanDump

LEMMA KilledType ==
  ASSUME TypeInv, NEW p \in Procs, Killed(p) PROVE TypeInv'
  BY ExitOK DEF Killed

LEMMA LinkType ==
  ASSUME TypeInv, NEW p \in Procs, Link(p) PROVE TypeInv'
  <1>1. ProcOK(pc[p], call[p], db[p], pos[p], Len(idx), Len(dat)) /\ pc[p] = "link"
    BY DEF TypeInv, Link
  <1>2. ProcOK("unlock", call[p], db[p], 0, Len(idx), Len(dat))
    BY <1>1 DEF ProcOK, Labels, Working, OnChain, OnFree, OnData, OnTail, OfStore, OfDelete
  <1>3. db[p].chainoff \in 0 .. NHash + Len(idx) /\ db[p].idxoff \in Ptr(Len(idx))
    BY <1>1, DbAssumption DEF ProcOK, Ptr, TypeInv, FilesOK
  <1> QED BY <1>2, <1>3, WritePtrOK DEF Link

LEMMA DelDatType ==
  ASSUME TypeInv, NEW p \in Procs, DelDat(p) PROVE TypeInv'
  <1>1. ProcOK(pc[p], call[p], db[p], pos[p], Len(idx), Len(dat)) /\ pc[p] = "del.dat"
    BY DEF TypeInv, DelDat, Step
  <1>2. Len(idx) \in Nat /\ Len(dat) \in Nat /\ NHash \in Nat \ {0}
    BY DbAssumption DEF TypeInv, FilesOK
  <1> DEFINE l == "del.free"
             c == call[p]
             h == db[p]
             o == pos[p]
  <1>3. db[p].datoff \in 1 .. Len(dat)
    BY <1>1, <1>2 DEF ProcOK
  <1>4. FilesOK(head', idx', dat') /\ Len(idx') = Len(idx) /\ Len(dat') = Len(dat)
    BY <1>3, SetDatOK DEF DelDat, TypeInv
  <1>5. ProcOK(l, c, h, o, Len(idx'), Len(dat'))
    BY <1>1, <1>2, <1>3, <1>4
       DEF ProcOK, Ptr, Labels, Working, OnChain, OnFree, OnData, OnTail, OfStore, OfDelete
  <1>6. LocksOK'
    BY DEF LocksOK, TypeInv, DelDat
  <1>7. /\ pc' = [pc EXCEPT ![p] = l] /\ call' = [call EXCEPT ![p] = c]
        /\ db' = [db EXCEPT ![p] = h] /\ pos' = [pos EXCEPT ![p] = o]
        /\ ncalls' \in 0 .. MaxCalls
    BY <1>1 DEF DelDat, Step, Goto, Handle, Seek, TypeInv
  <1>8. FilesOK(head', idx', dat') /\ Len(idx) <= Len(idx') /\ Len(dat) <= Len(dat')
    BY <1>2, <1>4
  <1> HIDE DEF l, c, h, o
  <1> QED BY <1>5, <1>6, <1>7, <1>8, OneProcess

LEMMA ReplaceDatType ==
  ASSUME TypeInv, NEW p \in Procs, ReplaceDat(p) PROVE TypeInv'
  <1>1. ProcOK(pc[p], call[p], db[p], pos[p], Len(idx), Len(dat)) /\ pc[p] = "rep.dat"
    BY DEF TypeInv, ReplaceDat, Step
  <1>2. Len(idx) \in Nat /\ Len(dat) \in Nat /\ NHash \in Nat \ {0}
    BY DbAssumption DEF TypeInv, FilesOK
  <1> DEFINE l == "unlock"
             c == call[p]
             h == db[p]
             o == pos[p]
  <1>3. db[p].datoff \in 1 .. Len(dat) /\ call[p].data \in Data
    BY <1>1, <1>2, CallFields DEF ProcOK, OfStore, OnData, OnTail, Working, OnChain
  <1>4. FilesOK(head', idx', dat') /\ Len(idx') = Len(idx) /\ Len(dat') = Len(dat)
    BY <1>3, SetDatOK DEF ReplaceDat, TypeInv
  <1>5. ProcOK(l, c, h, o, Len(idx'), Len(dat'))
    BY <1>1, <1>2, <1>3, <1>4
       DEF ProcOK, Ptr, Labels, Working, OnChain, OnFree, OnData, OnTail, OfStore, OfDelete
  <1>6. LocksOK'
    BY DEF LocksOK, TypeInv, ReplaceDat
  <1>7. /\ pc' = [pc EXCEPT ![p] = l] /\ call' = [call EXCEPT ![p] = c]
        /\ db' = [db EXCEPT ![p] = h] /\ pos' = [pos EXCEPT ![p] = o]
        /\ ncalls' \in 0 .. MaxCalls
    BY <1>1 DEF ReplaceDat, Step, Goto, Handle, Seek, TypeInv
  <1>8. FilesOK(head', idx', dat') /\ Len(idx) <= Len(idx') /\ Len(dat) <= Len(dat')
    BY <1>2, <1>4
  <1> HIDE DEF l, c, h, o
  <1> QED BY <1>5, <1>6, <1>7, <1>8, OneProcess

LEMMA ReuseDatType ==
  ASSUME TypeInv, NEW p \in Procs, ReuseDat(p) PROVE TypeInv'
  <1>1. ProcOK(pc[p], call[p], db[p], pos[p], Len(idx), Len(dat)) /\ pc[p] = "reuse.dat"
    BY DEF TypeInv, ReuseDat, Step
  <1>2. Len(idx) \in Nat /\ Len(dat) \in Nat /\ NHash \in Nat \ {0}
    BY DbAssumption DEF TypeInv, FilesOK
  <1> DEFINE l == "reuse.idx"
             c == call[p]
             h == [db[p] EXCEPT !.datlen = DatLen[call[p].data]]
             o == pos[p]
  <1>a. db[p].datoff \in 1 .. Len(dat) /\ call[p].data \in Data
    BY <1>1, <1>2, CallFields DEF ProcOK, OfStore, OnData, OnTail, Working, OnChain
  <1>b. DatLen[call[p].data] \in Nat
    BY <1>a, DbAssumption
  <1>3. /\ h \in Handles
        /\ h.chainoff = db[p].chainoff
        /\ h.ptroff = db[p].ptroff /\ h.idxoff = db[p].idxoff
        /\ h.offset = db[p].offset /\ h.datoff = db[p].datoff
        /\ h.ptrval = db[p].ptrval /\ h.saveptr = db[p].saveptr
    BY <1>1, <1>b DEF ProcOK, Handles
  <1>4. FilesOK(head', idx', dat') /\ Len(idx') = Len(idx) /\ Len(dat') = Len(dat)
    BY <1>a, SetDatOK DEF ReuseDat, TypeInv
  <1>5. ProcOK(l, c, h, o, Len(idx'), Len(dat'))
    BY <1>1, <1>2, <1>3, <1>4
       DEF ProcOK, Ptr, Labels, Working, OnChain, OnFree, OnData, OnTail, OfStore, OfDelete
  <1>6. LocksOK'
    BY DEF LocksOK, TypeInv, ReuseDat
  <1>7. /\ pc' = [pc EXCEPT ![p] = l] /\ call' = [call EXCEPT ![p] = c]
        /\ db' = [db EXCEPT ![p] = h] /\ pos' = [pos EXCEPT ![p] = o]
        /\ ncalls' \in 0 .. MaxCalls
    BY <1>1 DEF ReuseDat, Step, Goto, Handle, Seek, TypeInv
  <1>8. FilesOK(head', idx', dat') /\ Len(idx) <= Len(idx') /\ Len(dat) <= Len(dat')
    BY <1>2, <1>4
  <1> HIDE DEF l, c, h, o
  <1> QED BY <1>5, <1>6, <1>7, <1>8, OneProcess

LEMMA AppDatType ==
  ASSUME TypeInv, NEW p \in Procs, AppDat(p) PROVE TypeInv'
  <1>1. ProcOK(pc[p], call[p], db[p], pos[p], Len(idx), Len(dat)) /\ pc[p] = "app.dat"
    BY DEF TypeInv, AppDat, Step
  <1>2. Len(idx) \in Nat /\ Len(dat) \in Nat /\ NHash \in Nat \ {0}
    BY DbAssumption DEF TypeInv, FilesOK
  <1> DEFINE l == "app.datunlock"
             c == call[p]
             h == [db[p] EXCEPT !.datoff = Len(dat) + 1, !.datlen = DatLen[call[p].data]]
             o == pos[p]
  <1>a. call[p].data \in Data
    BY <1>1, <1>2, CallFields DEF ProcOK, OfStore, OnData, OnTail, Working, OnChain
  <1>b. DatLen[call[p].data] \in Nat /\ Len(dat) + 1 \in Nat
    BY <1>a, <1>2, DbAssumption
  <1>3. /\ h \in Handles
        /\ h.chainoff = db[p].chainoff
        /\ h.ptroff = db[p].ptroff /\ h.idxoff = db[p].idxoff
        /\ h.offset = db[p].offset /\ h.datoff = Len(dat) + 1
        /\ h.ptrval = db[p].ptrval /\ h.saveptr = db[p].saveptr
    BY <1>1, <1>b DEF ProcOK, Handles
  <1>4. FilesOK(head', idx', dat') /\ Len(idx') = Len(idx) /\ Len(dat') = Len(dat) + 1
    BY <1>a, AppendDatOK DEF AppDat, TypeInv
  <1>5. ProcOK(l, c, h, o, Len(idx'), Len(dat'))
    BY <1>1, <1>2, <1>3, <1>4
       DEF ProcOK, Ptr, Labels, Working, OnChain, OnFree, OnData, OnTail, OfStore, OfDelete
  <1>6. LocksOK'
    BY DEF LocksOK, TypeInv, AppDat
  <1>7. /\ pc' = [pc EXCEPT ![p] = l] /\ call' = [call EXCEPT ![p] = c]
        /\ db' = [db EXCEPT ![p] = h] /\ pos' = [pos EXCEPT ![p] = o]
        /\ ncalls' \in 0 .. MaxCalls
    BY <1>1 DEF AppDat, Step, Goto, Handle, Seek, TypeInv
  <1>8. FilesOK(head', idx', dat') /\ Len(idx) <= Len(idx') /\ Len(dat) <= Len(dat')
    BY <1>2, <1>4
  <1> HIDE DEF l, c, h, o
  <1> QED BY <1>5, <1>6, <1>7, <1>8, OneProcess

LEMMA DelIdxType ==
  ASSUME TypeInv, NEW p \in Procs, DelIdx(p) PROVE TypeInv'
  <1>1. ProcOK(pc[p], call[p], db[p], pos[p], Len(idx), Len(dat)) /\ pc[p] = "del.idx"
    BY DEF TypeInv, DelIdx, Step
  <1>2. Len(idx) \in Nat /\ Len(dat) \in Nat /\ NHash \in Nat \ {0}
    BY DbAssumption DEF TypeInv, FilesOK
  <1> DEFINE l == "del.sethead"
             c == call[p]
             h == db[p]
             o == db[p].idxoff + 1
  <1>a. db[p].idxoff \in Ptr(Len(idx)) /\ db[p].idxoff # 0
    BY <1>1, <1>2 DEF ProcOK
  <1> DEFINE n == db[p].idxoff - NHash
             r == IdxRec(Blank, idx[n].klen, db[p].datoff, db[p].datlen, db[p].ptrval)
  <1>3. /\ n \in 1 .. Len(idx) /\ idx[n] \in IdxRecs
        /\ db[p].idxoff \in NHash + 1 .. NHash + Len(idx)
    BY <1>2, <1>a, RecOK DEF Ptr
  <1>d. idx[n].klen \in Nat
    BY <1>3 DEF IdxRecs
  <1>b. r \in IdxRecs /\ r.ptr \in Ptr(Len(idx)) /\ r.datoff \in 1 .. Len(dat)
    BY <1>1, <1>2, <1>d, SMTT(30) DEF ProcOK, IdxRecs, IdxRec, Handles
  <1>c. idx' = [idx EXCEPT ![n] = r]
    BY <1>3 DEF DelIdx
  <1> HIDE DEF r
  <1>4. FilesOK(head', idx', dat') /\ Len(idx') = Len(idx) /\ Len(dat') = Len(dat)
    <2>1. /\ FilesOK(head, [idx EXCEPT ![n] = r], dat)
          /\ Len([idx EXCEPT ![n] = r]) = Len(idx)
      BY <1>3, <1>b, SetRecOK DEF TypeInv
    <2>2. head' = head /\ dat' = dat
      BY DEF DelIdx
    <2> QED BY <1>c, <2>1, <2>2
  <1>5. ProcOK(l, c, h, o, Len(idx'), Len(dat'))
    BY <1>1, <1>2, <1>3, <1>4, SMTT(30)
       DEF ProcOK, Ptr, Labels, Working, OnChain, OnFree, OnData, OnTail, OfStore, OfDelete
  <1>6. LocksOK'
    BY DEF LocksOK, TypeInv, DelIdx
  <1>7. /\ pc' = [pc EXCEPT ![p] = l] /\ call' = [call EXCEPT ![p] = c]
        /\ db' = [db EXCEPT ![p] = h] /\ pos' = [pos EXCEPT ![p] = o]
        /\ ncalls' \in 0 .. MaxCalls
    BY <1>1 DEF DelIdx, Step, Goto, Handle, Seek, TypeInv
  <1>8. FilesOK(head', idx', dat') /\ Len(idx) <= Len(idx') /\ Len(dat) <= Len(dat')
    BY <1>2, <1>4
  <1> HIDE DEF l, c, h, o
  <1> QED BY <1>5, <1>6, <1>7, <1>8, OneProcess

LEMMA ReuseIdxType ==
  ASSUME TypeInv, NEW p \in Procs, ReuseIdx(p) PROVE TypeInv'
  <1>1. ProcOK(pc[p], call[p], db[p], pos[p], Len(idx), Len(dat)) /\ pc[p] = "reuse.idx"
    BY DEF TypeInv, ReuseIdx, Step
  <1>2. Len(idx) \in Nat /\ Len(dat) \in Nat /\ NHash \in Nat \ {0}
    BY DbAssumption DEF TypeInv, FilesOK
  <1> DEFINE l == "link"
             c == call[p]
             h == db[p]
             o == db[p].idxoff + 1
  <1>a. db[p].idxoff \in Ptr(Len(idx)) /\ db[p].idxoff # 0
    BY <1>1, <1>2 DEF ProcOK
  <1>d. call[p].key \in Keys /\ KeyLen[call[p].key] \in Nat
    BY <1>1, CallFields, DbAssumption DEF ProcOK, OfStore, OnData, OnTail, Working, OnChain
  <1> DEFINE n == db[p].idxoff - NHash
             r == IdxRec(call[p].key, KeyLen[call[p].key], db[p].datoff,
                         db[p].datlen, db[p].saveptr)
  <1>3. /\ n \in 1 .. Len(idx)
        /\ db[p].idxoff \in NHash + 1 .. NHash + Len(idx)
    BY <1>2, <1>a, RecOK DEF Ptr
  <1>b. r \in IdxRecs /\ r.ptr \in Ptr(Len(idx)) /\ r.datoff \in 1 .. Len(dat)
    BY <1>1, <1>2, <1>d, SMTT(30) DEF ProcOK, IdxRecs, IdxRec, Handles
  <1>c. idx' = [idx EXCEPT ![n] = r]
    BY <1>3 DEF ReuseIdx
  <1> HIDE DEF r
  <1>4. FilesOK(head', idx', dat') /\ Len(idx') = Len(idx) /\ Len(dat') = Len(dat)
    <2>1. /\ FilesOK(head, [idx EXCEPT ![n] = r], dat)
          /\ Len([idx EXCEPT ![n] = r]) = Len(idx)
      BY <1>3, <1>b, SetRecOK DEF TypeInv
    <2>2. head' = head /\ dat' = dat
      BY DEF ReuseIdx
    <2> QED BY <1>c, <2>1, <2>2
  <1>5. ProcOK(l, c, h, o, Len(idx'), Len(dat'))
    BY <1>1, <1>2, <1>3, <1>4, SMTT(30)
       DEF ProcOK, Ptr, Labels, Working, OnChain, OnFree, OnData, OnTail, OfStore, OfDelete
  <1>6. LocksOK'
    BY DEF LocksOK, TypeInv, ReuseIdx
  <1>7. /\ pc' = [pc EXCEPT ![p] = l] /\ call' = [call EXCEPT ![p] = c]
        /\ db' = [db EXCEPT ![p] = h] /\ pos' = [pos EXCEPT ![p] = o]
        /\ ncalls' \in 0 .. MaxCalls
    BY <1>1 DEF ReuseIdx, Step, Goto, Handle, Seek, TypeInv
  <1>8. FilesOK(head', idx', dat') /\ Len(idx) <= Len(idx') /\ Len(dat) <= Len(dat')
    BY <1>2, <1>4
  <1> HIDE DEF l, c, h, o
  <1> QED BY <1>5, <1>6, <1>7, <1>8, OneProcess

LEMMA AppIdxType ==
  ASSUME TypeInv, NEW p \in Procs, AppIdx(p) PROVE TypeInv'
  <1>1. ProcOK(pc[p], call[p], db[p], pos[p], Len(idx), Len(dat)) /\ pc[p] = "app.idx"
    BY DEF TypeInv, AppIdx, Step
  <1>2. Len(idx) \in Nat /\ Len(dat) \in Nat /\ NHash \in Nat \ {0}
    BY DbAssumption DEF TypeInv, FilesOK
  <1> DEFINE l == "app.idxunlock"
             c == call[p]
             h == [db[p] EXCEPT !.idxoff = Eof]
             o == Eof + 1
  <1>d. call[p].key \in Keys /\ KeyLen[call[p].key] \in Nat
    BY <1>1, CallFields, DbAssumption DEF ProcOK, OfStore, OnData, OnTail, Working, OnChain
  <1>e. Eof = NHash + Len(idx) + 1 /\ Eof \in Nat
    BY <1>2 DEF Eof, FIRST_REC
  <1> DEFINE r == IdxRec(call[p].key, KeyLen[call[p].key], db[p].datoff,
                         db[p].datlen, db[p].saveptr)
  <1>b. r \in IdxRecs /\ r.ptr \in Ptr(Len(idx)) /\ r.datoff \in 1 .. Len(dat)
    BY <1>1, <1>2, <1>d, SMTT(30) DEF ProcOK, IdxRecs, IdxRec, Handles
  <1>c. idx' = Append(idx, r)
    BY DEF AppIdx
  <1> HIDE DEF r
  <1>3. /\ h \in Handles
        /\ h.chainoff = db[p].chainoff
        /\ h.ptroff = db[p].ptroff /\ h.idxoff = Eof
        /\ h.offset = db[p].offset /\ h.datoff = db[p].datoff
        /\ h.ptrval = db[p].ptrval /\ h.saveptr = db[p].saveptr
    BY <1>1, <1>e DEF ProcOK, Handles
  <1>4. FilesOK(head', idx', dat') /\ Len(idx') = Len(idx) + 1 /\ Len(dat') = Len(dat)
    BY <1>b, <1>c, AppendRecOK DEF AppIdx, TypeInv
  <1>f. /\ Eof \in Ptr(Len(idx')) /\ o \in NHash + 1 .. NHash + 1 + Len(idx')
        /\ Ptr(Len(idx)) \subseteq Ptr(Len(idx')) /\ Eof # 0
        /\ 0 .. NHash + Len(idx) \subseteq 0 .. NHash + Len(idx')
    BY <1>2, <1>4, <1>e DEF Ptr
  <1> HIDE DEF h
  <1>5. ProcOK(l, c, h, o, Len(idx'), Len(dat'))
    BY <1>1, <1>2, <1>3, <1>4, <1>e, <1>f, SMTT(30)
       DEF ProcOK, Labels, Working, OnChain, OnFree, OnData, OnTail, OfStore, OfDelete
  <1>6. LocksOK'
    BY DEF LocksOK, TypeInv, AppIdx
  <1>7. /\ pc' = [pc EXCEPT ![p] = l] /\ call' = [call EXCEPT ![p] = c]
        /\ db' = [db EXCEPT ![p] = h] /\ pos' = [pos EXCEPT ![p] = o]
        /\ ncalls' \in 0 .. MaxCalls
    BY <1>1 DEF h, AppIdx, Step, Goto, Handle, Seek, TypeInv
  <1>8. FilesOK(head', idx', dat') /\ Len(idx) <= Len(idx') /\ Len(dat) <= Len(dat')
    BY <1>2, <1>4
  <1> HIDE DEF l, c, h, o
  <1> QED BY <1>5, <1>6, <1>7, <1>8, OneProcess

(* The labels that a search can lead to. *)
LEMMA AfterMissLabel ==
  ASSUME NEW p \in Procs, call[p].f \in {"fetch", "delete", "store"}, AfterMiss(p)
  PROVE  \E l \in {"unlock", "ins.head"} :
            /\ pc' = [pc EXCEPT ![p] = l]
            /\ l = "ins.head" => call[p].f = "store"
  BY DEF AfterMiss, Goto

LEMMA AfterHitLabel ==
  ASSUME NEW p \in Procs, NEW o, call[p].f \in {"fetch", "delete", "store"},
         AfterHit(p, o)
  PROVE  \E l \in {"fetch.dat", "del.lock", "unlock", "rep.dat"} :
            /\ pc' = [pc EXCEPT ![p] = l]
            /\ l = "del.lock" => call[p].f \in {"store", "delete"}
            /\ l = "rep.dat" => call[p].f = "store"
  BY DEF AfterHit, Goto

LEMMA FindHeadType ==
  ASSUME TypeInv, NEW p \in Procs, FindHead(p) PROVE TypeInv'
  <1>1. ProcOK(pc[p], call[p], db[p], pos[p], Len(idx), Len(dat)) /\ pc[p] = "find.head"
    BY DEF TypeInv, FindHead, Step
  <1>2. Len(idx) \in Nat /\ Len(dat) \in Nat /\ NHash \in Nat \ {0}
    BY DbAssumption DEF TypeInv, FilesOK
  <1> DEFINE c == call[p]
             h == [db[p] EXCEPT !.offset = ReadPtr(db[p].ptroff)]
             o == 0
  <1>3. c.f \in {"fetch", "delete", "store"}
    BY <1>1 DEF ProcOK, Working, OnChain
  <1>a. /\ ReadPtr(db[p].ptroff) \in Ptr(Len(idx))
        /\ ReadPtr(db[p].ptroff) \in Nat
    BY <1>1, <1>2, ReadPtrOK DEF ProcOK
  <1>4. /\ h \in Handles
        /\ h.chainoff = db[p].chainoff
        /\ h.ptroff = db[p].ptroff /\ h.idxoff = db[p].idxoff
        /\ h.offset = ReadPtr(db[p].ptroff) /\ h.datoff = db[p].datoff
        /\ h.ptrval = db[p].ptrval /\ h.saveptr = db[p].saveptr
    BY <1>1, <1>a DEF ProcOK, Handles
  <1>5. PICK l \in {"unlock", "ins.head", "find.rec"} :
           /\ pc' = [pc EXCEPT ![p] = l]
           /\ l = "ins.head" => c.f = "store"
           /\ l = "find.rec" => h.offset # 0
    BY <1>3, <1>4, AfterMissLabel DEF FindHead, Goto
  <1>6. LocksOK' /\ UNCHANGED files /\ ncalls' \in 0 .. MaxCalls
    BY DEF LocksOK, files, TypeInv, FindHead
  <1>7. ProcOK(l, c, h, o, Len(idx), Len(dat))
    BY <1>1, <1>2, <1>3, <1>4, <1>5, <1>a, SMTT(30)
       DEF ProcOK, Ptr, Labels, Working, OnChain, OnFree, OnData, OnTail, OfStore, OfDelete
  <1>8. /\ call' = [call EXCEPT ![p] = c]
        /\ db' = [db EXCEPT ![p] = h] /\ pos' = [pos EXCEPT ![p] = o]
    BY DEF FindHead, Handle, Seek, TypeInv
  <1> HIDE DEF c, h, o
  <1> QED BY <1>5, <1>6, <1>7, <1>8, QuietFiles

LEMMA FindRecType ==
  ASSUME TypeInv, NEW p \in Procs, FindRec(p) PROVE TypeInv'
  <1>1. ProcOK(pc[p], call[p], db[p], pos[p], Len(idx), Len(dat)) /\ pc[p] = "find.rec"
    BY DEF TypeInv, FindRec, Step
  <1>2. Len(idx) \in Nat /\ Len(dat) \in Nat /\ NHash \in Nat \ {0}
    BY DbAssumption DEF TypeInv, FilesOK
  <1> DEFINE r == db[p].offset
             g == ReadIdx(p, r)
             c == call[p]
             o == r + 1
  <1>3. c.f \in {"fetch", "delete", "store"}
    BY <1>1 DEF ProcOK, Working, OnChain, OnFree
  <1>a. r \in Ptr(Len(idx)) /\ r # 0
    BY <1>1 DEF ProcOK
  <1>b. /\ Rec(r).ptr \in Ptr(Len(idx)) /\ Rec(r).ptr \in Nat
        /\ r \in Nat /\ o \in NHash + 1 .. NHash + 1 + Len(idx)
    BY <1>2, <1>a, RecOK DEF Ptr
  <1>4. /\ g \in Handles
        /\ g.chainoff = db[p].chainoff /\ g.ptroff = db[p].ptroff
        /\ g.offset = r /\ g.saveptr = db[p].saveptr
        /\ g.idxoff = r /\ g.ptrval = Rec(r).ptr
        /\ g.datoff \in 1 .. Len(dat)
    BY <1>a, ReadIdxOK
  <1>c. /\ c \in AllCalls /\ c # None /\ c \in AllCalls \cup {None}
        /\ db[p].chainoff \in 0 .. NHash
        /\ db[p].ptroff \in 0 .. NHash + Len(idx)
        /\ db[p].saveptr \in Ptr(Len(idx))
        /\ r \in 0 .. NHash + Len(idx)
        /\ 1 .. Len(dat) \subseteq 0 .. Len(dat)
        /\ \A x \in 1 .. Len(dat) : x # 0
    BY <1>1, <1>2, <1>a DEF ProcOK, Ptr, Working, OnChain, OnFree
  <1>d. pc[p] = "find.rec" /\ (pc[p] = "ff.rec" => c.f = "store")
    BY <1>1 DEF ProcOK, OfStore
  <1>6. LocksOK' /\ UNCHANGED files /\ ncalls' \in 0 .. MaxCalls
    BY DEF LocksOK, files, TypeInv, FindRec
  <1>7. CASE Rec(r).key = call[p].key /\ Handle(p, g) /\ AfterHit(p, r)
    <2>1. PICK l \in {"fetch.dat", "del.lock", "unlock", "rep.dat"} :
             /\ pc' = [pc EXCEPT ![p] = l]
             /\ l = "del.lock" => c.f \in {"store", "delete"}
             /\ l = "rep.dat" => c.f = "store"
      BY <1>3, <1>7, AfterHitLabel
    <2>2. ProcOK(l, c, g, o, Len(idx), Len(dat))
      <3> HIDE DEF g, c, o, r
      <3> QED BY <1>2, <1>3, <1>4, <1>a, <1>b, <1>c, <1>d, <2>1, SMTT(30)
          DEF ProcOK, Labels, Working, OnChain, OnFree, OnData, OnTail, OfStore, OfDelete
    <2>3. /\ call' = [call EXCEPT ![p] = c]
          /\ db' = [db EXCEPT ![p] = g] /\ pos' = [pos EXCEPT ![p] = o]
      BY <1>7 DEF FindRec, Handle, Seek, TypeInv
    <2> HIDE DEF c, g, o
    <2> QED BY <1>6, <2>1, <2>2, <2>3, QuietFiles
  <1>8. CASE /\ Rec(r).key # call[p].key
             /\ Handle(p, [g EXCEPT !.ptroff = r, !.offset = g.ptrval])
    <2> DEFINE h == [g EXCEPT !.ptroff = r, !.offset = g.ptrval]
    <2>1. /\ h \in Handles
          /\ h.chainoff = db[p].chainoff /\ h.ptroff = r
          /\ h.offset = Rec(r).ptr /\ h.saveptr = db[p].saveptr
          /\ h.idxoff = r /\ h.ptrval = Rec(r).ptr
          /\ h.datoff \in 1 .. Len(dat)
      <3> HIDE DEF g, r
      <3> QED BY <1>4, <1>b DEF Handles
    <2>2. PICK l \in {"unlock", "ins.head", "find.rec", "ff.rec", "ff.unlock"} :
             /\ pc' = [pc EXCEPT ![p] = l]
             /\ l = "ins.head" => c.f = "store"
             /\ l \in {"ff.rec", "ff.unlock"} => pc[p] = "ff.rec"
             /\ l \in {"find.rec", "ff.rec"} => h.offset # 0
             /\ l = "ff.unlock" => h.offset = 0
      <3>1. CASE g.ptrval = 0
        BY <1>1, <1>3, <1>4, <1>8, <2>1, <3>1, AfterMissLabel DEF FindRec, Goto
      <3>2. CASE g.ptrval # 0
        <4>1. pc' = pc /\ pc \in [Procs -> Labels]
          BY <1>1, <1>3, <1>8, <3>2 DEF FindRec, TypeInv
        <4> QED BY <1>1, <1>4, <2>1, <3>2, <4>1
      <3> QED BY <3>1, <3>2
    <2>3. ProcOK(l, c, h, o, Len(idx), Len(dat))
      <3> HIDE DEF h, g, c, o, r
      <3> QED BY <1>2, <1>3, <1>a, <1>b, <1>c, <1>d, <2>1, <2>2, SMTT(30)
          DEF ProcOK, Labels, Working, OnChain, OnFree, OnData, OnTail, OfStore, OfDelete
    <2>4. /\ call' = [call EXCEPT ![p] = c]
          /\ db' = [db EXCEPT ![p] = h] /\ pos' = [pos EXCEPT ![p] = o]
      BY <1>8 DEF FindRec, Handle, Seek, TypeInv
    <2> HIDE DEF c, h, o
    <2> QED BY <1>6, <2>2, <2>3, <2>4, QuietFiles
  <1> QED BY <1>7, <1>8 DEF FindRec

LEMMA FindFreeRecType ==
  ASSUME TypeInv, NEW p \in Procs, FindFreeRec(p) PROVE TypeInv'
  <1>1. ProcOK(pc[p], call[p], db[p], pos[p], Len(idx), Len(dat)) /\ pc[p] = "ff.rec"
    BY DEF TypeInv, FindFreeRec, Step
  <1>2. Len(idx) \in Nat /\ Len(dat) \in Nat /\ NHash \in Nat \ {0}
    BY DbAssumption DEF TypeInv, FilesOK
  <1> DEFINE r == db[p].offset
             g == ReadIdx(p, r)
             c == call[p]
             o == r + 1
  <1>3. c.f \in {"fetch", "delete", "store"}
    BY <1>1 DEF ProcOK, Working, OnChain, OnFree
  <1>a. r \in Ptr(Len(idx)) /\ r # 0
    BY <1>1 DEF ProcOK
  <1>b. /\ Rec(r).ptr \in Ptr(Len(idx)) /\ Rec(r).ptr \in Nat
        /\ r \in Nat /\ o \in NHash + 1 .. NHash + 1 + Len(idx)
    BY <1>2, <1>a, RecOK DEF Ptr
  <1>4. /\ g \in Handles
        /\ g.chainoff = db[p].chainoff /\ g.ptroff = db[p].ptroff
        /\ g.offset = r /\ g.saveptr = db[p].saveptr
        /\ g.idxoff = r /\ g.ptrval = Rec(r).ptr
        /\ g.datoff \in 1 .. Len(dat)
    BY <1>a, ReadIdxOK
  <1>c. /\ c \in AllCalls /\ c # None /\ c \in AllCalls \cup {None}
        /\ db[p].chainoff \in 0 .. NHash
        /\ db[p].ptroff \in 0 .. NHash + Len(idx)
        /\ db[p].saveptr \in Ptr(Len(idx))
        /\ r \in 0 .. NHash + Len(idx)
        /\ 1 .. Len(dat) \subseteq 0 .. Len(dat)
        /\ \A x \in 1 .. Len(dat) : x # 0
    BY <1>1, <1>2, <1>a DEF ProcOK, Ptr, Working, OnChain, OnFree
  <1>d. pc[p] = "ff.rec" /\ (pc[p] = "ff.rec" => c.f = "store")
    BY <1>1 DEF ProcOK, OfStore
  <1>6. LocksOK' /\ UNCHANGED files /\ ncalls' \in 0 .. MaxCalls
    BY DEF LocksOK, files, TypeInv, FindFreeRec
  <1>7. CASE Fits(p, Rec(r)) /\ Handle(p, g) /\ Goto(p, "ff.take")
    <2>1. PICK l \in {"ff.take"} :
             /\ pc' = [pc EXCEPT ![p] = l]
             /\ l = "del.lock" => c.f \in {"store", "delete"}
             /\ l = "rep.dat" => c.f = "store"
      BY <1>3, <1>7 DEF Goto
    <2>2. ProcOK(l, c, g, o, Len(idx), Len(dat))
      <3> HIDE DEF g, c, o, r
      <3> QED BY <1>2, <1>3, <1>4, <1>a, <1>b, <1>c, <1>d, <2>1
          DEF ProcOK, Labels, Working, OnChain, OnFree, OnData, OnTail, OfStore, OfDelete
    <2>3. /\ call' = [call EXCEPT ![p] = c]
          /\ db' = [db EXCEPT ![p] = g] /\ pos' = [pos EXCEPT ![p] = o]
      BY <1>7 DEF FindFreeRec, Handle, Seek, TypeInv
    <2> HIDE DEF c, g, o
    <2> QED BY <1>6, <2>1, <2>2, <2>3, QuietFiles
  <1>8. CASE /\ ~Fits(p, Rec(r))
             /\ Handle(p, [g EXCEPT !.ptroff = r, !.offset = g.ptrval])
    <2> DEFINE h == [g EXCEPT !.ptroff = r, !.offset = g.ptrval]
    <2>1. /\ h \in Handles
          /\ h.chainoff = db[p].chainoff /\ h.ptroff = r
          /\ h.offset = Rec(r).ptr /\ h.saveptr = db[p].saveptr
          /\ h.idxoff = r /\ h.ptrval = Rec(r).ptr
          /\ h.datoff \in 1 .. Len(dat)
      <3> HIDE DEF g, r
      <3> QED BY <1>4, <1>b DEF Handles
    <2>2. PICK l \in {"unlock", "ins.head", "find.rec", "ff.rec", "ff.unlock"} :
             /\ pc' = [pc EXCEPT ![p] = l]
             /\ l = "ins.head" => c.f = "store"
             /\ l \in {"ff.rec", "ff.unlock"} => pc[p] = "ff.rec"
             /\ l \in {"find.rec", "ff.rec"} => h.offset # 0
             /\ l = "ff.unlock" => h.offset = 0
      <3>1. CASE g.ptrval = 0
        BY <1>1, <1>3, <1>4, <1>8, <2>1, <3>1, AfterMissLabel DEF FindFreeRec, Goto
      <3>2. CASE g.ptrval # 0
        <4>1. pc' = pc /\ pc \in [Procs -> Labels]
          BY <1>1, <1>3, <1>8, <3>2 DEF FindFreeRec, TypeInv
        <4> QED BY <1>1, <1>4, <2>1, <3>2, <4>1
      <3> QED BY <3>1, <3>2
    <2>3. ProcOK(l, c, h, o, Len(idx), Len(dat))
      <3> HIDE DEF h, g, c, o, r
      <3> QED BY <1>2, <1>3, <1>a, <1>b, <1>c, <1>d, <2>1, <2>2
          DEF ProcOK, Labels, Working, OnChain, OnFree, OnData, OnTail, OfStore, OfDelete
    <2>4. /\ call' = [call EXCEPT ![p] = c]
          /\ db' = [db EXCEPT ![p] = h] /\ pos' = [pos EXCEPT ![p] = o]
      BY <1>8 DEF FindFreeRec, Handle, Seek, TypeInv
    <2> HIDE DEF c, h, o
    <2> QED BY <1>6, <2>2, <2>3, <2>4, QuietFiles
  <1> QED BY <1>7, <1>8 DEF FindFreeRec

LEMMA InitTypeInv == Init => TypeInv
  <1> SUFFICES ASSUME Init PROVE TypeInv
    OBVIOUS
  <1>1. FilesOK(head, idx, dat) /\ Len(idx) = 0 /\ Len(dat) = 0
    BY DbAssumption DEF Init, FilesOK, IdxRecs, Ptr
  <1>2. ASSUME NEW p \in Procs PROVE ProcOK("idle", None, Clear, FIRST_REC, 0, 0)
    BY DbAssumption, ClearOK DEF FIRST_REC
  <1>3. /\ pc \in [Procs -> Labels] /\ call \in [Procs -> AllCalls \cup {None}]
        /\ db \in [Procs -> Handles] /\ pos \in [Procs -> Nat]
    BY <1>2 DEF Init, ProcOK
  <1>4. LocksOK /\ ncalls \in 0 .. MaxCalls
    BY DbAssumption DEF Init, LocksOK
  <1> QED BY <1>1, <1>2, <1>3, <1>4 DEF Init, TypeInv

LEMMA NextTypeInv == TypeInv /\ [Next]_vars => TypeInv'
  <1> SUFFICES ASSUME TypeInv, [Next]_vars PROVE TypeInv'
    OBVIOUS
  <1>1. CASE UNCHANGED vars
    BY <1>1 DEF vars, TypeInv, LocksOK
  <1>2. ASSUME NEW p \in Procs, Begin(p) \/ DbRewind(p) \/ Run(p) \/ Killed(p)
        PROVE  TypeInv'
    <2>1. CASE Find(p)
      BY <2>1, FindLockType, FindHeadType, FindRecType, FetchDatType DEF Find
    <2>2. CASE Delete(p)
      BY <2>2, DelLockType, DelDatType, DelFreeType, DelIdxType, DelSetHeadType, DelUnlinkType, DelUnlockType DEF Delete
    <2>3. CASE FindFree(p)
      BY <2>3, InsHeadType, FindFreeLockType, FindFreeHeadType, FindFreeRecType, FindFreeTakeType, FindFreeUnlockType DEF FindFree
    <2>4. CASE Write(p)
      BY <2>4, ReuseDatType, ReuseIdxType, ReplaceDatType, AppRereadType, AppDatLockType, AppDatType, AppDatUnlockType, AppIdxLockType, AppIdxType, AppIdxUnlockType, LinkType DEF Write
    <2>5. CASE Scan(p)
      BY <2>5, ScanLockType, ScanEofType, ScanSkipType, ScanRecType, ScanDumpType, ScanDatType, ScanUnlockType DEF Scan
    <2> QED BY <1>2, <2>1, <2>2, <2>3, <2>4, <2>5, BeginType, DbRewindType,
               ReturnType, KilledType DEF Run
  <1> QED BY <1>1, <1>2 DEF Next

(* In every reachable state of any database the files, the locks and the   *)
(* handles have their types.                                               *)
THEOREM Typed == Spec => []TypeOK
  <1>1. TypeInv => TypeOK
    BY TypeInvImplies
  <1> QED BY <1>1, InitTypeInv, NextTypeInv, PTL DEF Spec

(* No pointer of the index file, and no offset that a process has read and *)
(* is about to use, leads outside the files, whatever the interleaving and *)
(* wherever processes are killed.                                          *)
THEOREM PointersStayValid == Spec => []PointersValid
  <1>1. TypeInv => PointersValid
    BY TypeInvImplies
  <1> QED BY <1>1, InitTypeInv, NextTypeInv, PTL DEF Spec

-----------------------------------------------------------------------------
(* The locking protocol excludes what it must. *)

Chained == OnChain \cup OnFree \cup OnData \cup OnTail

(* fcntl's record locks: a writer is alone. *)
WriterAlone(R, W) ==
  \A l \in Locks : \A p \in Procs : p \in W[l] => W[l] = {p} /\ R[l] = {}

(* A process at label l, in a call f on chain c, holds what it needs. *)
Covered(p, l, f, c, R, W) ==
  /\ l \in Chained => /\ c \in Chains
                      /\ IF f = "fetch" THEN p \in R[c] ELSE p \in W[c]
  /\ l \in OnFree => p \in W[FREE_OFF]
  /\ l \in OnData => p \in W[DatLock]
  /\ l \in OnTail => p \in W[TailLock]
  /\ l \in Scanning => p \in R[FREE_OFF]

LockInv ==
  /\ WriterAlone(rd, wr)
  /\ \A p \in Procs : Covered(p, pc[p], call[p].f, db[p].chainoff, rd, wr)

LEMMA LockInvImplies == TypeInv /\ LockInv => Exclusion
  <1> SUFFICES ASSUME TypeInv, LockInv, NEW p \in Procs, NEW q \in Procs, p # q
               PROVE  /\ InChain(p) /\ InChain(q) /\ db[p].chainoff = db[q].chainoff
                           => call[p].f = "fetch" /\ call[q].f = "fetch"
                      /\ pc[p] \in OnFree => pc[q] \notin OnFree \cup Scanning
                      /\ pc[p] \in OnData => pc[q] \notin OnData
                      /\ pc[p] \in OnTail => pc[q] \notin OnTail
    BY DEF Exclusion
  <1>1. /\ Covered(p, pc[p], call[p].f, db[p].chainoff, rd, wr)
        /\ Covered(q, pc[q], call[q].f, db[q].chainoff, rd, wr)
    BY DEF LockInv
  <1>2. \A l \in Locks : /\ p \in wr[l] => q \notin wr[l] /\ q \notin rd[l]
                         /\ q \in wr[l] => p \notin wr[l] /\ p \notin rd[l]
    BY DEF LockInv, WriterAlone
  <1> QED BY <1>1, <1>2, LockNames DEF Covered, InChain, Chained

LEMMA InitLockInv == Init => LockInv
  BY DEF Init, LockInv, WriterAlone, Covered, Chained, OnChain, OnFree, OnData,
         OnTail, Scanning

-----------------------------------------------------------------------------
(* What a lock request of p does to the lock table. *)

Same(p, l) ==
  \A q \in Procs : \A m \in Locks : q # p \/ m # l =>
    (q \in rd'[m] <=> q \in rd[m]) /\ (q \in wr'[m] <=> q \in wr[m])

LEMMA WriteLockEffect ==
  ASSUME LocksOK, WriterAlone(rd, wr), NEW p \in Procs, NEW l \in Locks,
         WriteLock(p, l)
  PROVE  WriterAlone(rd, wr)' /\ Same(p, l) /\ p \in wr'[l]
  BY DEF LocksOK, WriterAlone, WriteLock, CanWrite, Same

LEMMA ReadLockEffect ==
  ASSUME LocksOK, WriterAlone(rd, wr), NEW p \in Procs, NEW l \in Locks,
         ReadLock(p, l)
  PROVE  WriterAlone(rd, wr)' /\ Same(p, l) /\ p \in rd'[l]
  BY DEF LocksOK, WriterAlone, ReadLock, CanRead, Same

LEMMA UnlockEffect ==
  ASSUME LocksOK, WriterAlone(rd, wr), NEW p \in Procs, NEW l \in Locks,
         Unlock(p, l)
  PROVE  WriterAlone(rd, wr)' /\ Same(p, l)
  BY DEF LocksOK, WriterAlone, Unlock, Same

-----------------------------------------------------------------------------
(* Lemmas about one step of one process. *)

LEMMA OneHolder ==
  ASSUME TypeInv, LockInv, NEW p \in Procs, NEW l \in Locks,
         NEW b, NEW c, NEW h,
         pc' = [pc EXCEPT ![p] = b], call' = [call EXCEPT ![p] = c],
         db' = [db EXCEPT ![p] = h],
         WriterAlone(rd, wr)', Same(p, l),
         Covered(p, b, c.f, h.chainoff, rd', wr')
  PROVE  LockInv'
  <1>1. ASSUME NEW q \in Procs
        PROVE  Covered(q, pc'[q], call'[q].f, db'[q].chainoff, rd', wr')
    <2>1. CASE q = p
      <3>1. pc'[q] = b /\ call'[q] = c /\ db'[q] = h
        BY <2>1 DEF TypeInv
      <3> QED BY <2>1, <3>1
    <2>2. CASE q # p
      <3>1. pc'[q] = pc[q] /\ call'[q] = call[q] /\ db'[q] = db[q]
        BY <2>2 DEF TypeInv
      <3>2. Covered(q, pc[q], call[q].f, db[q].chainoff, rd, wr)
        BY DEF LockInv
      <3>3. \A m \in Locks : (q \in rd'[m] <=> q \in rd[m]) /\ (q \in wr'[m] <=> q \in wr[m])
        BY <2>2 DEF Same
      <3> QED BY <3>1, <3>2, <3>3, LockNames DEF Covered
    <2> QED BY <2>1, <2>2
  <1> QED BY <1>1 DEF LockInv

(* A step that takes no lock, and whose new label needs none more. *)
LEMMA QuietLocks ==
  ASSUME TypeInv, LockInv, NEW p \in Procs, NEW b, NEW h,
         pc' = [pc EXCEPT ![p] = b], db' = [db EXCEPT ![p] = h],
         UNCHANGED <<rd, wr, call>>, h.chainoff = db[p].chainoff,
         b \in Chained => pc[p] \in Chained, b \in OnFree => pc[p] \in OnFree,
         b \in OnData => pc[p] \in OnData, b \in OnTail => pc[p] \in OnTail,
         b \in Scanning => pc[p] \in Scanning
  PROVE  LockInv'
  <1> DEFINE c == call[p]
  <1>1. call' = [call EXCEPT ![p] = c]
    BY DEF TypeInv
  <1>2. WriterAlone(rd, wr)' /\ Same(p, FREE_OFF)
    BY DEF LockInv, WriterAlone, Same
  <1>3. Covered(p, b, c.f, h.chainoff, rd', wr')
    BY DEF LockInv, Covered
  <1> HIDE DEF c
  <1> QED BY <1>1, <1>2, <1>3, LockNames, OneHolder

LEMMA ExitLocks ==
  ASSUME TypeInv, LockInv, NEW p \in Procs, Exit(p)
  PROVE  LockInv'
  <1>1. /\ pc' = [pc EXCEPT ![p] = "dead"] /\ call' = [call EXCEPT ![p] = None]
        /\ db' = [db EXCEPT ![p] = Clear]
    BY DEF Exit, Goto, Handle
  <1>2. \A l \in Locks : rd'[l] = rd[l] \ {p} /\ wr'[l] = wr[l] \ {p}
    BY DEF Exit
  <1>3. WriterAlone(rd, wr)'
    BY <1>2 DEF LockInv, WriterAlone
  <1>4. ASSUME NEW q \in Procs
        PROVE  Covered(q, pc'[q], call'[q].f, db'[q].chainoff, rd', wr')
    <2>1. CASE q = p
      <3>1. pc'[q] = "dead"
        BY <1>1, <2>1 DEF TypeInv
      <3> QED BY <3>1 DEF Covered, Chained, OnChain, OnFree, OnData, OnTail, Scanning
    <2>2. CASE q # p
      <3>1. pc'[q] = pc[q] /\ call'[q] = call[q] /\ db'[q] = db[q]
        BY <1>1, <2>2 DEF TypeInv
      <3>2. Covered(q, pc[q], call[q].f, db[q].chainoff, rd, wr)
        BY DEF LockInv
      <3>3. \A m \in Locks : (q \in rd'[m] <=> q \in rd[m]) /\ (q \in wr'[m] <=> q \in wr[m])
        BY <1>2, <2>2
      <3> QED BY <3>1, <3>2, <3>3, LockNames DEF Covered
    <2> QED BY <2>1, <2>2
  <1> QED BY <1>3, <1>4 DEF LockInv

LEMMA WritePtrLocks ==
  ASSUME TypeInv, LockInv, NEW p \in Procs, NEW o, NEW v, NEW b, WritePtr(p, o, v, b),
         b \in Chained => pc[p] \in Chained, b \in OnFree => pc[p] \in OnFree,
         b \in OnData => pc[p] \in OnData, b \in OnTail => pc[p] \in OnTail,
         b \in Scanning => pc[p] \in Scanning
  PROVE  LockInv'
  <1>1. CASE Exit(p)
    BY <1>1, ExitLocks
  <1>2. CASE Goto(p, b) /\ UNCHANGED <<rd, wr, call, db>>
    <2> DEFINE h == db[p]
    <2>1. pc' = [pc EXCEPT ![p] = b] /\ db' = [db EXCEPT ![p] = h]
          /\ UNCHANGED <<rd, wr, call>> /\ h.chainoff = db[p].chainoff
      BY <1>2 DEF Goto, TypeInv
    <2> HIDE DEF h
    <2> QED BY <2>1, QuietLocks
  <1> QED BY <1>1, <1>2 DEF WritePtr

-----------------------------------------------------------------------------
(* The steps. *)

LEMMA FetchDatLocks ==
  ASSUME TypeInv, LockInv, NEW p \in Procs, FetchDat(p) PROVE LockInv'
  <1> DEFINE b == "unlock"
             h == db[p]
  <1>1. pc[p] = "fetch.dat"
    BY DEF FetchDat, Step
  <1>2. /\ pc' = [pc EXCEPT ![p] = b] /\ db' = [db EXCEPT ![p] = h]
        /\ UNCHANGED <<rd, wr, call>>
    BY <1>1 DEF FetchDat, Step, Goto, Handle, TypeInv
  <1>3. h.chainoff = db[p].chainoff
    OBVIOUS
  <1>4. /\ b \in Chained => pc[p] \in Chained
        /\ b \in OnFree => pc[p] \in OnFree
        /\ b \in OnData => pc[p] \in OnData
        /\ b \in OnTail => pc[p] \in OnTail
        /\ b \in Scanning => pc[p] \in Scanning
    BY <1>1 DEF Chained, OnChain, OnFree, OnData, OnTail, Scanning
  <1> HIDE DEF b, h
  <1> QED BY <1>2, <1>3, <1>4, QuietLocks

LEMMA DelDatLocks ==
  ASSUME TypeInv, LockInv, NEW p \in Procs, DelDat(p) PROVE LockInv'
  <1> DEFINE b == "del.free"
             h == db[p]
  <1>1. pc[p] = "del.dat"
    BY DEF DelDat, Step
  <1>2. /\ pc' = [pc EXCEPT ![p] = b] /\ db' = [db EXCEPT ![p] = h]
        /\ UNCHANGED <<rd, wr, call>>
    BY <1>1 DEF DelDat, Step, Goto, Handle, TypeInv
  <1>3. h.chainoff = db[p].chainoff
    OBVIOUS
  <1>4. /\ b \in Chained => pc[p] \in Chained
        /\ b \in OnFree => pc[p] \in OnFree
        /\ b \in OnData => pc[p] \in OnData
        /\ b \in OnTail => pc[p] \in OnTail
        /\ b \in Scanning => pc[p] \in Scanning
    BY <1>1 DEF Chained, OnChain, OnFree, OnData, OnTail, Scanning
  <1> HIDE DEF b, h
  <1> QED BY <1>2, <1>3, <1>4, QuietLocks

LEMMA DelFreeLocks ==
  ASSUME TypeInv, LockInv, NEW p \in Procs, DelFree(p) PROVE LockInv'
  <1> DEFINE b == "del.idx"
             h == [db[p] EXCEPT !.saveptr = db[p].ptrval, !.ptrval = ReadPtr(FREE_OFF)]
  <1>1. pc[p] = "del.free"
    BY DEF DelFree, Step
  <1>2. /\ pc' = [pc EXCEPT ![p] = b] /\ db' = [db EXCEPT ![p] = h]
        /\ UNCHANGED <<rd, wr, call>>
    BY <1>1 DEF DelFree, Step, Goto, Handle, TypeInv
  <1>3. h.chainoff = db[p].chainoff
    BY DEF TypeInv, Handles
  <1>4. /\ b \in Chained => pc[p] \in Chained
        /\ b \in OnFree => pc[p] \in OnFree
        /\ b \in OnData => pc[p] \in OnData
        /\ b \in OnTail => pc[p] \in OnTail
        /\ b \in Scanning => pc[p] \in Scanning
    BY <1>1 DEF Chained, OnChain, OnFree, OnData, OnTail, Scanning
  <1> HIDE DEF b, h
  <1> QED BY <1>2, <1>3, <1>4, QuietLocks

LEMMA DelIdxLocks ==
  ASSUME TypeInv, LockInv, NEW p \in Procs, DelIdx(p) PROVE LockInv'
  <1> DEFINE b == "del.sethead"
             h == db[p]
  <1>1. pc[p] = "del.idx"
    BY DEF DelIdx, Step
  <1>2. /\ pc' = [pc EXCEPT ![p] = b] /\ db' = [db EXCEPT ![p] = h]
        /\ UNCHANGED <<rd, wr, call>>
    BY <1>1 DEF DelIdx, Step, Goto, Handle, TypeInv
  <1>3. h.chainoff = db[p].chainoff
    OBVIOUS
  <1>4. /\ b \in Chained => pc[p] \in Chained
        /\ b \in OnFree => pc[p] \in OnFree
        /\ b \in OnData => pc[p] \in OnData
        /\ b \in OnTail => pc[p] \in OnTail
        /\ b \in Scanning => pc[p] \in Scanning
    BY <1>1 DEF Chained, OnChain, OnFree, OnData, OnTail, Scanning
  <1> HIDE DEF b, h
  <1> QED BY <1>2, <1>3, <1>4, QuietLocks

LEMMA InsHeadLocks ==
  ASSUME TypeInv, LockInv, NEW p \in Procs, InsHead(p) PROVE LockInv'
  <1> DEFINE b == "ff.lock"
             h == [db[p] EXCEPT !.saveptr = ReadPtr(db[p].chainoff)]
  <1>1. pc[p] = "ins.head"
    BY DEF InsHead, Step
  <1>2. /\ pc' = [pc EXCEPT ![p] = b] /\ db' = [db EXCEPT ![p] = h]
        /\ UNCHANGED <<rd, wr, call>>
    BY <1>1 DEF InsHead, Step, Goto, Handle, TypeInv
  <1>3. h.chainoff = db[p].chainoff
    BY DEF TypeInv, Handles
  <1>4. /\ b \in Chained => pc[p] \in Chained
        /\ b \in OnFree => pc[p] \in OnFree
        /\ b \in OnData => pc[p] \in OnData
        /\ b \in OnTail => pc[p] \in OnTail
        /\ b \in Scanning => pc[p] \in Scanning
    BY <1>1 DEF Chained, OnChain, OnFree, OnData, OnTail, Scanning
  <1> HIDE DEF b, h
  <1> QED BY <1>2, <1>3, <1>4, QuietLocks

LEMMA FindFreeHeadLocks ==
  ASSUME TypeInv, LockInv, NEW p \in Procs, FindFreeHead(p) PROVE LockInv'
  <1> DEFINE b == IF ReadPtr(FREE_OFF) = 0 THEN "ff.unlock" ELSE "ff.rec"
             h == [db[p] EXCEPT !.ptroff = FREE_OFF, !.offset = ReadPtr(FREE_OFF)]
  <1>1. pc[p] = "ff.head"
    BY DEF FindFreeHead, Step
  <1>2. /\ pc' = [pc EXCEPT ![p] = b] /\ db' = [db EXCEPT ![p] = h]
        /\ UNCHANGED <<rd, wr, call>>
    BY <1>1 DEF FindFreeHead, Step, Goto, Handle, TypeInv
  <1>3. h.chainoff = db[p].chainoff
    BY DEF TypeInv, Handles
  <1>4. /\ b \in Chained => pc[p] \in Chained
        /\ b \in OnFree => pc[p] \in OnFree
        /\ b \in OnData => pc[p] \in OnData
        /\ b \in OnTail => pc[p] \in OnTail
        /\ b \in Scanning => pc[p] \in Scanning
    BY <1>1 DEF Chained, OnChain, OnFree, OnData, OnTail, Scanning
  <1> HIDE DEF b, h
  <1> QED BY <1>2, <1>3, <1>4, QuietLocks

LEMMA ReuseDatLocks ==
  ASSUME TypeInv, LockInv, NEW p \in Procs, ReuseDat(p) PROVE LockInv'
  <1> DEFINE b == "reuse.idx"
             h == [db[p] EXCEPT !.datlen = DatLen[call[p].data]]
  <1>1. pc[p] = "reuse.dat"
    BY DEF ReuseDat, Step
  <1>2. /\ pc' = [pc EXCEPT ![p] = b] /\ db' = [db EXCEPT ![p] = h]
        /\ UNCHANGED <<rd, wr, call>>
    BY <1>1 DEF ReuseDat, Step, Goto, Handle, TypeInv
  <1>3. h.chainoff = db[p].chainoff
    BY DEF TypeInv, Handles
  <1>4. /\ b \in Chained => pc[p] \in Chained
        /\ b \in OnFree => pc[p] \in OnFree
        /\ b \in OnData => pc[p] \in OnData
        /\ b \in OnTail => pc[p] \in OnTail
        /\ b \in Scanning => pc[p] \in Scanning
    BY <1>1 DEF Chained, OnChain, OnFree, OnData, OnTail, Scanning
  <1> HIDE DEF b, h
  <1> QED BY <1>2, <1>3, <1>4, QuietLocks

LEMMA ReuseIdxLocks ==
  ASSUME TypeInv, LockInv, NEW p \in Procs, ReuseIdx(p) PROVE LockInv'
  <1> DEFINE b == "link"
             h == db[p]
  <1>1. pc[p] = "reuse.idx"
    BY DEF ReuseIdx, Step
  <1>2. /\ pc' = [pc EXCEPT ![p] = b] /\ db' = [db EXCEPT ![p] = h]
        /\ UNCHANGED <<rd, wr, call>>
    BY <1>1 DEF ReuseIdx, Step, Goto, Handle, TypeInv
  <1>3. h.chainoff = db[p].chainoff
    OBVIOUS
  <1>4. /\ b \in Chained => pc[p] \in Chained
        /\ b \in OnFree => pc[p] \in OnFree
        /\ b \in OnData => pc[p] \in OnData
        /\ b \in OnTail => pc[p] \in OnTail
        /\ b \in Scanning => pc[p] \in Scanning
    BY <1>1 DEF Chained, OnChain, OnFree, OnData, OnTail, Scanning
  <1> HIDE DEF b, h
  <1> QED BY <1>2, <1>3, <1>4, QuietLocks

LEMMA ReplaceDatLocks ==
  ASSUME TypeInv, LockInv, NEW p \in Procs, ReplaceDat(p) PROVE LockInv'
  <1> DEFINE b == "unlock"
             h == db[p]
  <1>1. pc[p] = "rep.dat"
    BY DEF ReplaceDat, Step
  <1>2. /\ pc' = [pc EXCEPT ![p] = b] /\ db' = [db EXCEPT ![p] = h]
        /\ UNCHANGED <<rd, wr, call>>
    BY <1>1 DEF ReplaceDat, Step, Goto, Handle, TypeInv
  <1>3. h.chainoff = db[p].chainoff
    OBVIOUS
  <1>4. /\ b \in Chained => pc[p] \in Chained
        /\ b \in OnFree => pc[p] \in OnFree
        /\ b \in OnData => pc[p] \in OnData
        /\ b \in OnTail => pc[p] \in OnTail
        /\ b \in Scanning => pc[p] \in Scanning
    BY <1>1 DEF Chained, OnChain, OnFree, OnData, OnTail, Scanning
  <1> HIDE DEF b, h
  <1> QED BY <1>2, <1>3, <1>4, QuietLocks

LEMMA AppRereadLocks ==
  ASSUME TypeInv, LockInv, NEW p \in Procs, AppReread(p) PROVE LockInv'
  <1> DEFINE b == "app.datlock"
             h == [db[p] EXCEPT !.saveptr = ReadPtr(db[p].chainoff)]
  <1>1. pc[p] = "app.reread"
    BY DEF AppReread, Step
  <1>2. /\ pc' = [pc EXCEPT ![p] = b] /\ db' = [db EXCEPT ![p] = h]
        /\ UNCHANGED <<rd, wr, call>>
    BY <1>1 DEF AppReread, Step, Goto, Handle, TypeInv
  <1>3. h.chainoff = db[p].chainoff
    BY DEF TypeInv, Handles
  <1>4. /\ b \in Chained => pc[p] \in Chained
        /\ b \in OnFree => pc[p] \in OnFree
        /\ b \in OnData => pc[p] \in OnData
        /\ b \in OnTail => pc[p] \in OnTail
        /\ b \in Scanning => pc[p] \in Scanning
    BY <1>1 DEF Chained, OnChain, OnFree, OnData, OnTail, Scanning
  <1> HIDE DEF b, h
  <1> QED BY <1>2, <1>3, <1>4, QuietLocks

LEMMA AppDatLocks ==
  ASSUME TypeInv, LockInv, NEW p \in Procs, AppDat(p) PROVE LockInv'
  <1> DEFINE b == "app.datunlock"
             h == [db[p] EXCEPT !.datoff = Len(dat) + 1, !.datlen = DatLen[call[p].data]]
  <1>1. pc[p] = "app.dat"
    BY DEF AppDat, Step
  <1>2. /\ pc' = [pc EXCEPT ![p] = b] /\ db' = [db EXCEPT ![p] = h]
        /\ UNCHANGED <<rd, wr, call>>
    BY <1>1 DEF AppDat, Step, Goto, Handle, TypeInv
  <1>3. h.chainoff = db[p].chainoff
    BY DEF TypeInv, Handles
  <1>4. /\ b \in Chained => pc[p] \in Chained
        /\ b \in OnFree => pc[p] \in OnFree
        /\ b \in OnData => pc[p] \in OnData
        /\ b \in OnTail => pc[p] \in OnTail
        /\ b \in Scanning => pc[p] \in Scanning
    BY <1>1 DEF Chained, OnChain, OnFree, OnData, OnTail, Scanning
  <1> HIDE DEF b, h
  <1> QED BY <1>2, <1>3, <1>4, QuietLocks

LEMMA AppIdxLocks ==
  ASSUME TypeInv, LockInv, NEW p \in Procs, AppIdx(p) PROVE LockInv'
  <1> DEFINE b == "app.idxunlock"
             h == [db[p] EXCEPT !.idxoff = Eof]
  <1>1. pc[p] = "app.idx"
    BY DEF AppIdx, Step
  <1>2. /\ pc' = [pc EXCEPT ![p] = b] /\ db' = [db EXCEPT ![p] = h]
        /\ UNCHANGED <<rd, wr, call>>
    BY <1>1 DEF AppIdx, Step, Goto, Handle, TypeInv
  <1>3. h.chainoff = db[p].chainoff
    BY DEF TypeInv, Handles
  <1>4. /\ b \in Chained => pc[p] \in Chained
        /\ b \in OnFree => pc[p] \in OnFree
        /\ b \in OnData => pc[p] \in OnData
        /\ b \in OnTail => pc[p] \in OnTail
        /\ b \in Scanning => pc[p] \in Scanning
    BY <1>1 DEF Chained, OnChain, OnFree, OnData, OnTail, Scanning
  <1> HIDE DEF b, h
  <1> QED BY <1>2, <1>3, <1>4, QuietLocks

LEMMA ScanEofLocks ==
  ASSUME TypeInv, LockInv, NEW p \in Procs, ScanEof(p) PROVE LockInv'
  <1> DEFINE b == "scan.unlock"
             h == db[p]
  <1>1. pc[p] = "scan.rec"
    BY DEF ScanEof, Step
  <1>2. /\ pc' = [pc EXCEPT ![p] = b] /\ db' = [db EXCEPT ![p] = h]
        /\ UNCHANGED <<rd, wr, call>>
    BY <1>1 DEF ScanEof, Step, Goto, Handle, TypeInv
  <1>3. h.chainoff = db[p].chainoff
    OBVIOUS
  <1>4. /\ b \in Chained => pc[p] \in Chained
        /\ b \in OnFree => pc[p] \in OnFree
        /\ b \in OnData => pc[p] \in OnData
        /\ b \in OnTail => pc[p] \in OnTail
        /\ b \in Scanning => pc[p] \in Scanning
    BY <1>1 DEF Chained, OnChain, OnFree, OnData, OnTail, Scanning
  <1> HIDE DEF b, h
  <1> QED BY <1>2, <1>3, <1>4, QuietLocks

LEMMA ScanSkipLocks ==
  ASSUME TypeInv, LockInv, NEW p \in Procs, ScanSkip(p) PROVE LockInv'
  <1> DEFINE b == "scan.rec"
             h == db[p]
  <1>1. pc[p] = "scan.rec"
    BY DEF ScanSkip, Step
  <1>2. /\ pc' = [pc EXCEPT ![p] = b] /\ db' = [db EXCEPT ![p] = h]
        /\ UNCHANGED <<rd, wr, call>>
    BY <1>1 DEF ScanSkip, Step, Goto, Handle, TypeInv
  <1>3. h.chainoff = db[p].chainoff
    OBVIOUS
  <1>4. /\ b \in Chained => pc[p] \in Chained
        /\ b \in OnFree => pc[p] \in OnFree
        /\ b \in OnData => pc[p] \in OnData
        /\ b \in OnTail => pc[p] \in OnTail
        /\ b \in Scanning => pc[p] \in Scanning
    BY <1>1 DEF Chained, OnChain, OnFree, OnData, OnTail, Scanning
  <1> HIDE DEF b, h
  <1> QED BY <1>2, <1>3, <1>4, QuietLocks

LEMMA ScanDatLocks ==
  ASSUME TypeInv, LockInv, NEW p \in Procs, ScanDat(p) PROVE LockInv'
  <1> DEFINE b == "scan.unlock"
             h == db[p]
  <1>1. pc[p] = "scan.dat"
    BY DEF ScanDat, Step
  <1>2. /\ pc' = [pc EXCEPT ![p] = b] /\ db' = [db EXCEPT ![p] = h]
        /\ UNCHANGED <<rd, wr, call>>
    BY <1>1 DEF ScanDat, Step, Goto, Handle, TypeInv
  <1>3. h.chainoff = db[p].chainoff
    OBVIOUS
  <1>4. /\ b \in Chained => pc[p] \in Chained
        /\ b \in OnFree => pc[p] \in OnFree
        /\ b \in OnData => pc[p] \in OnData
        /\ b \in OnTail => pc[p] \in OnTail
        /\ b \in Scanning => pc[p] \in Scanning
    BY <1>1 DEF Chained, OnChain, OnFree, OnData, OnTail, Scanning
  <1> HIDE DEF b, h
  <1> QED BY <1>2, <1>3, <1>4, QuietLocks

LEMMA ReadIdxChain ==
  ASSUME TypeInv, NEW p \in Procs, NEW o
  PROVE  /\ ReadIdx(p, o).chainoff = db[p].chainoff
         /\ \A x, y : [ReadIdx(p, o) EXCEPT !.ptroff = x, !.offset = y].chainoff
                      = db[p].chainoff
  BY DEF TypeInv, Handles, ReadIdx

LEMMA ScanRecLocks ==
  ASSUME TypeInv, LockInv, NEW p \in Procs, ScanRec(p) PROVE LockInv'
  <1> DEFINE b == "scan.dat"
             h == ReadIdx(p, pos[p])
  <1>1. pc[p] = "scan.rec"
    BY DEF ScanRec, Step
  <1>2. /\ pc' = [pc EXCEPT ![p] = b] /\ db' = [db EXCEPT ![p] = h]
        /\ UNCHANGED <<rd, wr, call>>
    BY <1>1 DEF ScanRec, Step, Goto, Handle, TypeInv
  <1>3. h.chainoff = db[p].chainoff
    BY ReadIdxChain
  <1>4. /\ b \in Chained => pc[p] \in Chained
        /\ b \in OnFree => pc[p] \in OnFree
        /\ b \in OnData => pc[p] \in OnData
        /\ b \in OnTail => pc[p] \in OnTail
        /\ b \in Scanning => pc[p] \in Scanning
    BY <1>1 DEF Chained, OnChain, OnFree, OnData, OnTail, Scanning
  <1> HIDE DEF b, h
  <1> QED BY <1>2, <1>3, <1>4, QuietLocks

LEMMA DelSetHeadLocks ==
  ASSUME TypeInv, LockInv, NEW p \in Procs, DelSetHead(p) PROVE LockInv'
  <1>1. pc[p] = "del.sethead"
    BY DEF DelSetHead
  <1>2. /\ pc[p] \in Chained /\ "del.unlink" \notin OnData \cup OnTail \cup Scanning
        /\ "del.unlink" \in OnFree => pc[p] \in OnFree
    BY <1>1 DEF Chained, OnChain, OnFree, OnData, OnTail, Scanning
  <1> QED BY <1>2, WritePtrLocks DEF DelSetHead

LEMMA DelUnlinkLocks ==
  ASSUME TypeInv, LockInv, NEW p \in Procs, DelUnlink(p) PROVE LockInv'
  <1>1. pc[p] = "del.unlink"
    BY DEF DelUnlink
  <1>2. /\ pc[p] \in Chained /\ "del.unlock" \notin OnData \cup OnTail \cup Scanning
        /\ "del.unlock" \in OnFree => pc[p] \in OnFree
    BY <1>1 DEF Chained, OnChain, OnFree, OnData, OnTail, Scanning
  <1> QED BY <1>2, WritePtrLocks DEF DelUnlink

LEMMA FindFreeTakeLocks ==
  ASSUME TypeInv, LockInv, NEW p \in Procs, FindFreeTake(p) PROVE LockInv'
  <1>1. pc[p] = "ff.take"
    BY DEF FindFreeTake
  <1>2. /\ pc[p] \in Chained /\ "ff.unlock" \notin OnData \cup OnTail \cup Scanning
        /\ "ff.unlock" \in OnFree => pc[p] \in OnFree
    BY <1>1 DEF Chained, OnChain, OnFree, OnData, OnTail, Scanning
  <1> QED BY <1>2, WritePtrLocks DEF FindFreeTake

LEMMA LinkLocks ==
  ASSUME TypeInv, LockInv, NEW p \in Procs, Link(p) PROVE LockInv'
  <1>1. pc[p] = "link"
    BY DEF Link
  <1>2. /\ pc[p] \in Chained /\ "unlock" \notin OnData \cup OnTail \cup Scanning
        /\ "unlock" \in OnFree => pc[p] \in OnFree
    BY <1>1 DEF Chained, OnChain, OnFree, OnData, OnTail, Scanning
  <1> QED BY <1>2, WritePtrLocks DEF Link

LEMMA LockDistinct ==
  /\ FREE_OFF # TailLock /\ FREE_OFF # DatLock /\ TailLock # DatLock
  /\ \A c \in Chains : c # FREE_OFF /\ c # TailLock /\ c # DatLock
  BY DbAssumption DEF FREE_OFF, TailLock, DatLock, Chains

LEMMA DelUnlockLocks ==
  ASSUME TypeInv, LockInv, NEW p \in Procs, DelUnlock(p) PROVE LockInv'
  <1> DEFINE b == IF call[p].f = "store" THEN "app.reread" ELSE "unlock"
             c == call[p]
             h == db[p]
  <1>1. pc[p] = "del.unlock" /\ Covered(p, pc[p], call[p].f, db[p].chainoff, rd, wr)
    BY DEF DelUnlock, Step, LockInv
  <1>2. /\ pc' = [pc EXCEPT ![p] = b] /\ call' = [call EXCEPT ![p] = c]
        /\ db' = [db EXCEPT ![p] = h]
    BY DEF DelUnlock, Step, Goto, Handle, TypeInv
  <1>4. WriterAlone(rd, wr)' /\ Same(p, FREE_OFF)
    BY LockNames, UnlockEffect DEF DelUnlock, TypeInv, LockInv
  <1>5. Covered(p, b, c.f, h.chainoff, rd', wr')
    BY <1>1, <1>4, LockNames, LockDistinct
       DEF Covered, Same, Chained, OnChain, OnFree, OnData, OnTail, Scanning
  <1> HIDE DEF b, c, h
  <1> QED BY <1>2, <1>4, <1>5, LockNames, OneHolder

LEMMA FindFreeUnlockLocks ==
  ASSUME TypeInv, LockInv, NEW p \in Procs, FindFreeUnlock(p) PROVE LockInv'
  <1> DEFINE b == IF db[p].offset = 0 THEN "app.datlock" ELSE "reuse.dat"
             c == call[p]
             h == db[p]
  <1>1. pc[p] = "ff.unlock" /\ Covered(p, pc[p], call[p].f, db[p].chainoff, rd, wr)
    BY DEF FindFreeUnlock, Step, LockInv
  <1>2. /\ pc' = [pc EXCEPT ![p] = b] /\ call' = [call EXCEPT ![p] = c]
        /\ db' = [db EXCEPT ![p] = h]
    BY DEF FindFreeUnlock, Step, Goto, Handle, TypeInv
  <1>4. WriterAlone(rd, wr)' /\ Same(p, FREE_OFF)
    BY LockNames, UnlockEffect DEF FindFreeUnlock, TypeInv, LockInv
  <1>5. Covered(p, b, c.f, h.chainoff, rd', wr')
    BY <1>1, <1>4, LockNames, LockDistinct
       DEF Covered, Same, Chained, OnChain, OnFree, OnData, OnTail, Scanning
  <1> HIDE DEF b, c, h
  <1> QED BY <1>2, <1>4, <1>5, LockNames, OneHolder

LEMMA DelLockLocks ==
  ASSUME TypeInv, LockInv, NEW p \in Procs, DelLock(p) PROVE LockInv'
  <1> DEFINE b == "del.dat"
             c == call[p]
             h == db[p]
  <1>1. pc[p] = "del.lock" /\ Covered(p, pc[p], call[p].f, db[p].chainoff, rd, wr)
    BY DEF DelLock, Step, LockInv
  <1>2. /\ pc' = [pc EXCEPT ![p] = b] /\ call' = [call EXCEPT ![p] = c]
        /\ db' = [db EXCEPT ![p] = h]
    BY DEF DelLock, Step, Goto, Handle, TypeInv
  <1>4. WriterAlone(rd, wr)' /\ Same(p, FREE_OFF) /\ p \in wr'[FREE_OFF]
    BY LockNames, WriteLockEffect DEF DelLock, TypeInv, LockInv
  <1>5. Covered(p, b, c.f, h.chainoff, rd', wr')
    BY <1>1, <1>4, LockNames, LockDistinct
       DEF Covered, Same, Chained, OnChain, OnFree, OnData, OnTail, Scanning
  <1> HIDE DEF b, c, h
  <1> QED BY <1>2, <1>4, <1>5, LockNames, OneHolder

LEMMA FindFreeLockLocks ==
  ASSUME TypeInv, LockInv, NEW p \in Procs, FindFreeLock(p) PROVE LockInv'
  <1> DEFINE b == "ff.head"
             c == call[p]
             h == db[p]
  <1>1. pc[p] = "ff.lock" /\ Covered(p, pc[p], call[p].f, db[p].chainoff, rd, wr)
    BY DEF FindFreeLock, Step, LockInv
  <1>2. /\ pc' = [pc EXCEPT ![p] = b] /\ call' = [call EXCEPT ![p] = c]
        /\ db' = [db EXCEPT ![p] = h]
    BY DEF FindFreeLock, Step, Goto, Handle, TypeInv
  <1>4. WriterAlone(rd, wr)' /\ Same(p, FREE_OFF) /\ p \in wr'[FREE_OFF]
    BY LockNames, WriteLockEffect DEF FindFreeLock, TypeInv, LockInv
  <1>5. Covered(p, b, c.f, h.chainoff, rd', wr')
    BY <1>1, <1>4, LockNames, LockDistinct
       DEF Covered, Same, Chained, OnChain, OnFree, OnData, OnTail, Scanning
  <1> HIDE DEF b, c, h
  <1> QED BY <1>2, <1>4, <1>5, LockNames, OneHolder

LEMMA AppDatLockLocks ==
  ASSUME TypeInv, LockInv, NEW p \in Procs, AppDatLock(p) PROVE LockInv'
  <1> DEFINE b == "app.dat"
             c == call[p]
             h == db[p]
  <1>1. pc[p] = "app.datlock" /\ Covered(p, pc[p], call[p].f, db[p].chainoff, rd, wr)
    BY DEF AppDatLock, Step, LockInv
  <1>2. /\ pc' = [pc EXCEPT ![p] = b] /\ call' = [call EXCEPT ![p] = c]
        /\ db' = [db EXCEPT ![p] = h]
    BY DEF AppDatLock, Step, Goto, Handle, TypeInv
  <1>4. WriterAlone(rd, wr)' /\ Same(p, DatLock) /\ p \in wr'[DatLock]
    BY LockNames, WriteLockEffect DEF AppDatLock, TypeInv, LockInv
  <1>5. Covered(p, b, c.f, h.chainoff, rd', wr')
    BY <1>1, <1>4, LockNames, LockDistinct
       DEF Covered, Same, Chained, OnChain, OnFree, OnData, OnTail, Scanning
  <1> HIDE DEF b, c, h
  <1> QED BY <1>2, <1>4, <1>5, LockNames, OneHolder

LEMMA AppDatUnlockLocks ==
  ASSUME TypeInv, LockInv, NEW p \in Procs, AppDatUnlock(p) PROVE LockInv'
  <1> DEFINE b == "app.idxlock"
             c == call[p]
             h == db[p]
  <1>1. pc[p] = "app.datunlock" /\ Covered(p, pc[p], call[p].f, db[p].chainoff, rd, wr)
    BY DEF AppDatUnlock, Step, LockInv
  <1>2. /\ pc' = [pc EXCEPT ![p] = b] /\ call' = [call EXCEPT ![p] = c]
        /\ db' = [db EXCEPT ![p] = h]
    BY DEF AppDatUnlock, Step, Goto, Handle, TypeInv
  <1>4. WriterAlone(rd, wr)' /\ Same(p, DatLock)
    BY LockNames, UnlockEffect DEF AppDatUnlock, TypeInv, LockInv
  <1>5. Covered(p, b, c.f, h.chainoff, rd', wr')
    BY <1>1, <1>4, LockNames, LockDistinct
       DEF Covered, Same, Chained, OnChain, OnFree, OnData, OnTail, Scanning
  <1> HIDE DEF b, c, h
  <1> QED BY <1>2, <1>4, <1>5, LockNames, OneHolder

LEMMA AppIdxLockLocks ==
  ASSUME TypeInv, LockInv, NEW p \in Procs, AppIdxLock(p) PROVE LockInv'
  <1> DEFINE b == "app.idx"
             c == call[p]
             h == db[p]
  <1>1. pc[p] = "app.idxlock" /\ Covered(p, pc[p], call[p].f, db[p].chainoff, rd, wr)
    BY DEF AppIdxLock, Step, LockInv
  <1>2. /\ pc' = [pc EXCEPT ![p] = b] /\ call' = [call EXCEPT ![p] = c]
        /\ db' = [db EXCEPT ![p] = h]
    BY DEF AppIdxLock, Step, Goto, Handle, TypeInv
  <1>4. WriterAlone(rd, wr)' /\ Same(p, TailLock) /\ p \in wr'[TailLock]
    BY LockNames, WriteLockEffect DEF AppIdxLock, TypeInv, LockInv
  <1>5. Covered(p, b, c.f, h.chainoff, rd', wr')
    BY <1>1, <1>4, LockNames, LockDistinct
       DEF Covered, Same, Chained, OnChain, OnFree, OnData, OnTail, Scanning
  <1> HIDE DEF b, c, h
  <1> QED BY <1>2, <1>4, <1>5, LockNames, OneHolder

LEMMA AppIdxUnlockLocks ==
  ASSUME TypeInv, LockInv, NEW p \in Procs, AppIdxUnlock(p) PROVE LockInv'
  <1> DEFINE b == "link"
             c == call[p]
             h == db[p]
  <1>1. pc[p] = "app.idxunlock" /\ Covered(p, pc[p], call[p].f, db[p].chainoff, rd, wr)
    BY DEF AppIdxUnlock, Step, LockInv
  <1>2. /\ pc' = [pc EXCEPT ![p] = b] /\ call' = [call EXCEPT ![p] = c]
        /\ db' = [db EXCEPT ![p] = h]
    BY DEF AppIdxUnlock, Step, Goto, Handle, TypeInv
  <1>4. WriterAlone(rd, wr)' /\ Same(p, TailLock)
    BY LockNames, UnlockEffect DEF AppIdxUnlock, TypeInv, LockInv
  <1>5. Covered(p, b, c.f, h.chainoff, rd', wr')
    BY <1>1, <1>4, LockNames, LockDistinct
       DEF Covered, Same, Chained, OnChain, OnFree, OnData, OnTail, Scanning
  <1> HIDE DEF b, c, h
  <1> QED BY <1>2, <1>4, <1>5, LockNames, OneHolder

LEMMA ScanLockLocks ==
  ASSUME TypeInv, LockInv, NEW p \in Procs, ScanLock(p) PROVE LockInv'
  <1> DEFINE b == "scan.rec"
             c == call[p]
             h == db[p]
  <1>1. pc[p] = "scan.lock" /\ Covered(p, pc[p], call[p].f, db[p].chainoff, rd, wr)
    BY DEF ScanLock, Step, LockInv
  <1>2. /\ pc' = [pc EXCEPT ![p] = b] /\ call' = [call EXCEPT ![p] = c]
        /\ db' = [db EXCEPT ![p] = h]
    BY DEF ScanLock, Step, Goto, Handle, TypeInv
  <1>4. WriterAlone(rd, wr)' /\ Same(p, FREE_OFF) /\ p \in rd'[FREE_OFF]
    BY LockNames, ReadLockEffect DEF ScanLock, TypeInv, LockInv
  <1>5. Covered(p, b, c.f, h.chainoff, rd', wr')
    BY <1>1, <1>4, LockNames, LockDistinct
       DEF Covered, Same, Chained, OnChain, OnFree, OnData, OnTail, Scanning
  <1> HIDE DEF b, c, h
  <1> QED BY <1>2, <1>4, <1>5, LockNames, OneHolder

LEMMA ScanUnlockLocks ==
  ASSUME TypeInv, LockInv, NEW p \in Procs, ScanUnlock(p) PROVE LockInv'
  <1> DEFINE b == "idle"
             c == None
             h == Clear
  <1>1. pc[p] = "scan.unlock" /\ Covered(p, pc[p], call[p].f, db[p].chainoff, rd, wr)
    BY DEF ScanUnlock, Step, LockInv
  <1>2. /\ pc' = [pc EXCEPT ![p] = b] /\ call' = [call EXCEPT ![p] = c]
        /\ db' = [db EXCEPT ![p] = h]
    BY DEF ScanUnlock, Step, Goto, Handle, TypeInv
  <1>4. WriterAlone(rd, wr)' /\ Same(p, FREE_OFF)
    BY LockNames, UnlockEffect DEF ScanUnlock, TypeInv, LockInv
  <1>5. Covered(p, b, c.f, h.chainoff, rd', wr')
    BY <1>1, <1>4, LockNames, LockDistinct
       DEF Covered, Same, Chained, OnChain, OnFree, OnData, OnTail, Scanning
  <1> HIDE DEF b, c, h
  <1> QED BY <1>2, <1>4, <1>5, LockNames, OneHolder

LEMMA ReturnLocks ==
  ASSUME TypeInv, LockInv, NEW p \in Procs, Return(p) PROVE LockInv'
  <1> DEFINE b == "idle"
             c == None
             h == Clear
  <1>1. pc[p] = "unlock" /\ Covered(p, pc[p], call[p].f, db[p].chainoff, rd, wr)
    BY DEF Return, Step, LockInv
  <1>2. /\ pc' = [pc EXCEPT ![p] = b] /\ call' = [call EXCEPT ![p] = c]
        /\ db' = [db EXCEPT ![p] = h]
    BY DEF Return, Step, Goto, Handle, TypeInv
  <1>3. db[p].chainoff \in Locks
    BY <1>1, LockNames DEF Covered, Chained, OnChain
  <1>4. WriterAlone(rd, wr)' /\ Same(p, db[p].chainoff)
    BY <1>3, UnlockEffect DEF Return, TypeInv, LockInv
  <1>5. Covered(p, b, c.f, h.chainoff, rd', wr')
    BY <1>1, <1>4, LockNames, LockDistinct
       DEF Covered, Same, Chained, OnChain, OnFree, OnData, OnTail, Scanning
  <1> HIDE DEF b, c, h
  <1> QED BY <1>2, <1>3, <1>4, <1>5, OneHolder

LEMMA FindLockLocks ==
  ASSUME TypeInv, LockInv, NEW p \in Procs, FindLock(p) PROVE LockInv'
  <1> DEFINE k == Hash[call[p].key]
             c == call[p]
             h == [db[p] EXCEPT !.chainoff = k, !.ptroff = k]
  <1>1. /\ pc[p] = "find.lock" /\ h.chainoff = k
        /\ Covered(p, pc[p], call[p].f, db[p].chainoff, rd, wr)
    BY DEF FindLock, Step, LockInv, TypeInv, Handles
  <1>2. k \in Chains
    <2>1. ProcOK(pc[p], call[p], db[p], pos[p], Len(idx), Len(dat))
      BY DEF TypeInv
    <2> QED BY <1>1, <2>1, CallFields, DbAssumption DEF ProcOK, Working
  <1>3. /\ pc' = [pc EXCEPT ![p] = "find.head"] /\ call' = [call EXCEPT ![p] = c]
        /\ db' = [db EXCEPT ![p] = h]
    BY DEF FindLock, Step, Goto, Handle, TypeInv
  <1>4. WriterAlone(rd, wr)' /\ Same(p, k)
        /\ IF c.f = "fetch" THEN p \in rd'[k] ELSE p \in wr'[k]
    <2>1. CASE c.f = "fetch" /\ ReadLock(p, k)
      BY <1>2, <2>1, LockNames, ReadLockEffect DEF TypeInv, LockInv
    <2>2. CASE c.f # "fetch" /\ WriteLock(p, k)
      BY <1>2, <2>2, LockNames, WriteLockEffect DEF TypeInv, LockInv
    <2> QED BY <2>1, <2>2 DEF FindLock
  <1>5. Covered(p, "find.head", c.f, h.chainoff, rd', wr')
    BY <1>1, <1>2, <1>4 DEF Covered, OnFree, OnData, OnTail, Scanning
  <1>6. k \in Locks
    BY <1>2, LockNames
  <1> HIDE DEF c, h, k
  <1> QED BY <1>3, <1>4, <1>5, <1>6, OneHolder

LEMMA FindHeadLocks ==
  ASSUME TypeInv, LockInv, NEW p \in Procs, FindHead(p) PROVE LockInv'
  <1> DEFINE h == [db[p] EXCEPT !.offset = ReadPtr(db[p].ptroff)]
  <1>1. pc[p] = "find.head" /\ call[p].f \in {"fetch", "delete", "store"}
    BY DEF FindHead, TypeInv, ProcOK, Working, OnChain
  <1>2. PICK b \in {"unlock", "ins.head", "find.rec"} : pc' = [pc EXCEPT ![p] = b]
    BY <1>1, AfterMissLabel DEF FindHead, Goto
  <1>3. db' = [db EXCEPT ![p] = h] /\ UNCHANGED <<rd, wr, call>>
    BY DEF FindHead, Handle
  <1>4. h.chainoff = db[p].chainoff
    BY DEF TypeInv, Handles
  <1>5. pc[p] \in Chained /\ b \notin OnFree \cup OnData \cup OnTail \cup Scanning
    BY <1>1, <1>2 DEF Chained, OnChain, OnFree, OnData, OnTail, Scanning
  <1> HIDE DEF h
  <1> QED BY <1>2, <1>3, <1>4, <1>5, QuietLocks

LEMMA FindRecLocks ==
  ASSUME TypeInv, LockInv, NEW p \in Procs, FindRec(p) PROVE LockInv'
  <1> DEFINE r == db[p].offset
  <1>1. pc[p] = "find.rec" /\ call[p].f \in {"fetch", "delete", "store"}
    BY DEF FindRec, TypeInv, ProcOK, Working, OnChain
  <1>2. PICK b \in {"unlock", "ins.head", "find.rec", "fetch.dat", "del.lock", "rep.dat"} :
          pc' = [pc EXCEPT ![p] = b]
    <2>1. CASE AfterHit(p, r)
      BY <1>1, <2>1, AfterHitLabel
    <2>2. CASE AfterMiss(p)
      BY <1>1, <2>2, AfterMissLabel
    <2>3. CASE pc' = pc
      BY <1>1, <2>3 DEF TypeInv
    <2> QED BY <2>1, <2>2, <2>3 DEF FindRec
  <1>3. PICK h : /\ db' = [db EXCEPT ![p] = h]
                 /\ h.chainoff = db[p].chainoff
    <2> DEFINE o == db[p].offset
               g == ReadIdx(p, o)
               k == [g EXCEPT !.ptroff = o, !.offset = g.ptrval]
    <2>1. g.chainoff = db[p].chainoff /\ k.chainoff = db[p].chainoff
      BY ReadIdxChain
    <2>2. db' = [db EXCEPT ![p] = g] \/ db' = [db EXCEPT ![p] = k]
      BY DEF FindRec, Handle
    <2> HIDE DEF g, k
    <2> QED BY <2>1, <2>2
  <1>4. UNCHANGED <<rd, wr, call>>
    BY DEF FindRec
  <1>5. pc[p] \in Chained /\ b \notin OnFree \cup OnData \cup OnTail \cup Scanning
    BY <1>1, <1>2 DEF Chained, OnChain, OnFree, OnData, OnTail, Scanning
  <1> QED BY <1>2, <1>3, <1>4, <1>5, QuietLocks

LEMMA FindFreeRecLocks ==
  ASSUME TypeInv, LockInv, NEW p \in Procs, FindFreeRec(p) PROVE LockInv'
  <1>1. pc[p] = "ff.rec"
    BY DEF FindFreeRec
  <1>2. PICK b \in {"ff.take", "ff.unlock", "ff.rec"} : pc' = [pc EXCEPT ![p] = b]
    BY <1>1 DEF FindFreeRec, Goto, TypeInv
  <1>3. PICK h : /\ db' = [db EXCEPT ![p] = h]
                 /\ h.chainoff = db[p].chainoff
    <2> DEFINE o == db[p].offset
               g == ReadIdx(p, o)
               k == [g EXCEPT !.ptroff = o, !.offset = g.ptrval]
    <2>1. g.chainoff = db[p].chainoff /\ k.chainoff = db[p].chainoff
      BY ReadIdxChain
    <2>2. db' = [db EXCEPT ![p] = g] \/ db' = [db EXCEPT ![p] = k]
      BY DEF FindFreeRec, Handle
    <2> HIDE DEF g, k
    <2> QED BY <2>1, <2>2
  <1>4. UNCHANGED <<rd, wr, call>>
    BY DEF FindFreeRec
  <1>5. /\ pc[p] \in Chained /\ pc[p] \in OnFree
        /\ b \notin OnData \cup OnTail \cup Scanning
    BY <1>1, <1>2 DEF Chained, OnChain, OnFree, OnData, OnTail, Scanning
  <1> QED BY <1>2, <1>3, <1>4, <1>5, QuietLocks

LEMMA BeginLocks ==
  ASSUME TypeInv, LockInv, NEW p \in Procs, Begin(p) PROVE LockInv'
  <1>1. PICK c \in Calls[p], b \in {"scan.lock", "find.lock"} :
          call' = [call EXCEPT ![p] = c] /\ pc' = [pc EXCEPT ![p] = b]
    BY DEF Begin, Goto
  <1> DEFINE h == db[p]
  <1>2. db' = [db EXCEPT ![p] = h] /\ UNCHANGED <<rd, wr>>
    BY DEF Begin, TypeInv
  <1>3. WriterAlone(rd, wr)' /\ Same(p, FREE_OFF)
    BY <1>2 DEF LockInv, WriterAlone, Same
  <1>4. Covered(p, b, c.f, h.chainoff, rd', wr')
    BY <1>1 DEF Covered, Chained, OnChain, OnFree, OnData, OnTail, Scanning
  <1> HIDE DEF h
  <1> QED BY <1>1, <1>2, <1>3, <1>4, LockNames, OneHolder

LEMMA NextLockInv == TypeInv /\ LockInv /\ [Next]_vars => LockInv'
  <1> SUFFICES ASSUME TypeInv, LockInv, [Next]_vars PROVE LockInv'
    OBVIOUS
  <1>1. CASE UNCHANGED vars
    BY <1>1 DEF vars, LockInv, WriterAlone, Covered
  <1>2. ASSUME NEW p \in Procs, Begin(p) \/ DbRewind(p) \/ Run(p) \/ Killed(p)
        PROVE  LockInv'
    <2>1. CASE Find(p)
      BY <2>1, FindLockLocks, FindHeadLocks, FindRecLocks, FetchDatLocks DEF Find
    <2>2. CASE Delete(p)
      BY <2>2, DelLockLocks, DelDatLocks, DelFreeLocks, DelIdxLocks, DelSetHeadLocks, DelUnlinkLocks, DelUnlockLocks DEF Delete
    <2>3. CASE FindFree(p)
      BY <2>3, InsHeadLocks, FindFreeLockLocks, FindFreeHeadLocks, FindFreeRecLocks, FindFreeTakeLocks, FindFreeUnlockLocks DEF FindFree
    <2>4. CASE Write(p)
      BY <2>4, ReuseDatLocks, ReuseIdxLocks, ReplaceDatLocks, AppRereadLocks, AppDatLockLocks, AppDatLocks, AppDatUnlockLocks, AppIdxLockLocks, AppIdxLocks, AppIdxUnlockLocks, LinkLocks DEF Write
    <2>5. CASE Scan(p)
      BY <2>5, ScanLockLocks, ScanEofLocks, ScanSkipLocks, ScanRecLocks, ScanDatLocks, ScanUnlockLocks, ExitLocks DEF Scan, ScanDump
    <2>6. CASE DbRewind(p)
      BY <2>6 DEF DbRewind, LockInv, WriterAlone, Covered
    <2> QED BY <1>2, <2>1, <2>2, <2>3, <2>4, <2>5, <2>6, BeginLocks,
               ReturnLocks, ExitLocks DEF Run, Killed
  <1> QED BY <1>1, <1>2 DEF Next

(* The record locks of the library exclude what they must: no process      *)
(* walks a chain that another changes, the free list has one user, no scan *)
(* stands between an index record and its data while a record is erased,   *)
(* and one process at a time appends to a file; whatever calls are made    *)
(* and wherever processes are killed.                                      *)
THEOREM MutualExclusion == Spec => []Exclusion
  <1>1. TypeInv /\ LockInv => Exclusion
    BY LockInvImplies
  <1>2. Init => TypeInv /\ LockInv
    BY InitTypeInv, InitLockInv
  <1>3. TypeInv /\ LockInv /\ [Next]_vars => (TypeInv /\ LockInv)'
    BY NextTypeInv, NextLockInv
  <1> QED BY <1>1, <1>2, <1>3, PTL DEF Spec
=============================================================================
