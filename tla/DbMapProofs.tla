---------------------------- MODULE DbMapProofs ----------------------------
(***************************************************************************)
(* The database library is a map: what is stored under a key changes only  *)
(* by a store or a delete of that key, and every call takes effect at one  *)
(* instant, as DbMap says.                                                 *)
(***************************************************************************)
EXTENDS DbListProofs

-----------------------------------------------------------------------------
(* What a step writes, record by record.                                   *)

KeyWritten(p, x) ==
  \/ keyof'[x] = keyof[x]
  \/ pc[p] = "del.idx" /\ pc'[p] = "del.sethead" /\ x = db[p].idxoff /\ keyof'[x] = Blank
  \/ pc[p] = "reuse.idx" /\ pc'[p] = "link" /\ x = db[p].idxoff /\ keyof'[x] = call[p].key
ValWritten(p, x) ==
  \/ valof'[x] = valof[x]
  \/ pc[p] = "del.dat" /\ pc'[p] = "del.free" /\ x = db[p].idxoff
  \/ pc[p] = "reuse.dat" /\ pc'[p] = "reuse.idx" /\ x = db[p].idxoff
  \/ pc[p] = "rep.dat" /\ pc'[p] = "unlock" /\ x = db[p].idxoff
RecAdded(p, x) ==
  /\ pc[p] = "app.idx" /\ pc'[p] = "app.idxunlock" /\ x = db'[p].idxoff
  /\ keyof'[x] = call[p].key /\ valof'[x] = dat[db[p].datoff]
FilesChange(p) ==
  /\ AllRecs \subseteq AllRecs'
  /\ \A x \in AllRecs : KeyWritten(p, x) /\ ValWritten(p, x) /\ offof'[x] = offof[x]
  /\ \A x \in AllRecs' : x \in AllRecs \/ RecAdded(p, x)
  /\ \A d \in 1 .. Len(dat) : dat'[d] = dat[d] \/ \E x \in AllRecs : d = offof[x]
  /\ pc[p] \in {"reuse.dat", "rep.dat"} /\ pc'[p] # "dead" => valof'[db[p].idxoff] = call[p].data
  /\ pc[p] = "app.dat" /\ pc'[p] # "dead" => dat'[db'[p].datoff] = call[p].data
  /\ pc[p] = "app.idx" /\ pc'[p] # "dead" => db'[p].idxoff \in AllRecs' /\ RecAdded(p, db'[p].idxoff)

(* A step that leaves the files alone.                                     *)
LEMMA NothingWritten ==
  ASSUME NEW p \in Procs, UNCHANGED files,
         pc[p] \notin {"reuse.dat", "rep.dat", "app.dat", "app.idx"} \/ pc'[p] = "dead"
  PROVE  FilesChange(p)
  BY SameFiles DEF FilesChange, KeyWritten, ValWritten, files

(* A step that writes a pointer, or finds that it does not fit.            *)
LEMMA PointerWritten ==
  ASSUME TypeInv, NEW p \in Procs, NEW a \in Places, NEW v \in Nat, NEW l, WritePtr(p, a, v, l),
         pc[p] \notin {"reuse.dat", "rep.dat", "app.dat", "app.idx"}
  PROVE  FilesChange(p)
  <1>1. CASE v <= PtrMax
    <2>1. dat' = dat
      BY DbAssumption, <1>1 DEF WritePtr
    <2>2. AllRecs' = AllRecs /\ \A x \in AllRecs : keyof'[x] = keyof[x] /\ valof'[x] = valof[x] /\ offof'[x] = offof[x]
      BY <1>1, PtrWritten
    <2> QED BY <2>1, <2>2 DEF FilesChange, KeyWritten, ValWritten
  <1>2. CASE ~(v <= PtrMax)
    <2>1. UNCHANGED files
      BY <1>2 DEF WritePtr, files
    <2> QED BY <2>1, NothingWritten
  <1> QED BY <1>1, <1>2

(* The record and the data a process is about to write.                    *)
LEMMA OwnRecord ==
  ASSUME TypeInv, LockInv, NEW L, NEW R, ListState(L, R), NEW p \in Procs,
         pc[p] \in {"del.dat", "del.idx", "reuse.dat", "reuse.idx", "rep.dat"}
  PROVE  /\ db[p].idxoff \in AllRecs /\ db[p].datoff = offof[db[p].idxoff] /\ db[p].datoff \in 1 .. Len(dat)
         /\ pc[p] \in {"del.dat", "del.idx", "rep.dat"} =>
              /\ db[p].idxoff \in L[db[p].chainoff] \ {db[p].chainoff} /\ db[p].chainoff \in Chains
              /\ keyof[db[p].idxoff] = call[p].key
         /\ pc[p] \in {"reuse.dat", "reuse.idx"} => \A l \in Heads : db[p].idxoff \notin L[l]
  <1>1. Finds(p, L) /\ Holds(p, L)
    BY DEF ListState, Doing
  <1>2. db[p].datoff \in 1 .. Len(dat)
    BY HandleOf DEF UsesData
  <1>3. db[p].chainoff \in Chains /\ L[db[p].chainoff] \ {db[p].chainoff} \subseteq AllRecs
    BY Where DEF Writers
  <1> QED BY <1>1, <1>2, <1>3 DEF Finds, Holds, Holding

(* Writing the data of a record.                                           *)
LEMMA DataWritten ==
  ASSUME TypeInv, LockInv, NEW L, NEW R, ListState(L, R), NEW p \in Procs,
         pc[p] \in {"del.dat", "reuse.dat", "rep.dat"}, NEW v,
         dat' = [dat EXCEPT ![db[p].datoff] = v], idx' = idx, head' = head
  PROVE  /\ AllRecs' = AllRecs /\ valof'[db[p].idxoff] = v
         /\ \A x \in AllRecs : /\ keyof'[x] = keyof[x] /\ offof'[x] = offof[x]
                               /\ x # db[p].idxoff => valof'[x] = valof[x]
         /\ \A d \in 1 .. Len(dat) : dat'[d] = dat[d] \/ d = offof[db[p].idxoff]
  <1>1. db[p].idxoff \in AllRecs /\ db[p].datoff = offof[db[p].idxoff] /\ db[p].datoff \in 1 .. Len(dat)
    BY OwnRecord
  <1>2. /\ SameKeys /\ SameOffs
        /\ \A x \in AllRecs : valof'[x] = IF offof[x] = db[p].datoff THEN v ELSE valof[x]
    BY <1>1, SetDatEffect, ZenonT(30)
  <1>3. \A x \in AllRecs : offof[x] = db[p].datoff => x = db[p].idxoff
    BY <1>1 DEF ListState, Contents
  <1>4. dat \in Seq(Data \cup {Blank})
    BY DEF TypeInv, FilesOK
  <1>5. \A d \in 1 .. Len(dat) : dat'[d] = dat[d] \/ d = db[p].datoff
    BY <1>4
  <1> QED BY <1>1, <1>2, <1>3, <1>5 DEF SameKeys, SameOffs, AllRecs

(* What every step does to the files.                                      *)
LEMMA FilesDo ==
  ASSUME TypeInv, LockInv, NEW L, NEW R, ListState(L, R), NEW p \in Procs, Acts(p)
  PROVE  FilesChange(p)
  <1> DEFINE o == db[p].idxoff
  <1>1. CASE Find(p)
    <2>1. UNCHANGED files /\ pc[p] \in {"find.lock", "find.head", "find.rec", "fetch.dat"}
      BY <1>1, FindMoves
    <2> QED BY <2>1, NothingWritten
  <1>2. CASE DelLock(p) \/ DelFree(p) \/ DelUnlock(p)
    <2>1. UNCHANGED files /\ pc[p] \in {"del.lock", "del.free", "del.unlock"}
      BY <1>2 DEF DelLock, DelFree, DelUnlock, Step, files
    <2> QED BY <2>1, NothingWritten
  <1>3. CASE InsHead(p) \/ FindFreeLock(p) \/ FindFreeHead(p) \/ FindFreeRec(p) \/ FindFreeUnlock(p)
    <2>1. UNCHANGED files /\ pc[p] \in {"ins.head", "ff.lock", "ff.head", "ff.rec", "ff.unlock"}
      BY <1>3 DEF InsHead, FindFreeLock, FindFreeHead, FindFreeRec, FindFreeUnlock, Step, files
    <2> QED BY <2>1, NothingWritten
  <1>4. CASE AppReread(p) \/ AppDatLock(p) \/ AppDatUnlock(p) \/ AppIdxLock(p) \/ AppIdxUnlock(p)
    <2>1. UNCHANGED files /\ pc[p] \in {"app.reread", "app.datlock", "app.datunlock", "app.idxlock", "app.idxunlock"}
      BY <1>4 DEF AppReread, AppDatLock, AppDatUnlock, AppIdxLock, AppIdxUnlock, Step, files
    <2> QED BY <2>1, NothingWritten
  <1>5. CASE Begin(p) \/ DbRewind(p) \/ Return(p) \/ Scan(p)
    <2>1. UNCHANGED files /\ pc[p] \in {"idle", "unlock", "scan.lock", "scan.rec", "scan.dat", "scan.unlock"}
      BY <1>5 DEF Begin, DbRewind, Return, Scan, ScanLock, ScanEof, ScanSkip, ScanRec, ScanDump, ScanDat, ScanUnlock, Step, files
    <2> QED BY <2>1, NothingWritten
  <1>6. CASE Killed(p)
    <2>1. UNCHANGED files /\ pc'[p] = "dead"
      BY <1>6, ExitMoves DEF Killed, Moves, files
    <2> QED BY <2>1, NothingWritten
  <1>7. CASE DelSetHead(p) \/ DelUnlink(p) \/ FindFreeTake(p) \/ Link(p)
    <2>1. /\ db[p].ptroff \in Places /\ db[p].chainoff \in Places /\ FREE_OFF \in Places
          /\ o \in Nat /\ db[p].ptrval \in Nat /\ db[p].saveptr \in Nat
      BY HandleOf, RecordNumbers DEF FREE_OFF
    <2>2. pc[p] \in {"del.sethead", "del.unlink", "ff.take", "link"}
      BY <1>7 DEF DelSetHead, DelUnlink, FindFreeTake, Link
    <2>3. \/ WritePtr(p, FREE_OFF, o, "del.unlink") \/ WritePtr(p, db[p].ptroff, db[p].saveptr, "del.unlock")
          \/ WritePtr(p, db[p].ptroff, db[p].ptrval, "ff.unlock") \/ WritePtr(p, db[p].chainoff, o, "unlock")
      BY <1>7 DEF DelSetHead, DelUnlink, FindFreeTake, Link
    <2> QED BY <2>1, <2>2, <2>3, PointerWritten
  <1>8. CASE DelDat(p) \/ ReuseDat(p) \/ ReplaceDat(p)
    <2> DEFINE v == IF pc[p] = "del.dat" THEN Blank ELSE call[p].data
    <2>1. /\ pc[p] \in {"del.dat", "reuse.dat", "rep.dat"} /\ idx' = idx /\ head' = head
          /\ dat' = [dat EXCEPT ![db[p].datoff] = v]
          /\ pc[p] = "del.dat" => pc'[p] = "del.free"
          /\ pc[p] = "reuse.dat" => pc'[p] = "reuse.idx"
          /\ pc[p] = "rep.dat" => pc'[p] = "unlock"
      BY <1>8, Functions3 DEF DelDat, ReuseDat, ReplaceDat, Step, Goto
    <2>2. /\ AllRecs' = AllRecs /\ valof'[o] = v
          /\ \A x \in AllRecs : /\ keyof'[x] = keyof[x] /\ offof'[x] = offof[x]
                                /\ x # o => valof'[x] = valof[x]
          /\ \A d \in 1 .. Len(dat) : dat'[d] = dat[d] \/ d = offof[o]
      BY <2>1, DataWritten
    <2>3. o \in AllRecs
      BY <2>1, OwnRecord
    <2> HIDE DEF o
    <2> QED BY <2>1, <2>2, <2>3 DEF FilesChange, KeyWritten, ValWritten, o
  <1>9. CASE AppDat(p)
    <2>1. /\ pc[p] = "app.dat" /\ pc'[p] = "app.datunlock" /\ idx' = idx /\ head' = head
          /\ dat' = Append(dat, call[p].data) /\ db'[p].datoff = Len(dat) + 1
      BY <1>9, Functions3, HandleOf DEF AppDat, Step, Goto, Handle, Handles
    <2>2. call[p].data \in Data /\ dat \in Seq(Data \cup {Blank})
      BY <2>1, HandleOf DEF OfStore, OnData, TypeInv, FilesOK
    <2>3. SameKeys /\ SameOffs /\ SameVals
      BY <2>1, <2>2, AppendDatEffect
    <2>4. AllRecs' = AllRecs
      BY <2>1 DEF AllRecs
    <2>5. dat'[Len(dat) + 1] = call[p].data /\ \A d \in 1 .. Len(dat) : dat'[d] = dat[d]
      BY <2>1, <2>2
    <2> QED BY <2>1, <2>3, <2>4, <2>5 DEF FilesChange, KeyWritten, ValWritten, SameKeys, SameOffs, SameVals
  <1>10. CASE DelIdx(p)
    <2> DEFINE r == IdxRec(Blank, idx[o - NHash].klen, db[p].datoff, db[p].datlen, db[p].ptrval)
    <2>1. /\ pc[p] = "del.idx" /\ pc'[p] = "del.sethead" /\ head' = head /\ dat' = dat
          /\ idx' = [idx EXCEPT ![o - NHash] = r]
      BY <1>10, Functions3 DEF DelIdx, Step, Goto
    <2>2. o \in AllRecs /\ db[p].datoff = offof[o] /\ db[p].datoff \in 1 .. Len(dat)
      BY <2>1, OwnRecord
    <2>3. r \in IdxRecs /\ r.datoff = offof[o] /\ r.key = Blank
      <3>1. o - NHash \in 1 .. Len(idx) /\ db[p].datoff \in Nat \ {0} /\ db[p] \in Handles
        BY <2>2, RecordNumbers, HandleOf
      <3>2. idx[o - NHash] \in IdxRecs
        BY <3>1 DEF TypeInv, FilesOK
      <3> QED BY <2>2, <3>1, <3>2 DEF IdxRec, IdxRecs, Handles
    <2> HIDE DEF r, o
    <2>4. /\ Len(idx') = Len(idx) /\ SameOffs /\ SameVals
          /\ keyof'[o] = r.key /\ \A x \in AllRecs : x # o => keyof'[x] = keyof[x]
      BY <2>1, <2>2, <2>3, SetRecEffect
    <2> QED BY <2>1, <2>3, <2>4 DEF FilesChange, KeyWritten, ValWritten, SameOffs, SameVals, AllRecs, o
  <1>11. CASE ReuseIdx(p)
    <2> DEFINE k == call[p].key
               r == IdxRec(k, KeyLen[k], db[p].datoff, db[p].datlen, db[p].saveptr)
    <2>1. /\ pc[p] = "reuse.idx" /\ pc'[p] = "link" /\ head' = head /\ dat' = dat
          /\ idx' = [idx EXCEPT ![o - NHash] = r]
      BY <1>11, Functions3 DEF ReuseIdx, Step, Goto
    <2>2. o \in AllRecs /\ db[p].datoff = offof[o] /\ db[p].datoff \in 1 .. Len(dat) /\ k \in Keys
      BY <2>1, OwnRecord, Where DEF Writers
    <2>3. r \in IdxRecs /\ r.datoff = offof[o] /\ r.key = k
      <3>1. db[p].datoff \in Nat \ {0} /\ db[p] \in Handles /\ KeyLen[k] \in Nat
        BY <2>2, RecordNumbers, HandleOf, DbAssumption
      <3> QED BY <2>2, <3>1 DEF IdxRec, IdxRecs, Handles
    <2> HIDE DEF r, o
    <2>4. /\ Len(idx') = Len(idx) /\ SameOffs /\ SameVals
          /\ keyof'[o] = r.key /\ \A x \in AllRecs : x # o => keyof'[x] = keyof[x]
      BY <2>1, <2>2, <2>3, SetRecEffect
    <2> QED BY <2>1, <2>3, <2>4 DEF FilesChange, KeyWritten, ValWritten, SameOffs, SameVals, AllRecs, o
  <1>12. CASE AppIdx(p)
    <2> DEFINE k == call[p].key
               e == Eof
               r == IdxRec(k, KeyLen[k], db[p].datoff, db[p].datlen, db[p].saveptr)
    <2>1. /\ pc[p] = "app.idx" /\ pc'[p] = "app.idxunlock" /\ head' = head /\ dat' = dat
          /\ idx' = Append(idx, r) /\ db'[p] = [db[p] EXCEPT !.idxoff = e]
      BY <1>12, Functions3 DEF AppIdx, Step, Goto, Handle
    <2>2. k \in Keys /\ db[p] \in Handles /\ db[p].datoff \in 1 .. Len(dat) /\ KeyLen[k] \in Nat
      BY <2>1, HandleOf, DbAssumption DEF UsesData, Working, OnTail
    <2>3. r \in IdxRecs /\ r.datoff = db[p].datoff /\ r.key = k
      <3>1. db[p].datoff \in Nat \ {0}
        BY <2>2, RecordNumbers
      <3> QED BY <2>2, <3>1 DEF IdxRec, IdxRecs, Handles
    <2>4. db'[p].idxoff = e
      BY <2>1, <2>2 DEF Handles
    <2> HIDE DEF r
    <2>5. /\ SameKeys /\ SameOffs /\ SameVals /\ AllRecs' = AllRecs \cup {e} /\ e \in Nat \ {0}
          /\ keyof'[e] = r.key /\ offof'[e] = r.datoff
      BY <2>1, <2>3, AppendRecEffect
    <2> HIDE DEF e
    <2>6. valof'[e] = dat[db[p].datoff]
      <3>1. valof'[e] = dat'[offof'[e]]
        BY <2>5 DEF valof, Value, offof
      <3> QED BY <2>1, <2>3, <2>5, <3>1
    <2> QED BY <2>1, <2>3, <2>4, <2>5, <2>6 DEF FilesChange, KeyWritten, ValWritten, RecAdded, SameKeys, SameOffs, SameVals
  <1> QED BY <1>1, <1>2, <1>3, <1>4, <1>5, <1>6, <1>7, <1>8, <1>9, <1>10, <1>11, <1>12 DEF Acts, Run, Delete, FindFree, Write

-----------------------------------------------------------------------------
(* What is stored under a key. *)

(* Lookup, in terms of the lists of the invariant.                         *)
FoundIs(L) == \A k \in Keys :
  /\ (\A o \in L[Hash[k]] \ {Hash[k]} : keyof[o] # k) => Lookup(k) = None
  /\ \A o \in L[Hash[k]] \ {Hash[k]} : keyof[o] = k => Lookup(k) = valof[o]
LEMMA LookupIs ==
  ASSUME TypeInv, LockInv, NEW L, NEW R, ListState(L, R)
  PROVE  FoundIs(L)
  <1> SUFFICES ASSUME NEW k \in Keys
               PROVE  /\ (\A o \in L[Hash[k]] \ {Hash[k]} : keyof[o] # k) => Lookup(k) = None
                      /\ \A o \in L[Hash[k]] \ {Hash[k]} : keyof[o] = k => Lookup(k) = valof[o]
    BY DEF FoundIs
  <1> DEFINE c == Hash[k]
             S == L[c] \ {c}
             found == {o \in Members(ChainList(c)) : Rec(o).key = k}
  <1>1. c \in Chains
    BY DbAssumption
  <1>2. Members(ChainList(c)) = S
    BY <1>1, ChainMembers
  <1>3. S \subseteq AllRecs
    BY <1>1, ListOf, RecordNumbers DEF ListState
  <1>4. \A o \in S : keyof[o] = Rec(o).key /\ valof[o] = Value(o)
    <2>1. \A o \in AllRecs : keyof[o] = Rec(o).key /\ valof[o] = Value(o)
      BY FileValues, RecordNumbers DEF valof
    <2> HIDE DEF S
    <2> QED BY <1>3, <2>1
  <1>5. \A o, s \in S : keyof[o] = k /\ keyof[s] = k => o = s
    BY <1>1 DEF ListState, Contents
  <1>6. Lookup(k) = IF found = {} THEN None ELSE Value(CHOOSE o \in found : TRUE)
    BY DEF Lookup
  <1>7. found = {o \in S : keyof[o] = k}
    BY <1>2, <1>4
  <1> HIDE DEF S, found
  <1>8. ASSUME NEW o \in S, keyof[o] = k PROVE Lookup(k) = valof[o]
    <2>1. found = {o}
      BY <1>5, <1>7, <1>8
    <2>2. (CHOOSE s \in found : TRUE) = o
      BY <2>1
    <2> QED BY <1>4, <1>6, <1>8, <2>1, <2>2
  <1>9. ASSUME \A o \in S : keyof[o] # k PROVE Lookup(k) = None
    BY <1>6, <1>7, <1>9
  <1> QED BY <1>8, <1>9 DEF S

(* The same of the new state.                                              *)
LEMMA LookupIsNext ==
  ASSUME NEW CONSTANT L, NEW CONSTANT R
  PROVE  TypeInv' /\ LockInv' /\ ListState(L, R)' => FoundIs(L)'
  <1>1. TypeInv /\ LockInv /\ ListState(L, R) => FoundIs(L)
    BY LookupIs
  <1> QED BY <1>1, PTL

(* A chain after a step: a record that comes or goes does not hold another *)
(* key than the call's.                                                    *)
LEMMA ChainAfter ==
  ASSUME TypeInv, LockInv, NEW L, NEW R, NEW M, ListState(L, R), NEW p \in Procs, Relinks(p, L, M),
         NEW c \in Chains
  PROVE  /\ \A x \in L[c] \ {c} : x \in M[c] \/ keyof[x] = Blank
         /\ \A x \in M[c] \ {c} : \/ x \in L[c]
                                  \/ PutsOn(p, c) /\ x = db[p].idxoff /\ x \in AllRecs /\ keyof[x] = call[p].key
  <1>1. M[c] = IF TakesOff(p, c) THEN L[c] \ {db[p].idxoff}
               ELSE IF PutsOn(p, c) THEN L[c] \cup {db[p].idxoff} ELSE L[c]
    BY DEF Relinks
  <1>2. TakesOff(p, c) => keyof[db[p].idxoff] = Blank
    <2>1. SUFFICES ASSUME TakesOff(p, c) PROVE keyof[db[p].idxoff] = Blank
      OBVIOUS
    <2>2. pc[p] = "del.unlink" /\ pc[p] \in OfDelete \ {"del.unlock"}
      BY <2>1 DEF TakesOff, OfDelete
    <2>3. db[p].idxoff \in L[0] /\ db[p].idxoff \in AllRecs
      BY <2>2, HandleOf, Where DEF ListState, Doing, Unlinks, Writers
    <2>4. db[p].idxoff \in L[0] \ {0}
      BY <2>3, RecordNumbers
    <2> QED BY <2>4 DEF ListState, Contents
  <1>3. PutsOn(p, c) => keyof[db[p].idxoff] = call[p].key /\ db[p].idxoff \in AllRecs
    BY DEF PutsOn, ListState, Doing, Holds, Holding
  <1> QED BY <1>1, <1>2, <1>3

(* What is stored under a key changes only where a call for that key       *)
(* writes data, erases or links the record.                                *)
Changing(p, k) ==
  pc[p] \in {"del.dat", "del.idx", "rep.dat", "link"} /\ pc'[p] # "dead" /\ call[p].key = k
LEMMA LookupStays ==
  ASSUME TypeInv, TypeInv', LockInv, LockInv', NEW L, NEW R, NEW M, NEW Q, ListState(L, R), ListState(M, Q)',
         NEW p \in Procs, Acts(p), Relinks(p, L, M), NEW k \in Keys, ~Changing(p, k)
  PROVE  Lookup(k)' = Lookup(k)
  <1> DEFINE c == Hash[k]
             S == L[c] \ {c}
             T == M[c] \ {c}
  <1>1. FoundIs(L) /\ FoundIs(M)'
    BY LookupIs, LookupIsNext
  <1>2. c \in Chains /\ c \in Heads /\ S \subseteq AllRecs /\ Blank \notin Keys
    BY DbAssumption, ListOf, RecordNumbers DEF ListState
  <1>3. FilesChange(p)
    BY FilesDo
  <1>4. /\ \A x \in S : x \in T \/ keyof[x] = Blank
        /\ \A x \in T : x \in S \/ (PutsOn(p, c) /\ x \in AllRecs /\ keyof[x] = call[p].key)
    BY <1>2, ChainAfter
  <1>5. ASSUME NEW x \in S PROVE /\ keyof'[x] = k <=> keyof[x] = k
                                 /\ keyof[x] = k => valof'[x] = valof[x]
    <2>1. KeyWritten(p, x) /\ ValWritten(p, x)
      BY <1>2, <1>3, <1>5 DEF FilesChange
    <2>2. pc[p] \in {"reuse.dat", "reuse.idx"} => x # db[p].idxoff
      <3> HIDE DEF c
      <3>1. pc[p] \in {"reuse.dat", "reuse.idx"} => \A l \in Heads : db[p].idxoff \notin L[l]
        BY OwnRecord
      <3> QED BY <1>2, <1>5, <3>1
    <2>3. pc[p] \in {"del.dat", "del.idx", "rep.dat"} => keyof[db[p].idxoff] = call[p].key
      BY OwnRecord
    <2> QED BY <1>2, <2>1, <2>2, <2>3 DEF KeyWritten, ValWritten, Changing
  <1>6. ASSUME NEW x \in T, x \notin S PROVE keyof'[x] # k
    <2>1. PutsOn(p, c) /\ x \in AllRecs /\ keyof[x] = call[p].key
      BY <1>4, <1>6
    <2>2. KeyWritten(p, x)
      BY <1>3, <2>1 DEF FilesChange
    <2> QED BY <2>1, <2>2 DEF KeyWritten, PutsOn, Changing
  <1>7. /\ (\A o \in S : keyof[o] # k) => Lookup(k) = None
        /\ \A o \in S : keyof[o] = k => Lookup(k) = valof[o]
    BY <1>1 DEF FoundIs
  <1>8. /\ (\A o \in T : keyof'[o] # k) => Lookup(k)' = None
        /\ \A o \in T : keyof'[o] = k => Lookup(k)' = valof'[o]
    BY <1>1 DEF FoundIs
  <1> HIDE DEF c, S, T
  <1>9. CASE \A o \in S : keyof[o] # k
    <2>1. \A o \in T : keyof'[o] # k
      BY <1>5, <1>6, <1>9
    <2> QED BY <1>7, <1>8, <1>9, <2>1
  <1>10. ASSUME NEW o \in S, keyof[o] = k PROVE Lookup(k)' = Lookup(k)
    <2>1. o \in T /\ keyof'[o] = k /\ valof'[o] = valof[o]
      BY <1>2, <1>4, <1>5, <1>10
    <2> QED BY <1>7, <1>8, <1>10, <2>1
  <1> QED BY <1>9, <1>10

(* Nothing is stored, changed or lost when nothing happens.                *)
LEMMA LookupStutters ==
  ASSUME TypeInv, TypeInv', LockInv, LockInv', NEW L, NEW R, ListState(L, R), UNCHANGED vars, NEW k \in Keys
  PROVE  Lookup(k)' = Lookup(k)
  <1>1. ListState(L, R)'
    BY StutterLists
  <1>2. FoundIs(L) /\ FoundIs(L)'
    BY <1>1, LookupIs, LookupIsNext
  <1>3. keyof' = keyof /\ valof' = valof
    BY SameFiles DEF vars, files
  <1> DEFINE S == L[Hash[k]] \ {Hash[k]}
  <1>4. /\ (\A o \in S : keyof[o] # k) => Lookup(k) = None /\ Lookup(k)' = None
        /\ \A o \in S : keyof[o] = k => Lookup(k) = valof[o] /\ Lookup(k)' = valof[o]
    BY <1>2, <1>3 DEF FoundIs
  <1> HIDE DEF S
  <1> QED BY <1>4

(* The steps that write there lead on.                                     *)
LEMMA StepMoves ==
  ASSUME TypeInv, NEW p \in Procs, Acts(p), pc[p] \in {"del.dat", "del.idx", "rep.dat", "link"}
  PROVE  pc'[p] # pc[p]
  <1> USE Functions3 DEF Step, Goto
  <1>1. CASE Begin(p) \/ DbRewind(p) \/ Return(p) \/ Scan(p)
    BY <1>1 DEF Begin, DbRewind, Return, Scan, ScanLock, ScanEof, ScanSkip, ScanRec, ScanDump, ScanDat, ScanUnlock
  <1>2. CASE Killed(p)
    BY <1>2 DEF Killed, Exit
  <1>3. CASE Find(p)
    BY <1>3, FindMoves
  <1>4. CASE Delete(p)
    BY <1>4 DEF Delete, DelLock, DelDat, DelFree, DelIdx, DelSetHead, DelUnlink, DelUnlock
  <1>5. CASE FindFree(p)
    BY <1>5 DEF FindFree, InsHead, FindFreeLock, FindFreeHead, FindFreeRec, FindFreeTake, FindFreeUnlock
  <1>6. CASE Write(p)
    BY <1>6 DEF Write, ReuseDat, ReuseIdx, ReplaceDat, AppReread, AppDatLock, AppDat, AppDatUnlock,
                AppIdxLock, AppIdx, AppIdxUnlock, Link, WritePtr, Exit
  <1> QED BY <1>1, <1>2, <1>3, <1>4, <1>5, <1>6 DEF Acts, Run

(* What a step changes under a key is the work of a call for that key.     *)
StoresOrDeletes(p, k) ==
  /\ pc[p] # pc'[p]
  /\ call[p] # None /\ call[p].f \in {"store", "delete"} /\ call[p].key = k
LEMMA KeyKept ==
  ASSUME ListsSurvive, TypeInv, TypeInv', LockInv, LockInv', SlotInv, ListInv, [Next]_vars, NEW k \in Keys,
         Lookup(k)' # Lookup(k)
  PROVE  \E p \in Procs : StoresOrDeletes(p, k)
  <1>1. PICK L, R : ListState(L, R)
    BY DEF ListInv
  <1>2. ~UNCHANGED vars
    BY <1>1, LookupStutters
  <1>3. PICK p \in Procs : Acts(p)
    BY <1>2 DEF Next, Acts
  <1>4. PICK M, Q : ListState(M, Q)' /\ Relinks(p, L, M)
    BY <1>1, <1>3, ActionLists
  <1>5. Changing(p, k)
    BY <1>1, <1>3, <1>4, LookupStays
  <1>6. call[p] # None /\ call[p].f \in {"store", "delete"}
    <2>1. pc[p] \in Working /\ (pc[p] \in OfStore \/ pc[p] \in OfDelete)
      BY <1>5 DEF Changing, Working, OnChain, OnFree, OfStore, OfDelete
    <2>2. ProcOK(pc[p], call[p], db[p], pos[p], Len(idx), Len(dat))
      BY HandleOf
    <2> QED BY <2>1, <2>2 DEF ProcOK
  <1>7. pc[p] # pc'[p]
    <2>1. pc[p] \in {"del.dat", "del.idx", "rep.dat", "link"} /\ pc'[p] # "dead"
      BY <1>5 DEF Changing
    <2> QED BY <1>3, <2>1, StepMoves
  <1> QED BY <1>5, <1>6, <1>7 DEF Changing, StoresOrDeletes

(* What is stored under a key changes only by a store or a delete of that  *)
(* key (db.c), for any number of processes, keys and chains, and although  *)
(* processes may be killed between any two system calls, except in the two *)
(* windows of _db_dodelete where the chain runs into the free list.        *)
THEOREM KeysSurviveOthers ==
  ASSUME Mortal \cap {"del.sethead", "del.unlink"} = {}
  PROVE  Spec => KeysSurvive
  <1> DEFINE Inv == TypeInv /\ LockInv /\ SlotInv /\ ListInv
             Kept1 == \A k \in Keys : Lookup(k)' # Lookup(k) =>
                       \E p \in Procs :
                         /\ pc[p] # pc'[p]
                         /\ call[p] # None /\ call[p].f \in {"store", "delete"}
                         /\ call[p].key = k
  <1>1. Spec => []Inv
    BY ListsStay
  <1>2. Inv /\ Inv' /\ [Next]_vars => Kept1
    <2>1. ASSUME Inv, Inv', [Next]_vars, NEW k \in Keys, Lookup(k)' # Lookup(k)
          PROVE  \E p \in Procs : /\ pc[p] # pc'[p]
                                  /\ call[p] # None /\ call[p].f \in {"store", "delete"}
                                  /\ call[p].key = k
      BY <2>1, KeyKept DEF ListsSurvive, StoresOrDeletes
    <2> QED BY <2>1
  <1>3. Inv /\ Inv' /\ [Next]_vars => [Kept1]_vars
    BY <1>2
  <1> HIDE DEF Inv, Kept1
  <1>4. Spec => [][Kept1]_vars
    BY <1>1, <1>3, PTL DEF Spec
  <1> QED BY <1>4 DEF KeysSurvive, Kept1

-----------------------------------------------------------------------------
(* What a call will return, and the flags under which it got where it is.  *)

ScanLabels == {"scan.lock"} \cup Scanning
Inserting  == {"ins.head", "ff.lock", "ff.head", "ff.rec", "ff.take", "ff.unlock", "reuse.dat", "reuse.idx"}
Adding     == {"app.datlock", "app.dat", "app.datunlock", "app.idxlock", "app.idx"}
Replacing  == {"del.lock", "del.dat", "rep.dat"}

(* A process at label l, in call c, when its handle's offset is o and its  *)
(* result r.                                                               *)
Answer(l, c, o, r) ==
  /\ l \in {"idle", "dead"} => c = None
  /\ l \in ScanLabels => c # None /\ c.f = "nextrec"
  /\ l \in Working /\ l # "unlock" => r = IF c.f = "fetch" THEN None ELSE 0
  /\ l \in ScanLabels /\ l # "scan.unlock" => r = None
  /\ l \in {"unlock", "scan.unlock"} => r # Pending
  /\ l \in Replacing /\ c.f = "store" => c.flag # "INSERT"
  /\ l \in Inserting \/ (l \in Adding /\ o = 0) => c.flag # "REPLACE"
  /\ l \in OfDelete \cup {"app.reread"} => o # 0
  /\ l = "fetch.dat" => c.f = "fetch"
AnswerInv ==
  /\ res = [p \in Procs |-> res[p]]
  /\ \A p \in Procs : Answer(pc[p], call[p], db[p].offset, res[p])

LEMMA AnswerInit == Init => AnswerInv
  BY DEF Init, AnswerInv, Answer, ScanLabels, Scanning, Working, OnChain, OnFree, OnData, OnTail,
         Replacing, Inserting, Adding, OfDelete

(* The results of the others.                                              *)
LEMMA ResultsStay ==
  ASSUME TypeInv, AnswerInv, NEW p \in Procs, Acts(p)
  PROVE  res' = [q \in Procs |-> res'[q]] /\ \A q \in Procs : q # p => res'[q] = res[q]
  <1>0. res = [q \in Procs |-> res[q]]
    BY DEF AnswerInv
  <1> USE <1>0 DEF Step, Goto, Result
  <1>1. CASE Begin(p) \/ DbRewind(p)
    BY <1>1 DEF Begin, DbRewind
  <1>2. CASE Killed(p)
    BY <1>2 DEF Killed, Exit
  <1>3. CASE Return(p)
    BY <1>3 DEF Return
  <1>4. CASE Find(p)
    BY <1>4 DEF Find, FindLock, FindHead, FindRec, FetchDat, AfterHit, AfterMiss
  <1>5. CASE Delete(p)
    BY <1>5 DEF Delete, DelLock, DelDat, DelFree, DelIdx, DelSetHead, DelUnlink, DelUnlock, WritePtr, Exit
  <1>6. CASE FindFree(p)
    BY <1>6 DEF FindFree, InsHead, FindFreeLock, FindFreeHead, FindFreeRec, FindFreeTake, FindFreeUnlock, WritePtr, Exit
  <1>7. CASE Write(p)
    BY <1>7 DEF Write, ReuseDat, ReuseIdx, ReplaceDat, AppReread, AppDatLock, AppDat, AppDatUnlock,
                AppIdxLock, AppIdx, AppIdxUnlock, Link, WritePtr, Exit
  <1>8. CASE Scan(p)
    BY <1>8 DEF Scan, ScanLock, ScanEof, ScanSkip, ScanRec, ScanDump, ScanDat, ScanUnlock, Exit
  <1> QED BY <1>1, <1>2, <1>3, <1>4, <1>5, <1>6, <1>7, <1>8 DEF Acts, Run

(* A process that ends answers nothing.                                    *)
LEMMA ExitAnswer ==
  ASSUME TypeInv, AnswerInv, NEW p \in Procs, Exit(p)
  PROVE  Answer(pc'[p], call'[p], db'[p].offset, res'[p])
  <1>1. pc'[p] = "dead" /\ call'[p] = None
    BY ExitMoves DEF Moves
  <1> QED BY <1>1 DEF Answer, ScanLabels, Scanning, Working, OnChain, OnFree, OnData, OnTail,
                      Replacing, Inserting, Adding, OfDelete

(* From one step of a call to the next without a result.                   *)
LEMMA SameAnswer ==
  ASSUME NEW l, NEW m, NEW c, NEW o, NEW r, Answer(l, c, o, r),
         l \in Working, m \in Working \ {"unlock", "fetch.dat"}, l # "unlock",
         m \in Replacing => l \in Replacing \/ c.f # "store",
         m \in Inserting => l \in Inserting,
         m \in Adding /\ o = 0 => l \in Inserting \/ l \in Adding,
         m \in OfDelete \cup {"app.reread"} => l \in OfDelete \cup {"app.reread"}
  PROVE  Answer(m, c, o, r)
  BY DEF Answer, ScanLabels, Scanning, Working, OnChain, OnFree, OnData, OnTail

(* The steps of a call, by what becomes of its result.                     *)
LEMMA FindAnswers ==
  ASSUME TypeInv, AnswerInv, NEW p \in Procs, Find(p)
  PROVE  Answer(pc'[p], call'[p], db'[p].offset, res'[p])
  <1> USE Functions3 DEF Step, Goto, Handle, Result
  <1>0. /\ res = [q \in Procs |-> res[q]] /\ Answer(pc[p], call[p], db[p].offset, res[p])
        /\ call'[p] = call[p] /\ pc[p] \in {"find.lock", "find.head", "find.rec", "fetch.dat"}
        /\ db[p] \in Handles
    BY FindMoves, HandleOf DEF AnswerInv
  <1>1. res[p] = (IF call[p].f = "fetch" THEN None ELSE 0) /\ pc[p] \in Working
    BY <1>0 DEF Answer, Working, OnChain
  <1>2. ASSUME pc'[p] \in {"find.head", "find.rec", "fetch.dat"}, res'[p] = res[p],
               pc'[p] = "fetch.dat" => call[p].f = "fetch"
        PROVE  Answer(pc'[p], call'[p], db'[p].offset, res'[p])
    BY <1>0, <1>1, <1>2 DEF Answer, ScanLabels, Scanning, Working, OnChain, OnFree, OnData, OnTail, Replacing,
         Inserting, Adding, OfDelete
  <1>3. ASSUME pc'[p] = "unlock", res'[p] # Pending
        PROVE  Answer(pc'[p], call'[p], db'[p].offset, res'[p])
    BY <1>0, <1>3 DEF Answer, ScanLabels, Scanning, Working, OnChain, OnFree, OnData, OnTail, Replacing,
         Inserting, Adding, OfDelete
  <1>4. ASSUME pc'[p] = "ins.head", res'[p] = res[p], call[p].flag # "REPLACE"
        PROVE  Answer(pc'[p], call'[p], db'[p].offset, res'[p])
    BY <1>0, <1>1, <1>4 DEF Answer, ScanLabels, Scanning, Working, OnChain, OnFree, OnData, OnTail, Replacing,
         Inserting, Adding, OfDelete
  <1>5. ASSUME pc'[p] \in {"del.lock", "rep.dat"}, res'[p] = res[p],
               call[p].f = "store" => call[p].flag # "INSERT", db'[p].offset # 0
        PROVE  Answer(pc'[p], call'[p], db'[p].offset, res'[p])
    BY <1>0, <1>1, <1>5 DEF Answer, ScanLabels, Scanning, Working, OnChain, OnFree, OnData, OnTail, Replacing,
         Inserting, Adding, OfDelete
  <1>6. ASSUME AfterMiss(p), pc[p] \in {"find.head", "find.rec"}
        PROVE  Answer(pc'[p], call'[p], db'[p].offset, res'[p])
    <2>1. CASE call[p].f = "fetch"
      BY <1>0, <1>1, <1>3, <1>6, <2>1, NamesAssumption DEF AfterMiss
    <2>2. CASE call[p].f # "fetch" /\ pc'[p] = "unlock"
      BY <1>0, <1>3, <1>6, <2>2, NamesAssumption DEF AfterMiss
    <2>3. CASE call[p].f # "fetch" /\ pc'[p] # "unlock"
      BY <1>0, <1>4, <1>6, <2>3 DEF AfterMiss
    <2> QED BY <2>1, <2>2, <2>3
  <1>7. CASE FindLock(p)
    BY <1>0, <1>2, <1>7 DEF FindLock
  <1>8. CASE FetchDat(p)
    <2>1. pc'[p] = "unlock" /\ res'[p] = dat[db[p].datoff] /\ pc[p] = "fetch.dat"
      BY <1>0, <1>8 DEF FetchDat
    <2>2. db[p].datoff \in 1 .. Len(dat) /\ dat \in Seq(Data \cup {Blank})
      BY <2>1, HandleOf DEF UsesData, TypeInv, FilesOK
    <2> QED BY <1>3, <2>1, <2>2, NamesAssumption
  <1>9. CASE FindHead(p)
    <2>1. pc[p] = "find.head"
      BY <1>9 DEF FindHead
    <2>2. AfterMiss(p) \/ (pc'[p] = "find.rec" /\ res'[p] = res[p])
      BY <1>9, <2>1 DEF FindHead
    <2> QED BY <1>2, <1>6, <2>1, <2>2
  <1>10. CASE FindRec(p)
    <2> DEFINE o == db[p].offset
    <2>1. pc[p] = "find.rec" /\ o \in AllRecs /\ o # 0
      BY <1>10, HandleOf, RecordNumbers DEF FindRec
    <2>2. \/ AfterMiss(p) \/ (pc'[p] = "find.rec" /\ res'[p] = res[p])
          \/ db'[p] = ReadIdx(p, o) /\ AfterHit(p, o)
      BY <1>10, <2>1 DEF FindRec
    <2>3. CASE db'[p] = ReadIdx(p, o) /\ AfterHit(p, o)
      <3>1. db'[p].offset # 0
        BY <2>1, <2>3, ReadIdxIs
      <3>2. CASE call[p].f \in {"fetch", "delete"}
        BY <1>0, <1>2, <1>5, <2>3, <3>1, <3>2 DEF AfterHit
      <3>3. CASE call[p].f = "store" /\ call[p].flag = "INSERT"
        BY <1>0, <1>3, <2>3, <3>3, NamesAssumption DEF AfterHit
      <3>4. CASE call[p].f = "store" /\ call[p].flag # "INSERT"
        BY <1>0, <1>5, <2>3, <3>1, <3>4 DEF AfterHit
      <3> QED BY <2>3, <3>2, <3>3, <3>4 DEF AfterHit
    <2> HIDE DEF o
    <2> QED BY <1>2, <1>6, <2>1, <2>2, <2>3
  <1> QED BY <1>7, <1>8, <1>9, <1>10 DEF Find

LEMMA DeleteAnswers ==
  ASSUME TypeInv, AnswerInv, NEW p \in Procs, Delete(p)
  PROVE  Answer(pc'[p], call'[p], db'[p].offset, res'[p])
  <1> USE Functions3 DEF Step, Goto, Handle
  <1>0. Answer(pc[p], call[p], db[p].offset, res[p]) /\ db[p] \in Handles
    BY HandleOf DEF AnswerInv
  <1>1. \/ Exit(p)
        \/ /\ call'[p] = call[p] /\ db'[p].offset = db[p].offset /\ res'[p] = res[p]
           /\ pc[p] \in OfDelete
           /\ \/ pc'[p] \in {"del.dat"} /\ pc[p] = "del.lock"
              \/ pc'[p] \in {"del.free", "del.idx", "del.sethead", "del.unlink", "del.unlock", "app.reread"}
              \/ pc'[p] = "unlock" /\ call[p].f # "store"
    <2>1. CASE DelLock(p) \/ DelDat(p) \/ DelIdx(p)
      BY <2>1 DEF DelLock, DelDat, DelIdx, OfDelete
    <2>2. CASE DelFree(p)
      <3>1. db'[p].offset = db[p].offset
        BY <1>0, <2>2 DEF DelFree, Handles
      <3> QED BY <2>2, <3>1 DEF DelFree, OfDelete
    <2>3. CASE DelUnlock(p)
      BY <2>3 DEF DelUnlock, OfDelete
    <2>4. CASE DelSetHead(p) \/ DelUnlink(p)
      BY <2>4 DEF DelSetHead, DelUnlink, WritePtr, OfDelete
    <2> QED BY <2>1, <2>2, <2>3, <2>4 DEF Delete
  <1>2. CASE Exit(p)
    BY <1>2, ExitAnswer
  <1>3. CASE ~Exit(p)
    <2>1. pc[p] \in OfDelete /\ pc[p] \in Working /\ pc[p] # "unlock" /\ pc[p] \notin {"app.reread"}
      BY <1>1, <1>3 DEF OfDelete, Working, OnChain, OnFree
    <2>2. pc'[p] = "unlock" \/ pc'[p] \in OfDelete \cup {"app.reread"}
      BY <1>1, <1>3 DEF OfDelete
    <2>3. CASE pc'[p] = "unlock"
      <3>1. res'[p] \in {None, 0}
        BY <1>0, <1>1, <1>3, <2>1 DEF Answer
      <3> QED BY <1>0, <1>1, <1>3, <2>3, <3>1, NamesAssumption DEF Answer, ScanLabels, Scanning, OnChain, OnFree, OnData, OnTail,
         Replacing, Inserting, Adding, OfDelete
    <2>4. CASE pc'[p] # "unlock"
      <3>1. /\ pc'[p] \in Working \ {"unlock"} /\ pc'[p] \notin Inserting \cup Adding
            /\ pc'[p] \in Replacing => pc[p] \in Replacing
        BY <1>1, <1>3, <2>4 DEF Working, OnChain, OnFree, Inserting, Adding, Replacing
      <3> QED BY <1>0, <1>1, <1>3, <2>1, <3>1, SameAnswer
    <2> QED BY <2>3, <2>4
  <1> QED BY <1>2, <1>3

LEMMA FreeAnswers ==
  ASSUME TypeInv, AnswerInv, NEW p \in Procs, FindFree(p)
  PROVE  Answer(pc'[p], call'[p], db'[p].offset, res'[p])
  <1> USE Functions3 DEF Step, Goto, Handle
  <1>0. Answer(pc[p], call[p], db[p].offset, res[p])
    BY DEF AnswerInv
  <1>1. \/ Exit(p)
        \/ /\ call'[p] = call[p] /\ res'[p] = res[p]
           /\ pc[p] \in Inserting /\ pc[p] \notin {"reuse.dat", "reuse.idx"}
           /\ pc'[p] \in Inserting \cup {"app.datlock"}
    <2>1. CASE InsHead(p) \/ FindFreeLock(p) \/ FindFreeUnlock(p)
      BY <2>1 DEF InsHead, FindFreeLock, FindFreeUnlock, Inserting
    <2>2. CASE FindFreeHead(p) \/ FindFreeRec(p)
      BY <2>2 DEF FindFreeHead, FindFreeRec, Inserting
    <2>3. CASE FindFreeTake(p)
      BY <2>3 DEF FindFreeTake, WritePtr, Inserting
    <2> QED BY <2>1, <2>2, <2>3 DEF FindFree
  <1>2. CASE Exit(p)
    BY <1>2, ExitAnswer
  <1>3. CASE ~Exit(p)
    BY <1>0, <1>1, <1>3 DEF Answer, ScanLabels, Scanning, Working, OnChain, OnFree, OnData, OnTail,
         Replacing, Inserting, Adding, OfDelete
  <1> QED BY <1>2, <1>3

LEMMA WriteAnswers ==
  ASSUME TypeInv, AnswerInv, NEW p \in Procs, Write(p)
  PROVE  Answer(pc'[p], call'[p], db'[p].offset, res'[p])
  <1> USE Functions3 DEF Step, Goto, Handle
  <1>0. Answer(pc[p], call[p], db[p].offset, res[p]) /\ db[p] \in Handles
    BY HandleOf DEF AnswerInv
  <1>1. \/ Exit(p)
        \/ /\ call'[p] = call[p] /\ db'[p].offset = db[p].offset /\ res'[p] = res[p]
           /\ \/ pc[p] = "reuse.dat" /\ pc'[p] = "reuse.idx"
              \/ pc[p] = "app.reread" /\ pc'[p] = "app.datlock"
              \/ pc[p] \in Adding /\ pc'[p] \in Adding
              \/ pc[p] \in {"reuse.idx", "app.idx", "app.idxunlock"} /\ pc'[p] \in {"app.idxunlock", "link"}
              \/ pc[p] \in {"rep.dat", "link"} /\ pc'[p] = "unlock"
    <2>1. CASE ReuseIdx(p) \/ ReplaceDat(p) \/ AppDatLock(p) \/ AppDatUnlock(p) \/ AppIdxLock(p) \/ AppIdxUnlock(p)
      BY <2>1 DEF ReuseIdx, ReplaceDat, AppDatLock, AppDatUnlock, AppIdxLock, AppIdxUnlock, Adding
    <2>2. CASE ReuseDat(p) \/ AppReread(p)
      <3>1. db'[p].offset = db[p].offset
        BY <1>0, <2>2 DEF ReuseDat, AppReread, Handles
      <3> QED BY <2>2, <3>1 DEF ReuseDat, AppReread
    <2>3. CASE AppDat(p) \/ AppIdx(p)
      <3>1. db'[p].offset = db[p].offset
        <4>1. CASE AppDat(p)
          <5>1. db'[p] = [db[p] EXCEPT !.datoff = Len(dat) + 1, !.datlen = DatLen[call[p].data]]
            BY <4>1 DEF AppDat
          <5> QED BY <1>0, <5>1 DEF Handles
        <4>2. CASE AppIdx(p)
          <5>1. db'[p] = [db[p] EXCEPT !.idxoff = Eof]
            BY <4>2 DEF AppIdx
          <5> QED BY <1>0, <5>1 DEF Handles
        <4> QED BY <2>3, <4>1, <4>2
      <3> QED BY <2>3, <3>1 DEF AppDat, AppIdx, Adding
    <2>4. CASE Link(p)
      BY <2>4 DEF Link, WritePtr
    <2> QED BY <2>1, <2>2, <2>3, <2>4 DEF Write
  <1>2. CASE Exit(p)
    BY <1>2, ExitAnswer
  <1>3. CASE ~Exit(p)
    <2>1. res[p] \in {None, 0}
      BY <1>0, <1>1, <1>3 DEF Answer, Working, OnChain, OnData, OnTail, Adding
    <2> QED BY <1>0, <1>1, <1>3, <2>1, NamesAssumption DEF Answer, ScanLabels, Scanning, Working, OnChain, OnFree, OnData, OnTail,
         Replacing, Inserting, Adding, OfDelete
  <1> QED BY <1>2, <1>3

LEMMA ScanAnswers ==
  ASSUME TypeInv, AnswerInv, NEW p \in Procs, Scan(p)
  PROVE  Answer(pc'[p], call'[p], db'[p].offset, res'[p])
  <1> USE Functions3 DEF Step, Goto, Handle, Result
  <1>0. res = [q \in Procs |-> res[q]] /\ Answer(pc[p], call[p], db[p].offset, res[p]) /\ db[p] \in Handles
    BY HandleOf DEF AnswerInv
  <1>1. \/ Exit(p)
        \/ /\ call'[p] = call[p] /\ pc[p] \in {"scan.lock", "scan.rec", "scan.dat"}
           /\ \/ pc'[p] \in {"scan.rec", "scan.dat", "scan.unlock"} /\ res'[p] = res[p]
              \/ pc'[p] = "scan.unlock" /\ res'[p] = <<db[p].idxbuf, dat[db[p].datoff]>> /\ pc[p] = "scan.dat"
        \/ pc'[p] = "idle" /\ call'[p] = None
    <2>1. CASE ScanLock(p) \/ ScanEof(p) \/ ScanSkip(p) \/ ScanRec(p) \/ ScanDump(p)
      BY <2>1 DEF ScanLock, ScanEof, ScanSkip, ScanRec, ScanDump
    <2>2. CASE ScanDat(p) \/ ScanUnlock(p)
      BY <1>0, <2>2 DEF ScanDat, ScanUnlock
    <2> QED BY <2>1, <2>2 DEF Scan
  <1>2. CASE Exit(p)
    BY <1>2, ExitAnswer
  <1>3. CASE pc'[p] = "idle" /\ call'[p] = None
    BY <1>3 DEF Answer, ScanLabels, Scanning, Working, OnChain, OnFree, OnData, OnTail,
         Replacing, Inserting, Adding, OfDelete
  <1>4. CASE ~Exit(p) /\ pc'[p] # "idle"
    <2>1. pc[p] \in ScanLabels \ {"scan.unlock"} /\ pc'[p] \in ScanLabels
      BY <1>1, <1>4 DEF ScanLabels, Scanning
    <2>2. call'[p] = call[p] /\ call[p] # None /\ call[p].f = "nextrec" /\ res[p] = None
      BY <1>0, <1>1, <1>4, <2>1 DEF Answer
    <2>3. res'[p] # Pending /\ (pc'[p] # "scan.unlock" => res'[p] = None)
      <3>1. CASE res'[p] = res[p]
        BY <2>2, <3>1, NamesAssumption
      <3>2. CASE res'[p] = <<db[p].idxbuf, dat[db[p].datoff]>> /\ pc[p] = "scan.dat" /\ pc'[p] = "scan.unlock"
        <4>1. db[p].datoff \in 1 .. Len(dat) /\ dat \in Seq(Data \cup {Blank})
          BY <3>2, HandleOf DEF UsesData, TypeInv, FilesOK
        <4>2. dat[db[p].datoff] \in Data \cup {Blank} /\ db[p].idxbuf \in Keys \cup {Blank, None}
          BY <1>0, <4>1 DEF Handles
        <4>3. res'[p] \in (Keys \cup {Blank, None}) \X (Data \cup {Blank})
          BY <3>2, <4>2
        <4> QED BY <3>2, <4>3, NamesAssumption
      <3> QED BY <1>1, <1>4, <3>1, <3>2
    <2> QED BY <2>1, <2>2, <2>3 DEF Answer, ScanLabels, Scanning, Working, OnChain, OnFree, OnData, OnTail,
         Replacing, Inserting, Adding, OfDelete
  <1> QED BY <1>1, <1>2, <1>3, <1>4

LEMMA AnswerStep == TypeInv /\ AnswerInv /\ [Next]_vars => AnswerInv'
  <1> SUFFICES ASSUME TypeInv, AnswerInv, [Next]_vars PROVE AnswerInv'
    OBVIOUS
  <1>1. CASE UNCHANGED vars
    BY <1>1 DEF vars, AnswerInv
  <1>2. ASSUME NEW p \in Procs, Acts(p) PROVE AnswerInv'
    <2>1. res' = [q \in Procs |-> res'[q]] /\ \A q \in Procs : q # p => res'[q] = res[q] /\ Stays(q)
      BY <1>2, ResultsStay, OthersStay
    <2>2. Answer(pc'[p], call'[p], db'[p].offset, res'[p])
      <3>1. CASE Begin(p)
        <4>1. call'[p] # None /\ call'[p].f \in {"fetch", "delete", "store", "nextrec"}
              /\ pc'[p] = (IF call'[p].f = "nextrec" THEN "scan.lock" ELSE "find.lock")
              /\ res'[p] = (IF call'[p].f \in {"store", "delete"} THEN 0 ELSE None)
          <5>1. PICK c \in Calls[p] : /\ c.f # "rewind" /\ call' = [call EXCEPT ![p] = c]
                                      /\ Goto(p, IF c.f = "nextrec" THEN "scan.lock" ELSE "find.lock")
                                      /\ Result(p, IF c.f \in {"store", "delete"} THEN 0 ELSE None)
            BY <3>1 DEF Begin
          <5>2. c \in AllCalls /\ c # None
            BY DbAssumption
          <5>3. c.f \in {"fetch", "delete", "store", "nextrec"}
            BY <5>1, <5>2 DEF AllCalls
          <5>4. call'[p] = c /\ pc'[p] = (IF c.f = "nextrec" THEN "scan.lock" ELSE "find.lock")
                /\ res'[p] = (IF c.f \in {"store", "delete"} THEN 0 ELSE None)
            BY <5>1, Functions3 DEF Goto, Result, AnswerInv
          <5> QED BY <5>2, <5>3, <5>4
        <4> QED BY <4>1 DEF Answer, ScanLabels, Scanning, Working, OnChain, OnFree, OnData, OnTail,
              Replacing, Inserting, Adding, OfDelete
      <3>2. CASE DbRewind(p)
        BY <3>2 DEF DbRewind, AnswerInv
      <3>3. CASE Killed(p)
        BY <3>3, ExitAnswer DEF Killed
      <3>4. CASE Return(p)
        <4>1. pc'[p] = "idle" /\ call'[p] = None
          BY <3>4, Functions3 DEF Return, Step, Goto
        <4> QED BY <4>1 DEF Answer, ScanLabels, Scanning, Working, OnChain, OnFree, OnData, OnTail,
              Replacing, Inserting, Adding, OfDelete
      <3> QED BY <1>2, <3>1, <3>2, <3>3, <3>4, FindAnswers, DeleteAnswers, FreeAnswers, WriteAnswers, ScanAnswers
              DEF Acts, Run
    <2>3. ASSUME NEW q \in Procs, q # p PROVE Answer(pc'[q], call'[q], db'[q].offset, res'[q])
      BY <2>1, <2>3 DEF AnswerInv, Stays
    <2> QED BY <2>1, <2>2, <2>3 DEF AnswerInv
  <1> QED BY <1>1, <1>2 DEF Next, Acts

-----------------------------------------------------------------------------
(* What a call carries from one system call to the next.                   *)

(* How a process comes to the labels at which it carries something.        *)
CameBy(p) ==
  /\ pc'[p] = "app.datunlock" => AppDat(p)
  /\ pc'[p] = "app.idxlock" => AppDatUnlock(p)
  /\ pc'[p] = "app.idx" => AppIdxLock(p)
  /\ pc'[p] = "app.idxunlock" => AppIdx(p)
  /\ pc'[p] = "link" => ReuseIdx(p) \/ AppIdxUnlock(p)
  /\ pc'[p] = "reuse.idx" => ReuseDat(p)
  /\ pc'[p] = "reuse.dat" => FindFreeUnlock(p)
  /\ pc'[p] = "ff.unlock" => FindFreeHead(p) \/ FindFreeRec(p) \/ FindFreeTake(p)
  /\ pc'[p] = "scan.dat" => ScanRec(p)
LEMMA ComesBy ==
  ASSUME TypeInv, NEW p \in Procs, Acts(p)
  PROVE  CameBy(p)
  <1> USE Functions3 DEF Step, Goto
  <1>1. CASE Begin(p) \/ DbRewind(p) \/ Return(p)
    BY <1>1 DEF Begin, DbRewind, Return, CameBy
  <1>2. CASE Killed(p)
    BY <1>2 DEF Killed, Exit, CameBy
  <1>3. CASE Find(p)
    BY <1>3, FindMoves DEF CameBy
  <1>4. CASE Delete(p)
    <2>1. pc'[p] \in {"dead", "del.dat", "del.free", "del.idx", "del.sethead", "del.unlink", "del.unlock", "app.reread", "unlock"}
      BY <1>4 DEF Delete, DelLock, DelDat, DelFree, DelIdx, DelSetHead, DelUnlink, DelUnlock, WritePtr, Exit
    <2> QED BY <2>1 DEF CameBy
  <1>5. CASE FindFree(p)
    <2>1. \/ pc'[p] \in {"dead", "ff.lock", "ff.head", "ff.rec", "ff.take", "app.datlock"}
          \/ pc'[p] = "ff.unlock" /\ (FindFreeHead(p) \/ FindFreeRec(p) \/ FindFreeTake(p))
          \/ pc'[p] = "reuse.dat" /\ FindFreeUnlock(p)
      <3>1. CASE InsHead(p) \/ FindFreeLock(p)
        BY <3>1 DEF InsHead, FindFreeLock
      <3>2. CASE FindFreeHead(p)
        BY <3>2 DEF FindFreeHead
      <3>3. CASE FindFreeRec(p)
        BY <3>3 DEF FindFreeRec
      <3>4. CASE FindFreeTake(p)
        BY <3>4 DEF FindFreeTake, WritePtr, Exit
      <3>5. CASE FindFreeUnlock(p)
        BY <3>5 DEF FindFreeUnlock
      <3> QED BY <1>5, <3>1, <3>2, <3>3, <3>4, <3>5 DEF FindFree
    <2> QED BY <2>1 DEF CameBy
  <1>6. CASE ReuseDat(p) \/ ReuseIdx(p)
    <2>1. (ReuseDat(p) /\ pc'[p] = "reuse.idx") \/ (ReuseIdx(p) /\ pc'[p] = "link")
      BY <1>6 DEF ReuseDat, ReuseIdx
    <2> QED BY <2>1 DEF CameBy
  <1>7. CASE ReplaceDat(p) \/ AppReread(p) \/ AppDatLock(p) \/ Link(p)
    <2>1. pc'[p] \in {"unlock", "app.datlock", "app.dat", "dead"}
      BY <1>7 DEF ReplaceDat, AppReread, AppDatLock, Link, WritePtr, Exit
    <2> QED BY <2>1 DEF CameBy
  <1>8. CASE AppDat(p) \/ AppDatUnlock(p) \/ AppIdxLock(p) \/ AppIdx(p) \/ AppIdxUnlock(p)
    <2>1. \/ AppDat(p) /\ pc'[p] = "app.datunlock"
          \/ AppDatUnlock(p) /\ pc'[p] = "app.idxlock"
          \/ AppIdxLock(p) /\ pc'[p] = "app.idx"
          \/ AppIdx(p) /\ pc'[p] = "app.idxunlock"
          \/ AppIdxUnlock(p) /\ pc'[p] = "link"
      BY <1>8 DEF AppDat, AppDatUnlock, AppIdxLock, AppIdx, AppIdxUnlock
    <2> QED BY <2>1 DEF CameBy
  <1>9. CASE Scan(p)
    <2>1. pc'[p] \in {"scan.rec", "scan.unlock", "dead", "idle"} \/ (ScanRec(p) /\ pc'[p] = "scan.dat")
      BY <1>9 DEF Scan, ScanLock, ScanEof, ScanSkip, ScanRec, ScanDump, ScanDat, ScanUnlock, Exit
    <2> QED BY <2>1 DEF CameBy
  <1> QED BY <1>1, <1>2, <1>3, <1>4, <1>5, <1>6, <1>7, <1>8, <1>9 DEF Acts, Run, Write

(* The data that has been written for a new record; a free record in the   *)
(* hands of a process is still blank; and what a scan has read of a record *)
(* is still in the file when it reads the data.                            *)
Taken(p) == pc[p] \in {"reuse.dat", "reuse.idx"} \/ (pc[p] = "ff.unlock" /\ db[p].offset # 0)
Carries(p) ==
  /\ Appending(p) => dat[db[p].datoff] = call[p].data
  /\ pc[p] \in {"reuse.idx", "app.idxunlock", "link"} => valof[db[p].idxoff] = call[p].data
  /\ Taken(p) => keyof[db[p].idxoff] = Blank
  /\ pc[p] = "scan.dat" =>
       /\ db[p].idxoff \in AllRecs /\ db[p].datoff = offof[db[p].idxoff]
       /\ db[p].idxbuf = keyof[db[p].idxoff] /\ db[p].idxbuf \in Keys
CarryInv == \A p \in Procs : Carries(p)

(* The others still carry what they carried.                               *)
LEMMA OthersCarry ==
  ASSUME TypeInv, LockInv, CarryInv, NEW L, NEW R, ListState(L, R), NEW p \in Procs, Acts(p), FilesChange(p),
         NEW q \in Procs, q # p
  PROVE  Carries(q)'
  <1> DEFINE o == db[q].idxoff
             d == db[q].datoff
  <1>1. pc'[q] = pc[q] /\ call'[q] = call[q] /\ db'[q] = db[q]
    BY OthersStay DEF Stays
  <1>2. Carries(q)
    BY DEF CarryInv
  <1>3. Appending(q) => dat'[d] = dat[d]
    <2>1. SUFFICES ASSUME Appending(q) PROVE dat'[d] = dat[d]
      OBVIOUS
    <2>2. d \in 1 .. Len(dat)
      BY <2>1, HandleOf DEF UsesData, Appending
    <2>3. \A x \in AllRecs : offof[x] # d
      BY <2>1 DEF ListState, Doing, Fresh
    <2> HIDE DEF d
    <2> QED BY <2>2, <2>3 DEF FilesChange
  <1>4. Holding(q) => o \in AllRecs /\ keyof'[o] = keyof[o] /\ valof'[o] = valof[o]
    <2>1. SUFFICES ASSUME Holding(q) PROVE o \in AllRecs /\ keyof'[o] = keyof[o] /\ valof'[o] = valof[o]
      OBVIOUS
    <2>2. o \in AllRecs /\ \A l \in Heads : o \notin L[l]
      BY <2>1 DEF ListState, Doing, Holds
    <2>3. KeyWritten(p, o) /\ ValWritten(p, o)
      BY <2>2 DEF FilesChange
    <2>4. pc[p] \in {"del.dat", "del.idx", "rep.dat"} => o # db[p].idxoff
      <3>1. pc[p] \in {"del.dat", "del.idx", "rep.dat"} =>
              db[p].idxoff \in L[db[p].chainoff] /\ db[p].chainoff \in Heads
        BY OwnRecord, RecordNumbers
      <3> QED BY <2>2, <3>1
    <2>5. pc[p] \in {"reuse.dat", "reuse.idx"} => o # db[p].idxoff
      BY <2>1 DEF ListState, Apart, Holding
    <2> QED BY <2>2, <2>3, <2>4, <2>5 DEF KeyWritten, ValWritten
  <1>5. pc[q] = "scan.dat" => /\ o \in AllRecs' /\ offof'[o] = offof[o] /\ keyof'[o] = keyof[o]
    <2>1. SUFFICES ASSUME pc[q] = "scan.dat" PROVE o \in AllRecs' /\ offof'[o] = offof[o] /\ keyof'[o] = keyof[o]
      OBVIOUS
    <2>2. o \in AllRecs /\ keyof[o] \in Keys
      BY <1>2, <2>1 DEF Carries
    <2>3. KeyWritten(p, o) /\ offof'[o] = offof[o] /\ o \in AllRecs'
      BY <2>2 DEF FilesChange
    <2>4. pc[p] # "del.idx"
      <3>1. Exclusion
        BY LockInvImplies
      <3> QED BY <2>1, <3>1 DEF Exclusion, OnFree, Scanning
    <2>5. pc[p] = "reuse.idx" => keyof[db[p].idxoff] = Blank
      BY DEF CarryInv, Carries, Taken
    <2>6. Blank \notin Keys
      BY DbAssumption
    <2> QED BY <2>2, <2>3, <2>4, <2>5, <2>6 DEF KeyWritten
  <1>6. pc[q] \in {"reuse.idx", "app.idxunlock", "link"} => Holding(q)
    BY DEF Holding
  <1>7. Taken(q) => Holding(q)
    BY DEF Taken, Holding
  <1>8. (Appending(q)' <=> Appending(q)) /\ (Taken(q)' <=> Taken(q))
    BY <1>1 DEF Appending, Taken
  <1> HIDE DEF o, d
  <1> QED BY <1>1, <1>2, <1>3, <1>4, <1>5, <1>6, <1>7, <1>8 DEF Carries, o, d

(* And so does the process that moves.                                     *)
LEMMA OwnCarry ==
  ASSUME TypeInv, LockInv, CarryInv, NEW L, NEW R, ListState(L, R), NEW p \in Procs, Acts(p), FilesChange(p)
  PROVE  Carries(p)'
  <1> USE Functions3 DEF Step, Goto, Handle
  <1> DEFINE o == db[p].idxoff
             d == db[p].datoff
  <1>0. CameBy(p) /\ db[p] \in Handles /\ Carries(p)
    BY ComesBy, HandleOf DEF CarryInv
  <1>1. Appending(p)' => dat'[db'[p].datoff] = call'[p].data
    <2>1. CASE AppDat(p)
      <3>1. pc[p] = "app.dat" /\ pc'[p] # "dead" /\ call'[p] = call[p]
        BY <2>1 DEF AppDat
      <3> QED BY <3>1 DEF FilesChange
    <2>2. CASE AppDatUnlock(p) \/ AppIdxLock(p)
      <3>1. Appending(p) /\ dat' = dat /\ db'[p] = db[p] /\ call'[p] = call[p]
        BY <2>2 DEF AppDatUnlock, AppIdxLock, Appending
      <3> QED BY <1>0, <3>1 DEF Carries
    <2> QED BY <1>0, <2>1, <2>2 DEF CameBy, Appending
  <1>2. pc'[p] \in {"reuse.idx", "app.idxunlock", "link"} => valof'[db'[p].idxoff] = call'[p].data
    <2>1. CASE ReuseDat(p)
      <3>1. pc[p] = "reuse.dat" /\ pc'[p] # "dead" /\ call'[p] = call[p]
            /\ db'[p] = [db[p] EXCEPT !.datlen = DatLen[call[p].data]]
        BY <2>1 DEF ReuseDat
      <3>2. db'[p].idxoff = o
        BY <1>0, <3>1 DEF Handles
      <3> QED BY <3>1, <3>2 DEF FilesChange
    <2>2. CASE AppIdx(p)
      <3>1. pc[p] = "app.idx" /\ pc'[p] # "dead" /\ call'[p] = call[p]
        BY <2>2 DEF AppIdx
      <3>2. valof'[db'[p].idxoff] = dat[d] /\ Appending(p)
        BY <3>1 DEF FilesChange, RecAdded, Appending
      <3> QED BY <1>0, <3>1, <3>2 DEF Carries
    <2>3. CASE ReuseIdx(p) \/ AppIdxUnlock(p)
      <3>1. pc[p] \in {"reuse.idx", "app.idxunlock"} /\ db'[p] = db[p] /\ call'[p] = call[p]
        BY <2>3 DEF ReuseIdx, AppIdxUnlock
      <3>2. o \in AllRecs
        BY <3>1, HandleOf DEF UsesRecord
      <3>3. valof'[o] = valof[o]
        <4>1. ValWritten(p, o)
          BY <3>2 DEF FilesChange
        <4> QED BY <3>1, <4>1 DEF ValWritten
      <3> QED BY <1>0, <3>1, <3>3 DEF Carries
    <2> QED BY <1>0, <2>1, <2>2, <2>3 DEF CameBy
  <1>3. Taken(p)' => keyof'[db'[p].idxoff] = Blank
    <2>1. SUFFICES ASSUME Taken(p)' PROVE keyof'[db'[p].idxoff] = Blank
      OBVIOUS
    <2>2. CASE ReuseIdx(p) \/ AppIdxUnlock(p) \/ AppIdx(p)
      BY <2>1, <2>2 DEF ReuseIdx, AppIdxUnlock, AppIdx, Taken
    <2>3. CASE FindFreeHead(p)
      <3>1. db'[p].offset # 0 => pc'[p] # "ff.unlock"
        <4>1. db'[p].offset = ReadPtr(FREE_OFF)
          BY <1>0, <2>3 DEF FindFreeHead, Handles
        <4> QED BY <2>3, <4>1 DEF FindFreeHead
      <3>2. pc'[p] \in {"ff.unlock", "ff.rec"}
        BY <2>3 DEF FindFreeHead
      <3> QED BY <2>1, <3>1, <3>2 DEF Taken
    <2>4. CASE FindFreeRec(p)
      <3>1. pc[p] = "ff.rec" /\ db[p].offset \in AllRecs
        BY <2>4, HandleOf DEF FindFreeRec
      <3> DEFINE g == ReadIdx(p, db[p].offset)
      <3>2. g \in Handles
        BY <3>1, ReadIdxIs
      <3>3. \/ pc'[p] = "ff.take"
            \/ pc'[p] = pc[p]
            \/ db'[p] = [g EXCEPT !.ptroff = db[p].offset, !.offset = g.ptrval] /\ g.ptrval = 0 /\ pc'[p] = "ff.unlock"
        BY <2>4 DEF FindFreeRec
      <3> HIDE DEF g
      <3>4. pc'[p] = "ff.unlock" => db'[p].offset = 0
        BY <3>1, <3>2, <3>3 DEF Handles
      <3> QED BY <2>1, <3>1, <3>3, <3>4 DEF Taken
    <2>5. CASE FindFreeTake(p)
      <3>1. pc[p] = "ff.take" /\ (pc'[p] = "dead" \/ (pc'[p] = "ff.unlock" /\ db'[p] = db[p]))
        BY <2>5 DEF FindFreeTake, WritePtr, Exit
      <3>2. db'[p] = db[p]
        BY <2>1, <3>1 DEF Taken
      <3>3. o \in L[0] \ {0}
        BY <3>1 DEF ListState, Doing, Searches
      <3>4. keyof[o] = Blank /\ o \in AllRecs
        BY <3>3, ListOf, RecordNumbers DEF ListState, Contents
      <3>5. KeyWritten(p, o)
        BY <3>4 DEF FilesChange
      <3> QED BY <3>1, <3>2, <3>4, <3>5 DEF KeyWritten
    <2>6. CASE FindFreeUnlock(p) \/ ReuseDat(p)
      <3>1. /\ Taken(p) /\ db'[p].idxoff = o /\ pc[p] \in {"ff.unlock", "reuse.dat"}
        <4>1. CASE FindFreeUnlock(p)
          <5>1. pc[p] = "ff.unlock" /\ db'[p] = db[p] /\ pc'[p] = (IF db[p].offset = 0 THEN "app.datlock" ELSE "reuse.dat")
            BY <4>1 DEF FindFreeUnlock
          <5> QED BY <2>1, <5>1 DEF Taken
        <4>2. CASE ReuseDat(p)
          <5>1. pc[p] = "reuse.dat" /\ db'[p] = [db[p] EXCEPT !.datlen = DatLen[call[p].data]]
            BY <4>2 DEF ReuseDat
          <5> QED BY <1>0, <5>1 DEF Taken, Handles
        <4> QED BY <2>6, <4>1, <4>2
      <3>2. keyof[o] = Blank /\ o \in AllRecs
        <4>1. Holding(p)
          BY <3>1 DEF Taken, Holding
        <4> QED BY <1>0, <3>1, <4>1 DEF Carries, ListState, Doing, Holds
      <3>3. KeyWritten(p, o)
        BY <3>2 DEF FilesChange
      <3> QED BY <3>1, <3>2, <3>3 DEF KeyWritten
    <2> QED BY <1>0, <2>1, <2>2, <2>3, <2>4, <2>5, <2>6 DEF CameBy, Taken
  <1>4. pc'[p] = "scan.dat" =>
          /\ db'[p].idxoff \in AllRecs' /\ db'[p].datoff = offof'[db'[p].idxoff]
          /\ db'[p].idxbuf = keyof'[db'[p].idxoff] /\ db'[p].idxbuf \in Keys
    <2>1. SUFFICES ASSUME ScanRec(p)
                   PROVE  /\ db'[p].idxoff \in AllRecs' /\ db'[p].datoff = offof'[db'[p].idxoff]
                          /\ db'[p].idxbuf = keyof'[db'[p].idxoff] /\ db'[p].idxbuf \in Keys
      BY <1>0 DEF CameBy
    <2> DEFINE x == pos[p]
    <2>2. /\ UNCHANGED files /\ AtRecord(p) /\ ~IsBlank(Rec(x).key) /\ db'[p] = ReadIdx(p, x)
      BY <2>1 DEF ScanRec, files
    <2>3. x \in AllRecs
      <3>1. x \in {0} \cup (FIRST_REC .. Eof) /\ x # 0 /\ x < Eof
        BY <2>2, TypeInvImplies DEF AtRecord, PointersValid
      <3>2. Len(idx) \in Nat /\ NHash \in Nat
        BY RecordNumbers
      <3> QED BY <3>1, <3>2 DEF AllRecs, FIRST_REC, Eof
    <2> HIDE DEF x
    <2>4. db'[p].idxoff = x /\ db'[p].datoff = offof[x] /\ db'[p].idxbuf = keyof[x]
      BY <2>2, <2>3, ReadIdxIs
    <2>5. keyof[x] \in Keys
      BY <2>2, <2>3, FileValues DEF IsBlank
    <2>6. keyof' = keyof /\ offof' = offof /\ AllRecs' = AllRecs
      BY <2>2, SameFiles
    <2> QED BY <2>3, <2>4, <2>5, <2>6
  <1> HIDE DEF o, d
  <1> QED BY <1>1, <1>2, <1>3, <1>4 DEF Carries

LEMMA CarryInit == Init => CarryInv
  BY DEF Init, CarryInv, Carries, Appending, Taken

LEMMA CarryStep ==
  ASSUME TypeInv, LockInv, CarryInv, NEW L, NEW R, ListState(L, R), NEW p \in Procs, Acts(p)
  PROVE  CarryInv'
  <1>1. FilesChange(p)
    BY FilesDo
  <1>2. ASSUME NEW q \in Procs PROVE Carries(q)'
    <2>1. CASE q = p
      BY <1>1, <2>1, OwnCarry
    <2>2. CASE q # p
      BY <1>1, <2>2, OthersCarry
    <2> QED BY <2>1, <2>2
  <1> QED BY <1>2 DEF CarryInv

-----------------------------------------------------------------------------
(* As long as nobody dies, every live record is on the chain of its key or *)
(* in the hands of the process that is about to link it.                   *)

Alive == \A p \in Procs : pc[p] # "dead"
Linking(p) == pc[p] \in {"app.idxunlock", "link"}
Placed(L) == \A x \in AllRecs : keyof[x] \in Keys =>
  x \in L[Hash[keyof[x]]] \/ \E q \in Procs : Linking(q) /\ db[q].idxoff = x

(* What a process does with a new record.                                  *)
LEMMA LinkingGoesOn ==
  ASSUME TypeInv, NEW p \in Procs, Acts(p), Linking(p), pc'[p] # "dead"
  PROVE  db'[p] = db[p] /\ pc'[p] = IF pc[p] = "link" THEN "unlock" ELSE "link"
  <1> USE Functions3 DEF Step, Goto, Linking
  <1>1. CASE Begin(p) \/ DbRewind(p) \/ Return(p) \/ Scan(p)
    BY <1>1 DEF Begin, DbRewind, Return, Scan, ScanLock, ScanEof, ScanSkip, ScanRec, ScanDump, ScanDat, ScanUnlock
  <1>2. CASE Killed(p)
    BY <1>2 DEF Killed, Exit
  <1>3. CASE Find(p)
    BY <1>3, FindMoves
  <1>4. CASE Delete(p)
    BY <1>4 DEF Delete, DelLock, DelDat, DelFree, DelIdx, DelSetHead, DelUnlink, DelUnlock
  <1>5. CASE FindFree(p)
    BY <1>5 DEF FindFree, InsHead, FindFreeLock, FindFreeHead, FindFreeRec, FindFreeTake, FindFreeUnlock
  <1>6. CASE Write(p)
    BY <1>6 DEF Write, ReuseDat, ReuseIdx, ReplaceDat, AppReread, AppDatLock, AppDat, AppDatUnlock,
                AppIdxLock, AppIdx, AppIdxUnlock, Link, WritePtr, Exit
  <1> QED BY <1>1, <1>2, <1>3, <1>4, <1>5, <1>6 DEF Acts, Run

LEMMA PlacedStep ==
  ASSUME TypeInv, TypeInv', LockInv, NEW L, NEW R, NEW M, ListState(L, R), NEW p \in Procs, Acts(p),
         Relinks(p, L, M), Placed(L), Alive'
  PROVE  Placed(M)'
  <1>1. FilesChange(p) /\ pc'[p] # "dead" /\ Blank \notin Keys
    BY FilesDo, DbAssumption DEF Alive
  <1>2. \A q \in Procs : q # p => pc'[q] = pc[q] /\ db'[q] = db[q]
    BY OthersStay DEF Stays
  <1> SUFFICES ASSUME NEW x \in AllRecs', keyof'[x] \in Keys
               PROVE  x \in M[Hash[keyof'[x]]] \/ \E q \in Procs : Linking(q)' /\ db'[q].idxoff = x
    BY DEF Placed
  <1>3. CASE x \notin AllRecs
    <2>1. pc'[p] = "app.idxunlock" /\ x = db'[p].idxoff
      BY <1>1, <1>3 DEF FilesChange, RecAdded
    <2> QED BY <2>1 DEF Linking
  <1>4. CASE x \in AllRecs /\ pc[p] = "reuse.idx" /\ pc'[p] = "link" /\ x = db[p].idxoff
    <2>1. ReuseIdx(p) \/ AppIdxUnlock(p)
      BY <1>4, ComesBy DEF CameBy
    <2>2. db'[p] = db[p]
      BY <2>1 DEF ReuseIdx, AppIdxUnlock
    <2> QED BY <1>4, <2>2 DEF Linking
  <1>5. CASE x \in AllRecs /\ keyof'[x] = keyof[x]
    <2> DEFINE c == Hash[keyof[x]]
    <2>1. c \in Chains /\ c \in Heads /\ x \notin Heads
      BY <1>5, DbAssumption, RecordNumbers
    <2>2. CASE x \in L[c]
      <3>1. \A y \in L[c] \ {c} : y \in M[c] \/ keyof[y] = Blank
        BY <2>1, ChainAfter
      <3> QED BY <1>1, <1>5, <2>1, <2>2, <3>1
    <2>3. ASSUME NEW q \in Procs, q # p, Linking(q), db[q].idxoff = x
          PROVE  Linking(q)' /\ db'[q].idxoff = x
      BY <1>2, <2>3 DEF Linking
    <2>4. CASE pc[p] = "app.idxunlock" /\ db[p].idxoff = x
      <3>1. pc'[p] = "link" /\ db'[p] = db[p]
        BY <1>1, <2>4, LinkingGoesOn DEF Linking
      <3> QED BY <2>4, <3>1 DEF Linking
    <2>5. CASE pc[p] = "link" /\ db[p].idxoff = x
      <3>1. pc'[p] = "unlock"
        BY <1>1, <2>5, LinkingGoesOn DEF Linking
      <3>2. keyof[x] = call[p].key /\ db[p].chainoff = Hash[call[p].key]
        BY <2>5, Where DEF Writers, ListState, Doing, Holds
      <3>3. PutsOn(p, c) /\ ~TakesOff(p, c)
        BY <2>5, <3>1, <3>2 DEF PutsOn, TakesOff
      <3>4. x \in M[c]
        BY <2>1, <2>5, <3>3 DEF Relinks
      <3> QED BY <1>5, <3>4
    <2>6. x \in L[c] \/ \E q \in Procs : Linking(q) /\ db[q].idxoff = x
      BY <1>5 DEF Placed
    <2> HIDE DEF c
    <2> QED BY <2>2, <2>3, <2>4, <2>5, <2>6 DEF Linking
  <1> QED BY <1>1, <1>3, <1>4, <1>5 DEF FilesChange, KeyWritten

(* All that is known of the files, the calls and the handles.              *)
FullState(L, R) == ListState(L, R) /\ Placed(L)
FullInv == /\ TypeInv /\ LockInv /\ SlotInv /\ AnswerInv /\ CarryInv
           /\ \E L, R : FullState(L, R)
LEMMA FullInit == Init => FullInv
  <1> SUFFICES ASSUME Init PROVE FullInv
    OBVIOUS
  <1>1. TypeInv /\ LockInv /\ SlotInv /\ AnswerInv /\ CarryInv
    BY InitTypeInv, InitLockInv, SlotInit, AnswerInit, CarryInit
  <1>2. PICK L, R : ListState(L, R)
    BY InitListInv DEF ListInv
  <1>3. AllRecs = {}
    BY DbAssumption DEF Init, AllRecs
  <1>4. Placed(L)
    BY <1>3 DEF Placed
  <1> QED BY <1>1, <1>2, <1>4 DEF FullInv, FullState

LEMMA FullStep ==
  ASSUME FullInv, [Next]_vars, Alive'
  PROVE  /\ FullInv'
         /\ UNCHANGED vars \/ \E p \in Procs : Acts(p)
         /\ \A p \in Procs : \A L, R : Acts(p) /\ FullState(L, R) => \E M, Q : FullState(M, Q)' /\ Relinks(p, L, M)
  <1>1. TypeInv /\ LockInv /\ SlotInv /\ AnswerInv /\ CarryInv
    BY DEF FullInv
  <1>2. TypeInv' /\ LockInv' /\ SlotInv' /\ AnswerInv'
    BY <1>1, NextTypeInv, NextLockInv, SlotStep, AnswerStep
  <1>3. UNCHANGED vars \/ \E p \in Procs : Acts(p)
    BY DEF Next, Acts
  <1>4. PICK L, R : FullState(L, R)
    BY DEF FullInv
  <1>5. ASSUME NEW p \in Procs, Acts(p), NEW L1, NEW R1, FullState(L1, R1)
        PROVE  CarryInv' /\ \E M, Q : FullState(M, Q)' /\ Relinks(p, L1, M)
    <2>1. ListState(L1, R1) /\ Placed(L1)
      BY <1>5 DEF FullState
    <2>2. ~Killed(p)
      <3>1. Killed(p) => pc'[p] = "dead"
        BY <1>1, ExitMoves DEF Killed, Moves
      <3> QED BY <3>1 DEF Alive
    <2>3. PICK M, Q : ListState(M, Q)' /\ Relinks(p, L1, M)
      BY <1>1, <1>2, <1>5, <2>1, <2>2, ActionLists
    <2>4. Placed(M)'
      BY <1>1, <1>2, <1>5, <2>1, <2>3, PlacedStep
    <2>5. CarryInv'
      BY <1>1, <1>5, <2>1, CarryStep
    <2> QED BY <2>3, <2>4, <2>5 DEF FullState
  <1>6. CASE UNCHANGED vars
    <2>1. ListState(L, R)'
      BY <1>1, <1>2, <1>4, <1>6, StutterLists DEF FullState
    <2>2. /\ keyof' = keyof /\ valof' = valof /\ offof' = offof /\ AllRecs' = AllRecs
          /\ pc' = pc /\ db' = db /\ dat' = dat /\ call' = call
      BY <1>6, SameFiles DEF vars, files
    <2>3. Placed(L)'
      BY <1>4, <2>2 DEF Placed, FullState, Linking
    <2>4. CarryInv'
      BY <1>1, <2>2 DEF CarryInv, Carries, Appending, Taken
    <2> QED BY <1>2, <1>3, <1>5, <2>1, <2>3, <2>4 DEF FullInv, FullState
  <1>7. CASE \E p \in Procs : Acts(p)
    <2>1. PICK p \in Procs : Acts(p)
      BY <1>7
    <2>2. CarryInv' /\ \E M, Q : FullState(M, Q)'
      BY <1>4, <1>5, <2>1
    <2> QED BY <1>2, <1>3, <1>5, <2>2 DEF FullInv
  <1> QED BY <1>3, <1>6, <1>7

-----------------------------------------------------------------------------
(* The map that the files and the calls in progress stand for.             *)

(* What the call of p makes of its key, and what the key maps to when no   *)
(* other call is at work on it.                                            *)
WriteOf(p) == IF call[p].f = "store" THEN call[p].data ELSE None
Mine(p) == IF Writing(p, call[p].key) THEN WriteOf(p) ELSE Lookup(call[p].key)
OutOf(p) == IF call[p] = None THEN None ELSE IF Effective(p) THEN res[p] ELSE Pending

(* A call that has taken effect and still writes holds its chain.          *)
LEMMA WriterInChain ==
  ASSUME TypeInv, AnswerInv, NEW p \in Procs, NEW k, Writing(p, k)
  PROVE  InChain(p) /\ call[p].f # "fetch" /\ call[p].key = k
  <1>1. Answer(pc[p], call[p], db[p].offset, res[p])
    BY DEF AnswerInv
  <1> QED BY <1>1 DEF Writing, Effective, Erased, InChain, OnChain, OnFree, OnData, OnTail, Answer, ScanLabels, Scanning

(* Nobody else works on the key of a call that is not a fetch.             *)
KeyAlone == \A p, q \in Procs :
  p # q /\ InChain(p) /\ InChain(q) /\ call[p].f # "fetch" => call[p].key # call[q].key
LEMMA KeyIsAlone ==
  ASSUME TypeInv, LockInv, NEW L, NEW R, ListState(L, R)
  PROVE  KeyAlone
  <1> SUFFICES ASSUME NEW p \in Procs, NEW q \in Procs, p # q, InChain(p), InChain(q), call[p].f # "fetch"
               PROVE  call[p].key # call[q].key
    BY DEF KeyAlone
  <1>1. Keyed(p) /\ Keyed(q)
    BY DEF ListState, Doing
  <1>2. db[p].chainoff # db[q].chainoff
    BY Alone
  <1> QED BY <1>1, <1>2 DEF Keyed

MapOf ==
  /\ AbsMap = [k \in Keys |-> AbsMap[k]]
  /\ \A k \in Keys : (\A q \in Procs : ~Writing(q, k)) => AbsMap[k] = Lookup(k)
  /\ \A p \in Procs : InChain(p) => call[p].key \in Keys /\ AbsMap[call[p].key] = Mine(p)
  /\ \A q \in Procs : \A k \in Keys : Writing(q, k) => InChain(q) /\ call[q].key = k
LEMMA MapIs ==
  ASSUME TypeInv, LockInv, AnswerInv, NEW L, NEW R, ListState(L, R)
  PROVE  MapOf
  <1> DEFINE W(k) == CHOOSE q \in Procs : Writing(q, k)
             A(k) == IF \E q \in Procs : Writing(q, k)
                     THEN IF call[W(k)].f = "store" THEN call[W(k)].data ELSE None
                     ELSE Lookup(k)
  <1>1. AbsMap = [k \in Keys |-> A(k)]
    BY DEF AbsMap
  <1> HIDE DEF A
  <1>2. \A k \in Keys : AbsMap[k] = A(k)
    BY <1>1
  <1>3. AbsMap = [k \in Keys |-> AbsMap[k]]
    BY <1>1
  <1>4. \A q \in Procs : \A k \in Keys : Writing(q, k) => InChain(q) /\ call[q].key = k
    BY WriterInChain
  <1>5. ASSUME NEW k \in Keys, \A q \in Procs : ~Writing(q, k) PROVE AbsMap[k] = Lookup(k)
    BY <1>2, <1>5 DEF A
  <1>6. ASSUME NEW q \in Procs, NEW k \in Keys, Writing(q, k) PROVE AbsMap[k] = WriteOf(q)
    <2>1. W(k) \in Procs /\ Writing(W(k), k)
      BY <1>6
    <2>2. A(k) = WriteOf(W(k))
      BY <1>6 DEF A, WriteOf
    <2> HIDE DEF W
    <2>3. W(k) = q
      BY <1>6, <2>1, WriterInChain, KeyIsAlone DEF KeyAlone
    <2> QED BY <1>2, <2>2, <2>3
  <1>7. ASSUME NEW p \in Procs, InChain(p) PROVE call[p].key \in Keys /\ AbsMap[call[p].key] = Mine(p)
    <2>1. call[p].key \in Keys
      BY <1>7 DEF ListState, Doing, Keyed
    <2>2. CASE Writing(p, call[p].key)
      BY <1>6, <2>1, <2>2 DEF Mine
    <2>3. CASE \A q \in Procs : ~Writing(q, call[p].key)
      BY <1>5, <2>1, <2>3 DEF Mine
    <2>4. ASSUME NEW q \in Procs, Writing(q, call[p].key), q # p PROVE FALSE
      BY <1>7, <2>4, WriterInChain, KeyIsAlone DEF KeyAlone
    <2> QED BY <2>1, <2>2, <2>3, <2>4
  <1> QED BY <1>3, <1>4, <1>5, <1>7 DEF MapOf
LEMMA MapIsNext ==
  ASSUME NEW CONSTANT L, NEW CONSTANT R
  PROVE  TypeInv' /\ LockInv' /\ AnswerInv' /\ ListState(L, R)' => MapOf'
  <1>1. TypeInv /\ LockInv /\ AnswerInv /\ ListState(L, R) => MapOf
    BY MapIs
  <1> QED BY <1>1, PTL

(* A key keeps what it maps to when nobody stops or starts writing it and  *)
(* the files keep what is stored under it.                                 *)
LEMMA KeyStays ==
  ASSUME MapOf, MapOf', NEW k \in Keys, Lookup(k)' = Lookup(k),
         \A q \in Procs : (Writing(q, k)' <=> Writing(q, k)) /\ (Writing(q, k) => call'[q] = call[q])
  PROVE  AbsMap'[k] = AbsMap[k]
  <1>1. CASE \A q \in Procs : ~Writing(q, k)
    BY <1>1 DEF MapOf
  <1>2. ASSUME NEW q \in Procs, Writing(q, k) PROVE AbsMap'[k] = AbsMap[k]
    <2>1. Writing(q, k)' /\ call'[q] = call[q] /\ call[q].key = k /\ InChain(q) /\ InChain(q)'
      BY <1>2 DEF MapOf
    <2>2. AbsMap[k] = WriteOf(q)
      BY <1>2, <2>1 DEF MapOf, Mine
    <2>3. AbsMap'[k] = WriteOf(q)'
      BY <2>1 DEF MapOf, Mine
    <2> QED BY <2>1, <2>2, <2>3 DEF WriteOf
  <1> QED BY <1>1, <1>2
-----------------------------------------------------------------------------
(* What a step of one process changes of the map and of the results.       *)

Known(L, R) == TypeInv /\ LockInv /\ AnswerInv /\ CarryInv /\ FullState(L, R)
StepOf(p, L, M) == Acts(p) /\ Relinks(p, L, M) /\ pc'[p] # "dead"

LEMMA OthersAs ==
  ASSUME NEW L, NEW R, Known(L, R), NEW p \in Procs, Acts(p), NEW q \in Procs, q # p
  PROVE  /\ \A k \in Keys : Writing(q, k)' <=> Writing(q, k)
         /\ call'[q] = call[q] /\ OutOf(q)' = OutOf(q)
  <1>1. pc'[q] = pc[q] /\ call'[q] = call[q] /\ db'[q] = db[q]
    BY OthersStay DEF Stays, Known
  <1>2. res'[q] = res[q]
    BY ResultsStay DEF Known
  <1>3. Effective(q)' <=> Effective(q)
    BY <1>1 DEF Effective
  <1> QED BY <1>1, <1>2, <1>3 DEF Writing, OutOf

(* A key that is not the call's, or that the step does not write.          *)
LEMMA OtherKeys ==
  ASSUME NEW L, NEW R, NEW M, NEW Q, Known(L, R), Known(M, Q)', NEW p \in Procs, StepOf(p, L, M),
         NEW k \in Keys, ~Writing(p, k), ~Writing(p, k)', ~Changing(p, k)
  PROVE  AbsMap'[k] = AbsMap[k]
  <1>1. TypeInv /\ LockInv /\ AnswerInv /\ ListState(L, R) /\ Acts(p) /\ Relinks(p, L, M)
    BY DEF Known, FullState, StepOf
  <1>2. TypeInv' /\ LockInv' /\ AnswerInv' /\ ListState(M, Q)'
    BY DEF Known, FullState
  <1>3. MapOf /\ MapOf'
    BY <1>1, <1>2, MapIs, MapIsNext
  <1>4. Lookup(k)' = Lookup(k)
    BY <1>1, <1>2, LookupStays
  <1>5. ASSUME NEW q \in Procs PROVE (Writing(q, k)' <=> Writing(q, k)) /\ (Writing(q, k) => call'[q] = call[q])
    BY <1>1, OthersAs
  <1> QED BY <1>3, <1>4, <1>5, KeyStays

LEMMA MapSame ==
  ASSUME NEW L, NEW R, NEW M, NEW Q, Known(L, R), Known(M, Q)', NEW p \in Procs, StepOf(p, L, M),
         \A k \in Keys : ~Writing(p, k) /\ ~Writing(p, k)' /\ ~Changing(p, k)
  PROVE  AbsMap' = AbsMap
  <1>1. \A k \in Keys : AbsMap'[k] = AbsMap[k]
    BY OtherKeys
  <1>2. MapOf /\ MapOf'
    BY MapIs, MapIsNext DEF Known, FullState
  <1>3. AbsMap = [k \in Keys |-> AbsMap[k]] /\ AbsMap' = [k \in Keys |-> AbsMap'[k]]
    BY <1>2 DEF MapOf
  <1> QED BY <1>1, <1>3

(* The step of a call that works on its chain.                             *)
LEMMA MapPut ==
  ASSUME NEW L, NEW R, NEW M, NEW Q, Known(L, R), Known(M, Q)', NEW p \in Procs, StepOf(p, L, M),
         InChain(p), InChain(p)', call'[p] = call[p]
  PROVE  /\ call[p].key \in Keys /\ AbsMap[call[p].key] = Mine(p)
         /\ AbsMap' = [AbsMap EXCEPT ![call[p].key] = Mine(p)']
  <1>1. MapOf /\ MapOf'
    BY MapIs, MapIsNext DEF Known, FullState
  <1> DEFINE k == call[p].key
             m == Mine(p)'
  <1>2. k \in Keys /\ AbsMap[k] = Mine(p) /\ AbsMap'[k] = m
    BY <1>1 DEF MapOf
  <1>3. AbsMap = [j \in Keys |-> AbsMap[j]] /\ AbsMap' = [j \in Keys |-> AbsMap'[j]]
    BY <1>1 DEF MapOf
  <1>4. ASSUME NEW j \in Keys, j # k PROVE AbsMap'[j] = AbsMap[j]
    <2>1. ~Writing(p, j) /\ ~Writing(p, j)' /\ ~Changing(p, j)
      BY <1>4 DEF Writing, Changing
    <2> QED BY <2>1, OtherKeys
  <1> HIDE DEF m
  <1>5. AbsMap' = [AbsMap EXCEPT ![k] = m]
    BY <1>2, <1>3, <1>4
  <1> QED BY <1>2, <1>5 DEF m

LEMMA OutSet ==
  ASSUME NEW L, NEW R, Known(L, R), NEW p \in Procs, Acts(p)
  PROVE  /\ AbsOut' = [AbsOut EXCEPT ![p] = OutOf(p)'] /\ AbsOut[p] = OutOf(p)
         /\ AbsOut = [q \in Procs |-> AbsOut[q]]
  <1>1. AbsOut = [q \in Procs |-> OutOf(q)] /\ AbsOut' = [q \in Procs |-> OutOf(q)']
    BY DEF AbsOut, OutOf
  <1>2. ASSUME NEW q \in Procs, q # p PROVE OutOf(q)' = OutOf(q)
    BY <1>2, OthersAs
  <1> QED BY <1>1, <1>2
LEMMA CallSet ==
  ASSUME NEW L, NEW R, Known(L, R), NEW p \in Procs, Acts(p), TypeInv'
  PROVE  call' = [call EXCEPT ![p] = call'[p]] /\ call = [q \in Procs |-> call[q]]
  <1>1. call \in [Procs -> AllCalls \cup {None}] /\ call' \in [Procs -> AllCalls \cup {None}]
    BY DEF Known, TypeInv
  <1>2. ASSUME NEW q \in Procs, q # p PROVE call'[q] = call[q]
    BY <1>2, OthersAs
  <1> QED BY <1>1, <1>2

-----------------------------------------------------------------------------
(* Every step is a step of DbMap, or none.                                 *)
Refines(p) == Map!Invoke(p) \/ Map!TakeEffect(p) \/ Map!Return(p) \/ UNCHANGED Map!vars

LEMMA Unseen ==
  ASSUME NEW L, NEW R, Known(L, R), NEW p \in Procs, Acts(p), TypeInv',
         AbsMap' = AbsMap, call'[p] = call[p], OutOf(p)' = OutOf(p)
  PROVE  Refines(p)
  <1>1. AbsOut' = AbsOut
    BY OutSet
  <1>2. call' = call
    BY CallSet
  <1> QED BY <1>1, <1>2 DEF Refines, Map!vars

LEMMA TakesEffect ==
  ASSUME NEW L, NEW R, Known(L, R), NEW p \in Procs, Acts(p), TypeInv',
         call[p] # None, call'[p] = call[p], ~Effective(p), Effective(p)',
         LET c == call[p] IN
           \/ /\ c.f = "fetch" /\ res'[p] = AbsMap[c.key] /\ AbsMap' = AbsMap
           \/ /\ c.f = "delete" /\ AbsMap[c.key] = None /\ res'[p] = -1 /\ AbsMap' = AbsMap
           \/ /\ c.f = "delete" /\ AbsMap[c.key] # None /\ res'[p] = 0
              /\ AbsMap' = [AbsMap EXCEPT ![c.key] = None]
           \/ /\ c.f = "store" /\ AbsMap[c.key] # None /\ c.flag = "INSERT" /\ res'[p] = 1
              /\ AbsMap' = AbsMap
           \/ /\ c.f = "store" /\ AbsMap[c.key] = None /\ c.flag = "REPLACE" /\ res'[p] = -1
              /\ AbsMap' = AbsMap
           \/ /\ c.f = "store" /\ res'[p] = 0
              /\ (AbsMap[c.key] = None => c.flag # "REPLACE")
              /\ (AbsMap[c.key] # None => c.flag # "INSERT")
              /\ AbsMap' = [AbsMap EXCEPT ![c.key] = c.data]
           \/ /\ c.f = "nextrec" /\ res'[p] = None /\ AbsMap' = AbsMap
           \/ /\ c.f = "nextrec" /\ AbsMap' = AbsMap
              /\ \E k \in Keys : AbsMap[k] # None /\ res'[p] = <<k, AbsMap[k]>>
  PROVE  Refines(p)
  <1> DEFINE r == res'[p]
             c == call[p]
  <1>1. OutOf(p) = Pending /\ OutOf(p)' = r
    BY DEF OutOf
  <1>2. AbsOut' = [AbsOut EXCEPT ![p] = r] /\ AbsOut[p] = Pending
    BY <1>1, OutSet
  <1>3. Map!Finish(p, r)
    BY <1>2 DEF Map!Finish
  <1>4. call' = call
    BY CallSet
  <1> HIDE DEF r, c
  <1>5. Map!Fetch(p, c) \/ Map!Delete(p, c) \/ Map!Store(p, c) \/ Map!NextRec(p, c)
    BY <1>3 DEF Map!Fetch, Map!Delete, Map!Store, Map!NextRec, Map!Put, r, c
  <1>6. Map!TakeEffect(p)
    BY <1>2, <1>4, <1>5 DEF Map!TakeEffect, c
  <1> QED BY <1>6 DEF Refines

(* A call begins or ends, or db_rewind moves the offset.                   *)
LEMMA BeginRefines ==
  ASSUME NEW L, NEW R, NEW M, NEW Q, Known(L, R), Known(M, Q)', NEW p \in Procs, StepOf(p, L, M),
         Begin(p)
  PROVE  Refines(p)
  <1>0. Acts(p) /\ TypeInv /\ TypeInv' /\ AnswerInv
    BY DEF Known, StepOf
  <1>1. PICK c \in Calls[p] : call' = [call EXCEPT ![p] = c]
    BY DEF Begin
  <1>2. pc[p] = "idle" /\ pc'[p] \in {"scan.lock", "find.lock"}
    BY <1>0, Functions3 DEF Begin, Goto
  <1>3. call[p] = None
    BY <1>0, <1>2 DEF AnswerInv, Answer
  <1>4. c # None /\ call'[p] = c
    BY <1>0, <1>1, Functions3, DbAssumption
  <1>5. ~Effective(p) /\ ~Effective(p)'
    BY <1>2 DEF Effective, Erased
  <1>6. AbsMap' = AbsMap
    <2>1. ASSUME NEW k \in Keys PROVE ~Writing(p, k) /\ ~Writing(p, k)' /\ ~Changing(p, k)
      BY <1>2, <1>5 DEF Writing, Changing
    <2> QED BY <2>1, MapSame
  <1>7. OutOf(p)' = Pending
    BY <1>4, <1>5 DEF OutOf
  <1>8. AbsOut' = [AbsOut EXCEPT ![p] = Pending]
    BY <1>0, <1>7, OutSet
  <1>9. Map!Invoke(p)
    BY <1>1, <1>3, <1>6, <1>8 DEF Map!Invoke, Map!Finish
  <1> QED BY <1>9 DEF Refines

LEMMA RewindRefines ==
  ASSUME NEW L, NEW R, NEW M, NEW Q, Known(L, R), Known(M, Q)', NEW p \in Procs, StepOf(p, L, M),
         DbRewind(p)
  PROVE  Refines(p)
  <1>0. Acts(p) /\ TypeInv /\ TypeInv' /\ AnswerInv
    BY DEF Known, StepOf
  <1>1. pc[p] = "idle" /\ pc' = pc /\ call' = call /\ db' = db /\ res' = res
    BY DEF DbRewind
  <1>2. ~Effective(p) /\ ~Effective(p)'
    BY <1>1 DEF Effective, Erased
  <1>3. ASSUME NEW k \in Keys PROVE ~Writing(p, k) /\ ~Writing(p, k)' /\ ~Changing(p, k)
    BY <1>1, <1>2 DEF Writing, Changing
  <1>4. AbsMap' = AbsMap
    BY <1>3, MapSame
  <1>5. OutOf(p)' = OutOf(p)
    BY <1>1, <1>2 DEF OutOf
  <1> QED BY <1>0, <1>1, <1>4, <1>5, Unseen

LEMMA ReturnRefines ==
  ASSUME NEW L, NEW R, NEW M, NEW Q, Known(L, R), Known(M, Q)', NEW p \in Procs, StepOf(p, L, M),
         Return(p) \/ ScanUnlock(p)
  PROVE  Refines(p)
  <1>0. Acts(p) /\ TypeInv /\ TypeInv' /\ AnswerInv
    BY DEF Known, StepOf
  <1>1. /\ pc[p] \in {"unlock", "scan.unlock"} /\ pc'[p] = "idle"
        /\ call' = [call EXCEPT ![p] = None]
    BY <1>0, Functions3 DEF Return, ScanUnlock, Step, Goto
  <1>2. call'[p] = None
    BY <1>0, <1>1, Functions3
  <1>3. Answer(pc[p], call[p], db[p].offset, res[p])
    BY <1>0 DEF AnswerInv
  <1>4. call[p] # None /\ res[p] # Pending
    <2>1. ProcOK(pc[p], call[p], db[p], pos[p], Len(idx), Len(dat))
      BY <1>0, HandleOf
    <2>2. pc[p] = "unlock" => call[p] # None
      BY <2>1 DEF ProcOK, Working, OnChain
    <2>3. pc[p] = "scan.unlock" => call[p] # None
      BY <1>3 DEF Answer, ScanLabels, Scanning
    <2> QED BY <1>1, <1>3, <2>2, <2>3 DEF Answer
  <1>5. Effective(p)
    BY <1>1 DEF Effective
  <1>6. AbsMap' = AbsMap
    <2>1. pc[p] = "scan.unlock" => call[p].f = "nextrec"
      BY <1>3 DEF Answer, ScanLabels, Scanning
    <2>2. ASSUME NEW k \in Keys PROVE ~Writing(p, k) /\ ~Writing(p, k)' /\ ~Changing(p, k)
      BY <1>1, <1>2, <2>1 DEF Writing, Changing
    <2> QED BY <2>2, MapSame
  <1>7. OutOf(p) = res[p] /\ OutOf(p)' = None
    BY <1>2, <1>4, <1>5 DEF OutOf
  <1>8. AbsOut' = [AbsOut EXCEPT ![p] = None] /\ AbsOut[p] # Pending
    BY <1>0, <1>4, <1>7, OutSet
  <1>9. Map!Return(p)
    BY <1>1, <1>4, <1>6, <1>8 DEF Map!Return, Map!Finish
  <1> QED BY <1>9 DEF Refines

(* A step of a call before it takes effect.                                *)
LEMMA EarlyRefines ==
  ASSUME NEW L, NEW R, NEW M, NEW Q, Known(L, R), Known(M, Q)', NEW p \in Procs, StepOf(p, L, M),
         call'[p] = call[p], ~Effective(p), ~Effective(p)', \A k \in Keys : ~Changing(p, k)
  PROVE  Refines(p)
  <1>1. ASSUME NEW k \in Keys PROVE ~Writing(p, k) /\ ~Writing(p, k)' /\ ~Changing(p, k)
    BY DEF Writing
  <1>2. AbsMap' = AbsMap
    BY <1>1, MapSame
  <1>3. OutOf(p)' = OutOf(p)
    BY DEF OutOf
  <1>4. Acts(p) /\ TypeInv'
    BY DEF Known, StepOf
  <1> QED BY <1>2, <1>3, <1>4, Unseen

(* A step of a call that has taken effect: what it still writes is what    *)
(* its key maps to already.                                                *)
LEMMA LateRefines ==
  ASSUME NEW L, NEW R, NEW M, NEW Q, Known(L, R), Known(M, Q)', NEW p \in Procs, StepOf(p, L, M),
         call'[p] = call[p], Effective(p), Effective(p)', res'[p] = res[p],
         InChain(p), InChain(p)', Mine(p)' = Mine(p)
  PROVE  Refines(p)
  <1>1. /\ AbsMap' = [AbsMap EXCEPT ![call[p].key] = Mine(p)] /\ AbsMap[call[p].key] = Mine(p)
    BY MapPut
  <1>2. MapOf
    BY MapIs DEF Known, FullState
  <1>3. AbsMap' = AbsMap
    <2>1. AbsMap = [j \in Keys |-> AbsMap[j]]
      BY <1>2 DEF MapOf
    <2> QED BY <1>1, <2>1
  <1>4. OutOf(p)' = OutOf(p)
    BY DEF OutOf
  <1>5. Acts(p) /\ TypeInv'
    BY DEF Known, StepOf
  <1> QED BY <1>3, <1>4, <1>5, Unseen

(* What is stored under the key of a call that works on its chain.         *)
LookupOf(p, L) == InChain(p) =>
  LET c == db[p].chainoff  k == call[p].key IN
  /\ (\A x \in L[c] \ {c} : keyof[x] # k) => Lookup(k) = None
  /\ \A x \in L[c] \ {c} : keyof[x] = k => Lookup(k) = valof[x] /\ Lookup(k) # None
LEMMA LookupOfKey ==
  ASSUME NEW L, NEW R, Known(L, R), NEW p \in Procs
  PROVE  LookupOf(p, L)
  <1> SUFFICES ASSUME InChain(p) PROVE LookupOf(p, L)
    BY DEF LookupOf
  <1>0. TypeInv /\ LockInv /\ ListState(L, R)
    BY DEF Known, FullState
  <1> DEFINE c == db[p].chainoff
             k == call[p].key
  <1>1. k \in Keys /\ c = Hash[k]
    BY <1>0 DEF ListState, Doing, Keyed
  <1>2. FoundIs(L)
    BY <1>0, LookupIs
  <1>3. \A x \in L[c] \ {c} : valof[x] # None
    <2>1. c \in Heads
      BY <1>0, ChainOfKey
    <2>2. \A x \in L[c] \ {c} : x \in AllRecs
      BY <1>0, <2>1, ListOf DEF ListState
    <2>3. \A x \in AllRecs : valof[x] = dat[offof[x]] /\ offof[x] \in 1 .. Len(dat)
      BY <1>0, FileValues
    <2>4. \A d \in 1 .. Len(dat) : dat[d] \in Data \cup {Blank}
      BY <1>0 DEF TypeInv, FilesOK
    <2> HIDE DEF c
    <2> QED BY <2>2, <2>3, <2>4, NamesAssumption
  <1> HIDE DEF c, k
  <1>4. /\ (\A x \in L[c] \ {c} : keyof[x] # k) => Lookup(k) = None
        /\ \A x \in L[c] \ {c} : keyof[x] = k => Lookup(k) = valof[x] /\ Lookup(k) # None
    BY <1>1, <1>2, <1>3 DEF FoundIs
  <1> QED BY <1>4 DEF LookupOf, c, k
LEMMA LookupOfKeyNext ==
  ASSUME NEW CONSTANT L, NEW CONSTANT R, NEW CONSTANT p \in Procs
  PROVE  Known(L, R)' => LookupOf(p, L)'
  <1>1. Known(L, R) => LookupOf(p, L)
    BY LookupOfKey
  <1> QED BY <1>1, PTL

(* A call ends where the walk along the chain ends: the map holds nothing  *)
(* under its key when no record does, and something when one does.         *)
LEMMA MissAnswers ==
  ASSUME NEW L, NEW R, NEW M, NEW Q, Known(L, R), Known(M, Q)', NEW p \in Procs, StepOf(p, L, M),
         pc[p] \in {"find.head", "find.rec"}, call'[p] = call[p], AfterMiss(p),
         \A x \in L[db[p].chainoff] \ {db[p].chainoff} : keyof[x] # call[p].key
  PROVE  Refines(p)
  <1>0. /\ Acts(p) /\ TypeInv /\ TypeInv' /\ AnswerInv
        /\ res = [q \in Procs |-> res[q]] /\ Answer(pc[p], call[p], db[p].offset, res[p])
    BY DEF Known, StepOf, AnswerInv
  <1>1. InChain(p) /\ ~Effective(p) /\ \A k \in Keys : ~Changing(p, k)
    BY DEF InChain, OnChain, Effective, Erased, Changing
  <1>2. pc'[p] \in {"unlock", "ins.head"}
    BY <1>0, Functions3 DEF AfterMiss, Goto
  <1>3. CASE pc'[p] = "ins.head"
    <2>1. ~Effective(p)'
      BY <1>3 DEF Effective, Erased
    <2> QED BY <1>1, <2>1, EarlyRefines
  <1>4. CASE pc'[p] = "unlock"
    <2>1. Effective(p)' /\ InChain(p)'
      BY <1>4 DEF Effective, InChain, OnChain
    <2>2. AbsMap' = AbsMap
      <3>1. ASSUME NEW k \in Keys PROVE ~Writing(p, k) /\ ~Writing(p, k)' /\ ~Changing(p, k)
        BY <1>1, <1>4 DEF Writing
      <3> QED BY <3>1, MapSame
    <2>3. AbsMap[call[p].key] = None
      <3>1. AbsMap[call[p].key] = Mine(p)
        BY <1>1, <2>1, MapPut
      <3>2. Mine(p) = Lookup(call[p].key)
        BY <1>1 DEF Mine, Writing
      <3>3. LookupOf(p, L)
        BY LookupOfKey
      <3> QED BY <1>1, <3>1, <3>2, <3>3 DEF LookupOf
    <2>4. call[p] # None
      BY <1>0, HandleOf DEF ProcOK, Working, OnChain
    <2>5. \/ call[p].f = "fetch" /\ res'[p] = None
          \/ call[p].f = "delete" /\ res'[p] = -1
          \/ call[p].f = "store" /\ call[p].flag = "REPLACE" /\ res'[p] = -1
      <3>1. call[p].f = "fetch" => res[p] = None
        BY <1>0 DEF Answer, Working, OnChain
      <3>2. \/ call[p].f = "fetch" /\ res' = res
            \/ call[p].f = "delete" /\ Result(p, -1)
            \/ call[p].f = "store" /\ call[p].flag = "REPLACE" /\ Result(p, -1)
        BY <1>0, <1>4, Functions3 DEF AfterMiss, Goto
      <3>3. Result(p, -1) => res'[p] = -1
        BY <1>0 DEF Result
      <3> QED BY <3>1, <3>2, <3>3
    <2> QED BY <1>0, <1>1, <2>1, <2>2, <2>3, <2>4, <2>5, TakesEffect
  <1> QED BY <1>2, <1>3, <1>4

LEMMA HitAnswers ==
  ASSUME NEW L, NEW R, NEW M, NEW Q, Known(L, R), Known(M, Q)', NEW p \in Procs, StepOf(p, L, M),
         pc[p] = "find.rec", call'[p] = call[p], NEW x, AfterHit(p, x),
         x \in L[db[p].chainoff] \ {db[p].chainoff}, keyof[x] = call[p].key
  PROVE  Refines(p)
  <1>0. /\ Acts(p) /\ TypeInv /\ TypeInv' /\ AnswerInv
        /\ res = [q \in Procs |-> res[q]] /\ Answer(pc[p], call[p], db[p].offset, res[p])
    BY DEF Known, StepOf, AnswerInv
  <1>1. InChain(p) /\ ~Effective(p) /\ \A k \in Keys : ~Changing(p, k)
    BY DEF InChain, OnChain, Effective, Erased, Changing
  <1>2. pc'[p] \in {"fetch.dat", "del.lock", "rep.dat", "unlock"}
    BY <1>0, Functions3 DEF AfterHit, Goto
  <1>3. CASE pc'[p] # "unlock"
    <2>1. ~Effective(p)'
      BY <1>2, <1>3 DEF Effective, Erased
    <2> QED BY <1>1, <2>1, EarlyRefines
  <1>4. CASE pc'[p] = "unlock"
    <2>1. Effective(p)' /\ InChain(p)'
      BY <1>4 DEF Effective, InChain, OnChain
    <2>2. AbsMap' = AbsMap
      <3>1. ASSUME NEW k \in Keys PROVE ~Writing(p, k) /\ ~Writing(p, k)' /\ ~Changing(p, k)
        BY <1>1, <1>4 DEF Writing
      <3> QED BY <3>1, MapSame
    <2>3. AbsMap[call[p].key] # None
      <3>1. AbsMap[call[p].key] = Mine(p)
        BY <1>1, <2>1, MapPut
      <3>2. Mine(p) = Lookup(call[p].key)
        BY <1>1 DEF Mine, Writing
      <3>3. LookupOf(p, L)
        BY LookupOfKey
      <3> QED BY <1>1, <3>1, <3>2, <3>3 DEF LookupOf
    <2>4. call[p] # None
      BY <1>0, HandleOf DEF ProcOK, Working, OnChain
    <2>5. call[p].f = "store" /\ call[p].flag = "INSERT" /\ res'[p] = 1
      <3>1. call[p].f = "store" /\ call[p].flag = "INSERT" /\ Result(p, 1)
        BY <1>0, <1>4, Functions3 DEF AfterHit, Goto
      <3> QED BY <1>0, <3>1 DEF Result
    <2> QED BY <1>0, <1>1, <2>1, <2>2, <2>3, <2>4, <2>5, TakesEffect
  <1> QED BY <1>3, <1>4

(* The walk along a chain, and the reading of the data of db_fetch.        *)
LEMMA FindRefines ==
  ASSUME NEW L, NEW R, NEW M, NEW Q, Known(L, R), Known(M, Q)', NEW p \in Procs, StepOf(p, L, M),
         Find(p)
  PROVE  Refines(p)
  <1>0. /\ Acts(p) /\ TypeInv /\ TypeInv' /\ LockInv /\ AnswerInv /\ ListState(L, R)
        /\ res = [q \in Procs |-> res[q]] /\ call'[p] = call[p]
    BY FindMoves DEF Known, StepOf, AnswerInv, FullState
  <1> DEFINE c == db[p].chainoff
             k == call[p].key
             o == db[p].offset
  <1>1. CASE FindLock(p)
    <2>1. pc[p] = "find.lock" /\ pc'[p] = "find.head"
      BY <1>0, <1>1, Functions3 DEF FindLock, Step, Goto
    <2>2. ~Effective(p) /\ ~Effective(p)' /\ \A j \in Keys : ~Changing(p, j)
      BY <2>1 DEF Effective, Erased, Changing
    <2> QED BY <1>0, <2>2, EarlyRefines
  <1>2. ASSUME pc[p] \in {"find.head", "find.rec", "fetch.dat"}
        PROVE  /\ InChain(p) /\ ~Effective(p) /\ \A j \in Keys : ~Changing(p, j)
               /\ Linked(L[c], c, R[c], next) /\ c \in L[c] /\ c \in Heads /\ Walks(p, L, R)
               /\ \A y \in L[c] : R[c][y] \in Nat /\ (y # c => R[c][y] < R[c][c])
               /\ \A x, y \in L[c] : R[c][x] = R[c][y] => x = y
    <2>1. InChain(p) /\ ~Deleting(p) /\ ~Effective(p) /\ \A j \in Keys : ~Changing(p, j)
      BY <1>2 DEF InChain, OnChain, Deleting, Effective, Erased, Changing
    <2>2. Linked(L[c], c, R[c], next)
      BY <1>0, <2>1, OwnChain
    <2>3. c \in Heads
      BY <1>0, <2>1, ChainOfKey
    <2>4. Walks(p, L, R)
      BY <1>0 DEF ListState, Doing
    <2> HIDE DEF c
    <2> QED BY <2>1, <2>2, <2>3, <2>4 DEF Linked
  <1>3. CASE FindHead(p)
    <2>1. pc[p] = "find.head" /\ db[p].ptroff = c
      BY <1>2, <1>3 DEF FindHead, Walks
    <2>2. ReadPtr(db[p].ptroff) = next[c]
      BY <1>0, <1>2, <2>1, FileValues, RecordNumbers
    <2>3. CASE next[c] # 0
      <3>1. pc'[p] = "find.rec"
        BY <1>0, <1>3, <2>1, <2>2, <2>3, Functions3 DEF FindHead, Goto
      <3>2. ~Effective(p)'
        BY <3>1 DEF Effective, Erased
      <3> QED BY <1>0, <1>2, <2>1, <3>2, EarlyRefines
    <2>4. CASE next[c] = 0
      <3>1. AfterMiss(p)
        BY <1>3, <2>2, <2>4 DEF FindHead
      <3>2. \A x \in L[c] \ {c} : keyof[x] # k
        <4> HIDE DEF c
        <4>1. \A y \in L[c] : R[c][y] >= R[c][c]
          BY <1>2, <2>1, <2>4, Successor
        <4> QED BY <1>2, <2>1, <4>1
      <3> QED BY <1>0, <2>1, <3>1, <3>2, MissAnswers
    <2> QED BY <2>3, <2>4
  <1>4. CASE FindRec(p)
    <2>1. pc[p] = "find.rec"
      BY <1>4 DEF FindRec
    <2>2. /\ o \in L[c] \ {c}
          /\ \A x \in L[c] \ {c} : R[c][x] > R[c][o] => keyof[x] # k
      BY <1>2, <2>1 DEF Walks
    <2>3. o \in AllRecs
      BY <1>0, <1>2, <2>1, <2>2, ListOf DEF ListState
    <2>4. keyof[o] = Rec(o).key /\ ReadIdx(p, o).ptrval = next[o]
      BY <1>0, <2>3, FileValues, ReadIdxIs
    <2>5. CASE Rec(o).key = k
      <3>1. AfterHit(p, o)
        BY <1>4, <2>5 DEF FindRec
      <3> QED BY <1>0, <2>1, <2>2, <2>4, <2>5, <3>1, HitAnswers
    <2>6. CASE Rec(o).key # k /\ next[o] = 0
      <3>1. AfterMiss(p)
        BY <1>4, <2>4, <2>6 DEF FindRec
      <3>2. \A x \in L[c] \ {c} : keyof[x] # k
        <4> HIDE DEF c, o, k
        <4>1. \A y \in L[c] : R[c][y] >= R[c][o]
          BY <1>2, <2>1, <2>2, <2>6, Successor
        <4>2. \A y \in L[c] \ {c} : y = o \/ R[c][y] > R[c][o]
          BY <1>2, <2>1, <2>2, <4>1
        <4> QED BY <2>2, <2>4, <2>6, <4>2
      <3> QED BY <1>0, <2>1, <3>1, <3>2, MissAnswers
    <2>7. CASE Rec(o).key # k /\ next[o] # 0
      <3>1. pc' = pc
        BY <1>4, <2>4, <2>7 DEF FindRec
      <3>2. ~Effective(p)'
        BY <2>1, <3>1 DEF Effective, Erased
      <3> QED BY <1>0, <1>2, <2>1, <3>2, EarlyRefines
    <2> QED BY <2>5, <2>6, <2>7
  <1>5. CASE FetchDat(p)
    <2>1. pc[p] = "fetch.dat" /\ pc'[p] = "unlock" /\ res'[p] = dat[db[p].datoff]
      BY <1>0, <1>5, Functions3 DEF FetchDat, Step, Goto, Result
    <2>2. Effective(p)' /\ InChain(p)'
      BY <2>1 DEF Effective, InChain, OnChain
    <2>3. AbsMap' = AbsMap
      <3>1. ASSUME NEW j \in Keys PROVE ~Writing(p, j) /\ ~Writing(p, j)' /\ ~Changing(p, j)
        BY <1>2, <2>1 DEF Writing
      <3> QED BY <3>1, MapSame
    <2>4. AbsMap[k] = Lookup(k)
      <3>1. AbsMap[k] = Mine(p)
        BY <1>0, <1>2, <2>1, <2>2, MapPut
      <3> QED BY <1>2, <2>1, <3>1 DEF Mine, Writing
    <2>5. /\ db[p].idxoff \in L[c] \ {c} /\ keyof[db[p].idxoff] = k
          /\ db[p].datoff = offof[db[p].idxoff]
      BY <1>0, <2>1 DEF ListState, Doing, Finds
    <2>6. Lookup(k) = valof[db[p].idxoff]
      <3>1. LookupOf(p, L)
        BY LookupOfKey
      <3> QED BY <1>2, <2>1, <2>5, <3>1 DEF LookupOf
    <2>7. valof[db[p].idxoff] = dat[db[p].datoff]
      <3>1. db[p].idxoff \in AllRecs
        BY <1>0, <1>2, <2>1, <2>5, ListOf DEF ListState
      <3> QED BY <1>0, <2>5, <3>1, FileValues
    <2>8. call[p] # None
      BY <1>0, <2>1, HandleOf DEF ProcOK, Working, OnChain
    <2>9. call[p].f = "fetch"
      BY <1>0, <2>1 DEF AnswerInv, Answer
    <2> QED BY <1>0, <1>2, <2>1, <2>2, <2>3, <2>4, <2>6, <2>7, <2>8, <2>9, TakesEffect
  <1> QED BY <1>1, <1>3, <1>4, <1>5 DEF Find

LEMMA WritesPtr ==
  ASSUME TypeInv, NEW p \in Procs, NEW o, NEW v, NEW l, WritePtr(p, o, v, l), pc'[p] # "dead"
  PROVE  pc'[p] = l /\ call' = call /\ db' = db /\ res' = res
  BY Functions3 DEF WritePtr, Exit, Goto

(* Where the call of p goes on writing, what it writes is the same.        *)
LEMMA WritesOn ==
  ASSUME NEW p, call'[p] = call[p], Writing(p, call[p].key), Writing(p, call[p].key)'
  PROVE  Mine(p)' = Mine(p)
  BY DEF Mine, WriteOf

(* db_delete, and db_store that replaces a value of another length, take   *)
(* effect when they erase the data.                                        *)
LEMMA DelDatRefines ==
  ASSUME NEW L, NEW R, NEW M, NEW Q, Known(L, R), Known(M, Q)', NEW p \in Procs, StepOf(p, L, M),
         DelDat(p)
  PROVE  Refines(p)
  <1> DEFINE k == call[p].key
  <1>0. /\ Acts(p) /\ TypeInv /\ TypeInv' /\ LockInv /\ AnswerInv /\ ListState(L, R)
        /\ Answer(pc[p], call[p], db[p].offset, res[p])
    BY DEF Known, StepOf, AnswerInv, FullState
  <1>1. pc[p] = "del.dat" /\ pc'[p] = "del.free" /\ call' = call /\ res' = res
    BY <1>0, Functions3 DEF DelDat, Step, Goto
  <1>2. /\ call[p] # None /\ call[p].f \in {"store", "delete"} /\ res[p] = 0
        /\ call[p].f = "store" => call[p].flag # "INSERT"
    <2>1. ProcOK(pc[p], call[p], db[p], pos[p], Len(idx), Len(dat))
      BY <1>0, HandleOf
    <2>2. call[p] # None /\ call[p].f \in {"store", "delete"}
      BY <1>1, <2>1 DEF ProcOK, Working, OnFree, OfDelete
    <2> QED BY <1>0, <1>1, <2>2 DEF Answer, Working, OnFree, Replacing
  <1>3. InChain(p) /\ InChain(p)' /\ ~Effective(p) /\ Effective(p)'
    BY <1>1 DEF InChain, OnFree, Effective, Erased
  <1>4. k \in Keys /\ AbsMap[k] = Mine(p) /\ AbsMap' = [AbsMap EXCEPT ![k] = Mine(p)']
    BY <1>1, <1>3, MapPut
  <1>5. AbsMap[k] # None
    <2>1. Mine(p) = Lookup(k)
      BY <1>3 DEF Mine, Writing
    <2>2. db[p].idxoff \in L[db[p].chainoff] \ {db[p].chainoff} /\ keyof[db[p].idxoff] = k
      BY <1>0, <1>1 DEF ListState, Doing, Finds
    <2>3. LookupOf(p, L)
      BY LookupOfKey
    <2> QED BY <1>3, <1>4, <2>1, <2>2, <2>3 DEF LookupOf
  <1>6. Mine(p)' = IF call[p].f = "store" THEN call[p].data ELSE None
    <2>1. Writing(p, k)'
      BY <1>1, <1>2, <1>3 DEF Writing
    <2> QED BY <1>1, <2>1 DEF Mine, WriteOf
  <1>7. AbsMap' = [AbsMap EXCEPT ![k] = IF call[p].f = "store" THEN call[p].data ELSE None]
    BY <1>4, <1>6
  <1> QED BY <1>0, <1>1, <1>2, <1>3, <1>5, <1>7, TakesEffect

LEMMA DeleteRefines ==
  ASSUME NEW L, NEW R, NEW M, NEW Q, Known(L, R), Known(M, Q)', NEW p \in Procs, StepOf(p, L, M),
         Delete(p)
  PROVE  Refines(p)
  <1> DEFINE k == call[p].key
  <1>0. /\ Acts(p) /\ TypeInv /\ TypeInv' /\ LockInv /\ AnswerInv /\ ListState(L, R) /\ pc'[p] # "dead"
    BY DEF Known, StepOf, FullState
  <1>1. CASE DelLock(p)
    <2>1. pc[p] = "del.lock" /\ pc'[p] = "del.dat" /\ call' = call
      BY <1>0, <1>1, Functions3 DEF DelLock, Step, Goto
    <2>2. ~Effective(p) /\ ~Effective(p)' /\ \A j \in Keys : ~Changing(p, j)
      BY <2>1 DEF Effective, Erased, Changing
    <2> QED BY <2>1, <2>2, EarlyRefines
  <1>2. CASE DelDat(p)
    BY <1>2, DelDatRefines
  <1>3. CASE DelFree(p) \/ DelIdx(p) \/ DelSetHead(p) \/ DelUnlink(p) \/ DelUnlock(p)
    <2>1. /\ \/ pc[p] = "del.free" /\ pc'[p] = "del.idx"
             \/ pc[p] = "del.idx" /\ pc'[p] = "del.sethead"
             \/ pc[p] = "del.sethead" /\ pc'[p] = "del.unlink"
             \/ pc[p] = "del.unlink" /\ pc'[p] = "del.unlock"
             \/ pc[p] = "del.unlock" /\ pc'[p] = IF call[p].f = "store" THEN "app.reread" ELSE "unlock"
          /\ call' = call /\ res' = res
      BY <1>0, <1>3, WritesPtr, Functions3 DEF DelFree, DelIdx, DelSetHead, DelUnlink, DelUnlock, Step, Goto
    <2>2. InChain(p) /\ InChain(p)' /\ Effective(p) /\ Effective(p)'
      BY <2>1 DEF InChain, OnFree, OnChain, Effective, Erased
    <2>3. call[p] # None /\ call[p].f \in {"store", "delete"}
      <3>1. ProcOK(pc[p], call[p], db[p], pos[p], Len(idx), Len(dat))
        BY <1>0, HandleOf
      <3> QED BY <2>1, <3>1 DEF ProcOK, Working, OnFree, OfDelete
    <2>4. Writing(p, k)
      BY <2>1, <2>2, <2>3 DEF Writing
    <2>5. CASE pc'[p] # "unlock"
      <3>1. Writing(p, k)'
        BY <2>1, <2>2, <2>3, <2>5 DEF Writing
      <3>2. Mine(p)' = Mine(p)
        BY <2>1, <2>4, <3>1, WritesOn
      <3> QED BY <2>1, <2>2, <3>2, LateRefines
    <2>6. CASE pc'[p] = "unlock"
      <3>1. pc[p] = "del.unlock" /\ call[p].f = "delete"
        BY <2>1, <2>3, <2>6
      <3>2. Mine(p) = None
        BY <2>4, <3>1 DEF Mine, WriteOf
      <3>3. Mine(p)' = Lookup(k)'
        BY <2>1, <2>6 DEF Mine, Writing
      <3>4. Lookup(k)' = None
        <4> DEFINE c == db[p].chainoff
        <4>1. \A x \in L[c] \ {c} : keyof[x] # k
          BY <1>0, <3>1 DEF ListState, Doing, Missed
        <4>2. M[c] = L[c]
          <5>1. c \in Chains
            BY <1>0, <2>2, ChainOfKey
          <5> QED BY <3>1, <5>1 DEF StepOf, Relinks, TakesOff, PutsOn
        <4>3. keyof' = keyof /\ db' = db
          <5>1. UNCHANGED files /\ db' = db
            BY <1>3, <3>1 DEF DelFree, DelIdx, DelSetHead, DelUnlink, DelUnlock, Step, files
          <5> QED BY <5>1, SameFiles
        <4>4. LookupOf(p, M)'
          BY LookupOfKeyNext
        <4> QED BY <2>1, <2>2, <4>1, <4>2, <4>3, <4>4 DEF LookupOf
      <3>6. Mine(p)' = Mine(p)
        BY <3>2, <3>3, <3>4
      <3> QED BY <2>1, <2>2, <3>6, LateRefines
    <2> QED BY <2>5, <2>6
  <1> QED BY <1>1, <1>2, <1>3 DEF Delete

(* Nothing happens to the map while a free record is looked for.           *)
LEMMA FindFreeRefines ==
  ASSUME NEW L, NEW R, NEW M, NEW Q, Known(L, R), Known(M, Q)', NEW p \in Procs, StepOf(p, L, M),
         FindFree(p)
  PROVE  Refines(p)
  <1>0. TypeInv /\ pc'[p] # "dead"
    BY DEF Known, StepOf
  <1> USE Functions3, <1>0 DEF Step, Goto
  <1>1. /\ pc[p] \in {"ins.head", "ff.lock", "ff.head", "ff.rec", "ff.take", "ff.unlock"}
        /\ \/ pc'[p] \in {"ff.lock", "ff.head", "ff.rec", "ff.take", "ff.unlock", "reuse.dat"}
           \/ pc'[p] = "app.datlock" /\ db'[p].offset = 0
        /\ call' = call
    <2>1. CASE InsHead(p)
      BY <2>1 DEF InsHead
    <2>2. CASE FindFreeLock(p)
      BY <2>2 DEF FindFreeLock
    <2>3. CASE FindFreeHead(p)
      BY <2>3 DEF FindFreeHead
    <2>4. CASE FindFreeRec(p)
      BY <2>4 DEF FindFreeRec
    <2>5. CASE FindFreeTake(p)
      BY <2>5, WritesPtr DEF FindFreeTake
    <2>6. CASE FindFreeUnlock(p)
      BY <2>6 DEF FindFreeUnlock
    <2> QED BY <2>1, <2>2, <2>3, <2>4, <2>5, <2>6 DEF FindFree
  <1>2. ~Effective(p) /\ ~Effective(p)' /\ \A j \in Keys : ~Changing(p, j)
    BY <1>1 DEF Effective, Erased, Changing
  <1> QED BY <1>1, <1>2, EarlyRefines

(* db_store of a new key takes effect when the index record is written.    *)
LEMMA NewRefines ==
  ASSUME NEW L, NEW R, NEW M, NEW Q, Known(L, R), Known(M, Q)', NEW p \in Procs, StepOf(p, L, M),
         pc[p] \in {"reuse.idx", "app.idx"}, ~Effective(p), pc'[p] \in {"link", "app.idxunlock"},
         call' = call, res' = res
  PROVE  Refines(p)
  <1> DEFINE k == call[p].key
  <1>0. /\ Acts(p) /\ TypeInv /\ TypeInv' /\ LockInv /\ AnswerInv /\ ListState(L, R)
        /\ Answer(pc[p], call[p], db[p].offset, res[p])
    BY DEF Known, StepOf, AnswerInv, FullState
  <1>1. call[p] # None /\ call[p].f = "store" /\ res[p] = 0 /\ call[p].flag # "REPLACE"
    <2>1. ProcOK(pc[p], call[p], db[p], pos[p], Len(idx), Len(dat))
      BY <1>0, HandleOf
    <2>2. call[p] # None /\ call[p].f = "store"
      BY <2>1 DEF ProcOK, Working, OnChain, OnTail, OfStore
    <2>3. pc[p] \in Inserting \/ (pc[p] \in Adding /\ db[p].offset = 0)
      BY DEF Inserting, Adding, Effective
    <2> QED BY <1>0, <2>2, <2>3 DEF Answer, Working, OnChain, OnTail
  <1>2. InChain(p) /\ InChain(p)' /\ Effective(p)'
    BY DEF InChain, OnChain, OnTail, Effective
  <1>3. k \in Keys /\ AbsMap[k] = Mine(p) /\ AbsMap' = [AbsMap EXCEPT ![k] = Mine(p)']
    BY <1>2, MapPut
  <1>4. AbsMap[k] = None
    <2>1. Mine(p) = Lookup(k)
      BY DEF Mine, Writing
    <2>2. \A x \in L[db[p].chainoff] \ {db[p].chainoff} : keyof[x] # k
      BY <1>0 DEF ListState, Doing, Missed, OfStore, OnTail
    <2>3. LookupOf(p, L)
      BY LookupOfKey
    <2> QED BY <1>2, <1>3, <2>1, <2>2, <2>3 DEF LookupOf
  <1>5. Mine(p)' = call[p].data
    <2>1. Writing(p, k)'
      BY <1>1, <1>2 DEF Writing
    <2> QED BY <1>1, <2>1 DEF Mine, WriteOf
  <1>6. AbsMap' = [AbsMap EXCEPT ![k] = call[p].data]
    BY <1>3, <1>5
  <1> QED BY <1>0, <1>1, <1>2, <1>4, <1>6, TakesEffect

(* ... and of a value as long as the old one when the data is written.     *)
LEMMA ReplaceRefines ==
  ASSUME NEW L, NEW R, NEW M, NEW Q, Known(L, R), Known(M, Q)', NEW p \in Procs, StepOf(p, L, M),
         ReplaceDat(p)
  PROVE  Refines(p)
  <1> DEFINE k == call[p].key
             c == db[p].chainoff
             o == db[p].idxoff
  <1>0. /\ Acts(p) /\ TypeInv /\ TypeInv' /\ LockInv /\ AnswerInv /\ ListState(L, R)
        /\ Answer(pc[p], call[p], db[p].offset, res[p])
    BY DEF Known, StepOf, AnswerInv, FullState
  <1>1. /\ pc[p] = "rep.dat" /\ pc'[p] = "unlock" /\ call' = call /\ res' = res /\ db' = db
        /\ dat' = [dat EXCEPT ![db[p].datoff] = call[p].data] /\ idx' = idx /\ head' = head
    BY <1>0, Functions3 DEF ReplaceDat, Step, Goto
  <1>2. call[p] # None /\ call[p].f = "store" /\ res[p] = 0 /\ call[p].flag # "INSERT"
    <2>1. ProcOK(pc[p], call[p], db[p], pos[p], Len(idx), Len(dat))
      BY <1>0, HandleOf
    <2>2. call[p] # None /\ call[p].f = "store"
      BY <1>1, <2>1 DEF ProcOK, Working, OnChain, OfStore
    <2> QED BY <1>0, <1>1, <2>2 DEF Answer, Working, OnChain, Replacing
  <1>3. InChain(p) /\ InChain(p)' /\ ~Effective(p) /\ Effective(p)'
    BY <1>1 DEF InChain, OnChain, Effective, Erased
  <1>4. k \in Keys /\ AbsMap[k] = Mine(p) /\ AbsMap' = [AbsMap EXCEPT ![k] = Mine(p)']
    BY <1>1, <1>3, MapPut
  <1>5. o \in L[c] \ {c} /\ keyof[o] = k /\ o \in AllRecs
    BY <1>0, <1>1, OwnRecord
  <1>6. AbsMap[k] # None
    <2>1. Mine(p) = Lookup(k)
      BY <1>3 DEF Mine, Writing
    <2>2. LookupOf(p, L)
      BY LookupOfKey
    <2> QED BY <1>3, <1>4, <1>5, <2>1, <2>2 DEF LookupOf
  <1>7. Mine(p)' = call[p].data
    <2>1. Mine(p)' = Lookup(k)'
      BY <1>1 DEF Mine, Writing
    <2>2. M[c] = L[c]
      <3>1. c \in Chains
        BY <1>0, <1>3, ChainOfKey
      <3> QED BY <1>1, <3>1 DEF StepOf, Relinks, TakesOff, PutsOn
    <2>3. valof'[o] = call[p].data /\ keyof'[o] = k
      BY <1>0, <1>1, <1>5, DataWritten
    <2>4. LookupOf(p, M)'
      BY LookupOfKeyNext
    <2>5. Lookup(k)' = valof'[o]
      BY <1>1, <1>3, <1>5, <2>2, <2>3, <2>4 DEF LookupOf
    <2> QED BY <2>1, <2>3, <2>5
  <1>8. AbsMap' = [AbsMap EXCEPT ![k] = call[p].data]
    BY <1>4, <1>7
  <1> QED BY <1>0, <1>1, <1>2, <1>3, <1>6, <1>8, TakesEffect

(* The record that is linked holds what the call has written.              *)
LEMMA LinkRefines ==
  ASSUME NEW L, NEW R, NEW M, NEW Q, Known(L, R), Known(M, Q)', NEW p \in Procs, StepOf(p, L, M),
         Link(p)
  PROVE  Refines(p)
  <1> DEFINE k == call[p].key
             c == db[p].chainoff
             o == db[p].idxoff
  <1>0. /\ Acts(p) /\ TypeInv /\ TypeInv' /\ LockInv /\ AnswerInv /\ ListState(L, R) /\ Carries(p)
        /\ pc'[p] # "dead" /\ Relinks(p, L, M)
    BY DEF Known, StepOf, FullState, CarryInv
  <1>1. pc[p] = "link" /\ pc'[p] = "unlock" /\ call' = call /\ db' = db /\ res' = res
    BY <1>0, WritesPtr DEF Link
  <1>2. InChain(p) /\ InChain(p)' /\ Effective(p) /\ Effective(p)'
    BY <1>1 DEF InChain, OnChain, Effective
  <1>3. call[p] # None /\ call[p].f = "store"
    <2>1. ProcOK(pc[p], call[p], db[p], pos[p], Len(idx), Len(dat))
      BY <1>0, HandleOf
    <2> QED BY <1>1, <2>1 DEF ProcOK, Working, OnChain, OfStore
  <1>4. Mine(p) = call[p].data
    BY <1>1, <1>2, <1>3 DEF Mine, Writing, WriteOf
  <1>5. Mine(p)' = Lookup(k)'
    BY <1>1 DEF Mine, Writing
  <1>6. Lookup(k)' = call[p].data
    <2>1. c \in Chains /\ c \notin AllRecs
      BY <1>0, <1>2, ChainOfKey, RecordNumbers
    <2>2. o \in AllRecs /\ keyof[o] = k
      BY <1>0, <1>1 DEF ListState, Doing, Holds, Holding
    <2>3. valof[o] = call[p].data
      BY <1>0, <1>1 DEF Carries
    <2>4. o \in M[c] \ {c}
      BY <1>0, <1>1, <2>1, <2>2 DEF Relinks, TakesOff, PutsOn
    <2>5. keyof'[o] = k /\ valof'[o] = valof[o]
      <3>1. FilesChange(p)
        BY <1>0, FilesDo
      <3> QED BY <1>1, <2>2, <3>1 DEF FilesChange, KeyWritten, ValWritten
    <2>6. LookupOf(p, M)'
      BY LookupOfKeyNext
    <2> QED BY <1>1, <1>2, <2>3, <2>4, <2>5, <2>6 DEF LookupOf
  <1>7. Mine(p)' = Mine(p)
    BY <1>4, <1>5, <1>6
  <1> QED BY <1>1, <1>2, <1>7, LateRefines

LEMMA WriteRefines ==
  ASSUME NEW L, NEW R, NEW M, NEW Q, Known(L, R), Known(M, Q)', NEW p \in Procs, StepOf(p, L, M),
         Write(p)
  PROVE  Refines(p)
  <1> DEFINE k == call[p].key
  <1>0. /\ Acts(p) /\ TypeInv /\ TypeInv' /\ AnswerInv /\ db[p] \in Handles
        /\ Answer(pc[p], call[p], db[p].offset, res[p])
    BY HandleOf DEF Known, StepOf, AnswerInv
  <1>1. CASE ReplaceDat(p)
    BY <1>1, ReplaceRefines
  <1>2. CASE Link(p)
    BY <1>2, LinkRefines
  <1>3. CASE ReuseDat(p)
    <2>1. pc[p] = "reuse.dat" /\ pc'[p] = "reuse.idx" /\ call' = call
      BY <1>0, <1>3, Functions3 DEF ReuseDat, Step, Goto
    <2>2. ~Effective(p) /\ ~Effective(p)' /\ \A j \in Keys : ~Changing(p, j)
      BY <2>1 DEF Effective, Erased, Changing
    <2> QED BY <2>1, <2>2, EarlyRefines
  <1>4. CASE ReuseIdx(p)
    <2>1. pc[p] = "reuse.idx" /\ pc'[p] = "link" /\ call' = call /\ res' = res
      BY <1>0, <1>4, Functions3 DEF ReuseIdx, Step, Goto
    <2>2. ~Effective(p)
      BY <2>1 DEF Effective, Erased
    <2> QED BY <2>1, <2>2, NewRefines
  <1>5. CASE AppReread(p) \/ AppDatLock(p) \/ AppDat(p) \/ AppDatUnlock(p) \/ AppIdxLock(p)
             \/ AppIdx(p) \/ AppIdxUnlock(p)
    <2>1. /\ \/ pc[p] = "app.reread" /\ pc'[p] = "app.datlock"
             \/ pc[p] = "app.datlock" /\ pc'[p] = "app.dat"
             \/ pc[p] = "app.dat" /\ pc'[p] = "app.datunlock"
             \/ pc[p] = "app.datunlock" /\ pc'[p] = "app.idxlock"
             \/ pc[p] = "app.idxlock" /\ pc'[p] = "app.idx"
             \/ pc[p] = "app.idx" /\ pc'[p] = "app.idxunlock"
             \/ pc[p] = "app.idxunlock" /\ pc'[p] = "link"
          /\ call' = call /\ res' = res
      BY <1>0, <1>5, Functions3 DEF AppReread, AppDatLock, AppDat, AppDatUnlock, AppIdxLock, AppIdx, AppIdxUnlock, Step, Goto
    <2>2. db'[p].offset = db[p].offset
      BY <1>0, <1>5, Functions3 DEF AppReread, AppDatLock, AppDat, AppDatUnlock, AppIdxLock, AppIdx, AppIdxUnlock, Handle, Handles
    <2>3. call[p] # None /\ call[p].f = "store"
      <3>1. ProcOK(pc[p], call[p], db[p], pos[p], Len(idx), Len(dat))
        BY <1>0, HandleOf
      <3> QED BY <2>1, <3>1 DEF ProcOK, Working, OnChain, OnData, OnTail, OfStore
    <2>4. InChain(p) /\ InChain(p)' /\ pc'[p] # "unlock" /\ pc[p] # "unlock"
      BY <2>1 DEF InChain, OnChain, OnData, OnTail
    <2>5. pc[p] = "app.reread" => db[p].offset # 0
      BY <1>0 DEF Answer
    <2>6. CASE Effective(p)
      <3>1. Effective(p)'
        BY <2>1, <2>2, <2>5, <2>6 DEF Effective, Erased
      <3>2. Writing(p, k) /\ Writing(p, k)'
        BY <2>1, <2>3, <2>4, <2>6, <3>1 DEF Writing
      <3>3. Mine(p)' = Mine(p)
        BY <2>1, <3>2, WritesOn
      <3> QED BY <2>1, <2>4, <2>6, <3>1, <3>3, LateRefines
    <2>7. CASE ~Effective(p) /\ pc[p] = "app.idx"
      BY <2>1, <2>7, NewRefines
    <2>8. CASE ~Effective(p) /\ pc[p] # "app.idx"
      <3>1. ~Effective(p)' /\ \A j \in Keys : ~Changing(p, j)
        BY <2>1, <2>2, <2>8 DEF Effective, Erased, Changing
      <3> QED BY <2>1, <2>8, <3>1, EarlyRefines
    <2> QED BY <2>6, <2>7, <2>8
  <1> QED BY <1>1, <1>2, <1>3, <1>4, <1>5 DEF Write

(* The record that db_nextrec has read is live, so it is on the chain of   *)
(* its key with nobody at work on it, or about to be linked by the call    *)
(* that wrote it: the map holds its value.                                 *)
LEMMA ScannedPair ==
  ASSUME NEW L, NEW R, Known(L, R), NEW p \in Procs, pc[p] = "scan.dat"
  PROVE  LET k == db[p].idxbuf IN
         k \in Keys /\ AbsMap[k] = dat[db[p].datoff] /\ AbsMap[k] # None
  <1> DEFINE k == db[p].idxbuf
             x == db[p].idxoff
             h == Hash[k]
  <1>0. TypeInv /\ LockInv /\ AnswerInv /\ ListState(L, R) /\ Placed(L) /\ CarryInv
    BY DEF Known, FullState
  <1>1. x \in AllRecs /\ db[p].datoff = offof[x] /\ k = keyof[x] /\ k \in Keys
    BY <1>0 DEF CarryInv, Carries
  <1>2. valof[x] = dat[db[p].datoff] /\ valof[x] # None
    <2>1. valof[x] = dat[offof[x]] /\ offof[x] \in 1 .. Len(dat)
      BY <1>0, <1>1, FileValues
    <2>2. \A d \in 1 .. Len(dat) : dat[d] \in Data \cup {Blank}
      BY <1>0 DEF TypeInv, FilesOK
    <2> HIDE DEF x
    <2> QED BY <1>1, <2>1, <2>2, NamesAssumption
  <1>3. MapOf
    BY <1>0, MapIs
  <1>4. CASE x \in L[h]
    <2>1. x # h
      <3>1. h \in Heads
        BY <1>1, DbAssumption, RecordNumbers, <1>0
      <3> QED BY <1>0, <1>1, <3>1, RecordNumbers
    <2>2. Lookup(k) = valof[x]
      <3>1. FoundIs(L)
        BY <1>0, LookupIs
      <3> QED BY <1>1, <1>4, <2>1, <3>1 DEF FoundIs
    <2>3. ASSUME NEW q \in Procs, Writing(q, k) PROVE FALSE
      <3>1. InChain(q) /\ call[q].key = k
        BY <1>0, <2>3, WriterInChain
      <3>2. db[q].chainoff = h
        BY <1>0, <3>1 DEF ListState, Doing, Keyed
      <3>3. pc[q] \notin OnFree
        <4>1. Exclusion
          BY <1>0, LockInvImplies
        <4>2. q # p
          BY <3>1 DEF InChain, OnChain, OnFree, OnData, OnTail
        <4> QED BY <4>1, <4>2 DEF Exclusion, Scanning
      <3>4. pc[q] \in OfStore \ {"rep.dat"}
        BY <2>3, <3>1, <3>3 DEF Writing, Effective, Erased, InChain, OnChain, OnFree, OnData, OnTail, OfStore
      <3>5. \A y \in L[db[q].chainoff] \ {db[q].chainoff} : keyof[y] # call[q].key
        BY <1>0, <3>4 DEF ListState, Doing, Missed
      <3> HIDE DEF x, k, h
      <3> QED BY <1>1, <1>4, <2>1, <3>1, <3>2, <3>5
    <2>4. AbsMap[k] = Lookup(k)
      BY <1>1, <1>3, <2>3 DEF MapOf
    <2> QED BY <1>1, <1>2, <2>2, <2>4
  <1>5. ASSUME NEW q \in Procs, Linking(q), db[q].idxoff = x
        PROVE  AbsMap[k] = valof[x]
    <2>1. pc[q] \in {"app.idxunlock", "link"} /\ InChain(q) /\ Effective(q) /\ pc[q] # "unlock"
      BY <1>5 DEF Linking, InChain, OnChain, OnTail, Effective
    <2>2. keyof[x] = call[q].key
      BY <1>0, <1>5, <2>1 DEF ListState, Doing, Holds
    <2>3. valof[x] = call[q].data
      BY <1>0, <1>5, <2>1 DEF CarryInv, Carries
    <2>4. call[q] # None /\ call[q].f = "store"
      <3>1. ProcOK(pc[q], call[q], db[q], pos[q], Len(idx), Len(dat))
        BY <1>0, HandleOf
      <3> QED BY <2>1, <3>1 DEF ProcOK, Working, OnChain, OnTail, OfStore
    <2>5. Mine(q) = call[q].data
      BY <2>1, <2>4 DEF Mine, Writing, WriteOf
    <2> QED BY <1>1, <1>3, <2>1, <2>2, <2>3, <2>5 DEF MapOf
  <1>6. x \in L[h] \/ \E q \in Procs : Linking(q) /\ db[q].idxoff = x
    BY <1>0, <1>1 DEF Placed
  <1> HIDE DEF x, h
  <1> QED BY <1>1, <1>2, <1>4, <1>5, <1>6

(* db_nextrec takes effect when it has read the data, or the end of file.  *)
LEMMA ScanRefines ==
  ASSUME NEW L, NEW R, NEW M, NEW Q, Known(L, R), Known(M, Q)', NEW p \in Procs, StepOf(p, L, M),
         Scan(p)
  PROVE  Refines(p)
  <1>0. /\ Acts(p) /\ TypeInv /\ TypeInv' /\ AnswerInv /\ pc'[p] # "dead"
        /\ res = [q \in Procs |-> res[q]] /\ Answer(pc[p], call[p], db[p].offset, res[p])
    BY DEF Known, StepOf, AnswerInv
  <1>1. CASE ScanLock(p) \/ ScanSkip(p) \/ ScanRec(p)
    <2>1. /\ pc[p] \in {"scan.lock", "scan.rec"} /\ pc'[p] \in {"scan.rec", "scan.dat"}
          /\ call' = call
      BY <1>0, <1>1, Functions3 DEF ScanLock, ScanSkip, ScanRec, Step, Goto
    <2>2. ~Effective(p) /\ ~Effective(p)' /\ \A j \in Keys : ~Changing(p, j)
      BY <2>1 DEF Effective, Erased, Changing
    <2> QED BY <2>1, <2>2, EarlyRefines
  <1>2. CASE ScanDump(p)
    BY <1>0, <1>2, ExitMoves DEF ScanDump, Moves
  <1>3. CASE ScanUnlock(p)
    BY <1>3, ReturnRefines
  <1>4. ASSUME pc[p] \in {"scan.rec", "scan.dat"}, pc'[p] = "scan.unlock", call' = call
        PROVE  /\ call[p] # None /\ call[p].f = "nextrec" /\ res[p] = None
               /\ ~Effective(p) /\ Effective(p)' /\ AbsMap' = AbsMap
    <2>1. call[p] # None /\ call[p].f = "nextrec" /\ res[p] = None
      BY <1>0, <1>4 DEF Answer, ScanLabels, Scanning
    <2>2. ~Effective(p) /\ Effective(p)'
      BY <1>4 DEF Effective, Erased
    <2>3. ASSUME NEW k \in Keys PROVE ~Writing(p, k) /\ ~Writing(p, k)' /\ ~Changing(p, k)
      BY <1>4, <2>1 DEF Writing, Changing
    <2>4. AbsMap' = AbsMap
      BY <2>3, MapSame
    <2> QED BY <2>1, <2>2, <2>4
  <1>5. CASE ScanEof(p)
    <2>1. pc[p] = "scan.rec" /\ pc'[p] = "scan.unlock" /\ call' = call /\ res' = res
      BY <1>0, <1>5, Functions3 DEF ScanEof, Step, Goto
    <2> QED BY <1>0, <1>4, <2>1, TakesEffect
  <1>6. CASE ScanDat(p)
    <2> DEFINE k == db[p].idxbuf
    <2>1. /\ pc[p] = "scan.dat" /\ pc'[p] = "scan.unlock" /\ call' = call
          /\ res'[p] = <<k, dat[db[p].datoff]>>
      BY <1>0, <1>6, Functions3 DEF ScanDat, Step, Goto, Result
    <2>2. k \in Keys /\ AbsMap[k] = dat[db[p].datoff] /\ AbsMap[k] # None
      BY <2>1, ScannedPair
    <2>3. \E j \in Keys : AbsMap[j] # None /\ res'[p] = <<j, AbsMap[j]>>
      BY <2>1, <2>2
    <2> QED BY <1>0, <1>4, <2>1, <2>3, TakesEffect
  <1> QED BY <1>1, <1>2, <1>3, <1>5, <1>6 DEF Scan

LEMMA StepRefines ==
  ASSUME NEW L, NEW R, NEW M, NEW Q, Known(L, R), Known(M, Q)', NEW p \in Procs, StepOf(p, L, M)
  PROVE  Refines(p)
  <1>1. Acts(p) /\ TypeInv /\ pc'[p] # "dead"
    BY DEF Known, StepOf
  <1>2. ~Killed(p)
    BY <1>1, ExitMoves DEF Killed, Moves
  <1>3. Begin(p) => Refines(p)
    BY BeginRefines
  <1>4. DbRewind(p) => Refines(p)
    BY RewindRefines
  <1>5. Find(p) => Refines(p)
    BY FindRefines
  <1>6. Delete(p) => Refines(p)
    BY DeleteRefines
  <1>7. FindFree(p) => Refines(p)
    BY FindFreeRefines
  <1>8. Write(p) => Refines(p)
    BY WriteRefines
  <1>9. Scan(p) => Refines(p)
    BY ScanRefines
  <1>10. Return(p) => Refines(p)
    BY ReturnRefines
  <1> QED BY <1>1, <1>2, <1>3, <1>4, <1>5, <1>6, <1>7, <1>8, <1>9, <1>10 DEF Acts, Run

(* Nothing happens to the map when nothing happens.                        *)
LEMMA StutterRefines ==
  ASSUME FullInv, FullInv', UNCHANGED vars
  PROVE  UNCHANGED Map!vars
  <1>1. PICK L, R : Known(L, R)
    BY DEF FullInv, Known
  <1>2. TypeInv /\ LockInv /\ AnswerInv /\ ListState(L, R) /\ TypeInv' /\ LockInv' /\ AnswerInv'
    BY <1>1 DEF FullInv, Known, FullState
  <1>3. ListState(L, R)'
    BY <1>2, StutterLists
  <1>4. MapOf /\ MapOf'
    BY <1>2, <1>3, MapIs, MapIsNext
  <1>5. pc' = pc /\ call' = call /\ db' = db /\ res' = res
    BY DEF vars
  <1>6. ASSUME NEW k \in Keys PROVE AbsMap'[k] = AbsMap[k]
    <2>1. Lookup(k)' = Lookup(k)
      BY <1>2, LookupStutters
    <2>2. ASSUME NEW q \in Procs PROVE (Writing(q, k)' <=> Writing(q, k)) /\ (Writing(q, k) => call'[q] = call[q])
      BY <1>5 DEF Writing, Effective
    <2> QED BY <1>4, <2>1, <2>2, KeyStays
  <1>7. AbsMap' = AbsMap
    BY <1>4, <1>6 DEF MapOf
  <1>8. AbsOut' = AbsOut
    BY <1>5 DEF AbsOut, Effective
  <1> QED BY <1>5, <1>7, <1>8 DEF Map!vars

LEMMA InitRefines == Init => Map!Init
  <1> SUFFICES ASSUME Init PROVE Map!Init
    OBVIOUS
  <1>1. FullInv
    BY FullInit
  <1>2. PICK L, R : Known(L, R)
    BY <1>1 DEF FullInv, Known
  <1>3. MapOf /\ FoundIs(L)
    BY <1>2, MapIs, LookupIs DEF Known, FullState
  <1>4. call = [p \in Procs |-> None]
    BY DEF Init
  <1>5. ASSUME NEW k \in Keys PROVE AbsMap[k] = None
    <2>1. \A q \in Procs : ~Writing(q, k)
      BY <1>4 DEF Writing
    <2>2. AbsMap[k] = Lookup(k)
      BY <1>3, <2>1 DEF MapOf
    <2>3. L[Hash[k]] \ {Hash[k]} = {}
      <3>1. Hash[k] \in Heads
        <4>1. TypeInv
          BY <1>2 DEF Known
        <4> QED BY <4>1, DbAssumption, RecordNumbers
      <3>2. L[Hash[k]] \ {Hash[k]} \subseteq AllRecs
        BY <1>2, <3>1, ListOf DEF Known, FullState, ListState
      <3>3. AllRecs = {}
        BY DbAssumption DEF Init, AllRecs
      <3> QED BY <3>2, <3>3
    <2> QED BY <1>3, <2>2, <2>3 DEF FoundIs
  <1>6. AbsMap = [k \in Keys |-> None]
    BY <1>3, <1>5 DEF MapOf
  <1>7. AbsOut = [p \in Procs |-> None]
    BY <1>4 DEF AbsOut
  <1> QED BY <1>4, <1>6, <1>7 DEF Map!Init

(* The library of db.c is a map on which every call takes effect at one    *)
(* instant between its invocation and its return, for any number of        *)
(* processes, keys, values and chains, in every behaviour in which no      *)
(* process dies in the middle: what db_fetch, db_store, db_delete and      *)
(* db_nextrec return is what that map would have returned.                 *)
THEOREM MapRefinement == Spec /\ []Alive => ImplementsMap
  <1>1. Init => FullInv
    BY FullInit
  <1>2. FullInv /\ [Next]_vars /\ Alive' => FullInv'
    BY FullStep
  <1>3. FullInv /\ FullInv' /\ Alive' /\ [Next]_vars => [Map!Next]_(Map!vars)
    <2> SUFFICES ASSUME FullInv, FullInv', Alive', [Next]_vars PROVE [Map!Next]_(Map!vars)
      OBVIOUS
    <2>1. CASE UNCHANGED vars
      BY <2>1, StutterRefines
    <2>2. ASSUME NEW p \in Procs, Acts(p) PROVE [Map!Next]_(Map!vars)
      <3>1. PICK L, R : Known(L, R)
        BY DEF FullInv, Known
      <3>2. PICK M, Q : FullState(M, Q)' /\ Relinks(p, L, M)
        BY <2>2, <3>1, FullStep DEF Known
      <3>3. Known(M, Q)'
        BY <3>2 DEF Known, FullInv
      <3>4. StepOf(p, L, M)
        BY <2>2, <3>2 DEF StepOf, Alive
      <3>5. Refines(p)
        BY <3>1, <3>3, <3>4, StepRefines
      <3> QED BY <3>5 DEF Refines, Map!Next
    <2>3. UNCHANGED vars \/ \E p \in Procs : Acts(p)
      BY FullStep
    <2> QED BY <2>1, <2>2, <2>3
  <1>4. Init => Map!Init
    BY InitRefines
  <1> HIDE DEF Map!Next, Map!Init, Map!vars
  <1> QED BY <1>1, <1>2, <1>3, <1>4, PTL DEF Spec, ImplementsMap, Map!Spec
=============================================================================
