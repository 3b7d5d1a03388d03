---------------------------- MODULE DbScanProofs ----------------------------
(***************************************************************************)
(* A sequential scan returns every key that stays, once, while any number  *)
(* of other processes append, erase and reuse records.                     *)
(***************************************************************************)
EXTENDS DbMapProofs, DbScan

(* A process that rewinds its handle scans, and makes no other call on it: *)
(* every other call moves the offset that db_nextrec goes on from.         *)
Scans(p) == [f |-> "rewind"] \in Calls[p]
ScannersScan == \A p \in Procs : Scans(p) => \A c \in Calls[p] : c.f \in {"nextrec", "rewind"}

(* The scan of p is past the record at x, and has delivered it.            *)
Passed(p, x) == x < pos[p] /\ ~(pc[p] = "scan.dat" /\ db[p].idxoff = x)
Counted(p, k) == \E x \in AllRecs : keyof[x] = k /\ seen[p][k] = IF Passed(p, x) THEN 1 ELSE 0
Erasing(p) == pc[p] \in {"del.free", "del.idx"}

(* What a scan owes is in the file, and has been returned once if the scan *)
(* is past it; a key whose record is being erased is owed to nobody.       *)
Owed(p) ==
  /\ stable[p] \subseteq Keys
  /\ ~Scans(p) => stable[p] = {}
  /\ \A k \in stable[p] : Counted(p, k)
  /\ pc[p] = "scan.unlock" /\ res[p] = None => \A k \in stable[p] : seen[p][k] = 1
Scanner(p) == Scans(p) =>
  /\ pc[p] \in {"idle"} \cup ScanLabels /\ pos[p] # 0
  /\ pc[p] = "scan.dat" => db[p].idxoff < pos[p]
ScanInv ==
  /\ stable = [p \in Procs |-> stable[p]]
  /\ seen \in [Procs -> [Keys -> Nat]]
  /\ \A p \in Procs : Owed(p) /\ Scanner(p)
  /\ \A p, q \in Procs : Erasing(q) => call[q].key \notin stable[p]

LEMMA ScanInvImplies == ScanInv => ScanComplete
  BY DEF ScanInv, Owed, Counted, ScanComplete

LEMMA ScanInvInit == ScanInit => ScanInv
  <1> SUFFICES ASSUME ScanInit PROVE ScanInv
    OBVIOUS
  <1>1. FIRST_REC # 0
    BY DbAssumption DEF FIRST_REC
  <1>2. /\ pc = [p \in Procs |-> "idle"] /\ pos = [p \in Procs |-> FIRST_REC]
        /\ stable = [p \in Procs |-> {}] /\ seen = [p \in Procs |-> [k \in Keys |-> 0]]
    BY DEF ScanInit, Init
  <1>3. ASSUME NEW p \in Procs
        PROVE  pc[p] = "idle" /\ stable[p] = {} /\ pos[p] = FIRST_REC
    BY <1>2
  <1>4. \A p \in Procs : Owed(p) /\ Scanner(p) /\ ~Erasing(p)
    BY <1>1, <1>3 DEF Owed, Scanner, Erasing
  <1>5. stable = [p \in Procs |-> stable[p]] /\ seen \in [Procs -> [Keys -> Nat]]
    BY <1>2
  <1> QED BY <1>4, <1>5 DEF ScanInv

-----------------------------------------------------------------------------
(* A key has one record, on its chain or in the hands of the process that  *)
(* is about to link it.                                                    *)
LEMMA OneRecord ==
  ASSUME NEW L, NEW R, Known(L, R), NEW x \in AllRecs, NEW y \in AllRecs,
         keyof[x] \in Keys, keyof[x] = keyof[y]
  PROVE  x = y
  <1> DEFINE k == keyof[x]
             c == Hash[k]
  <1>0. TypeInv /\ LockInv /\ ListState(L, R) /\ Placed(L)
    BY DEF Known, FullState
  <1>1. c \in Chains /\ x # c /\ y # c
    BY <1>0, DbAssumption, RecordNumbers
  <1>2. ASSUME NEW q \in Procs, NEW z \in AllRecs, Linking(q), db[q].idxoff = z, keyof[z] = k
        PROVE  /\ pc[q] \in {"app.idxunlock", "link"} /\ InChain(q) /\ call[q].f # "fetch"
               /\ db[q].chainoff = c /\ \A o \in L[c] \ {c} : keyof[o] # k
    <2>1. pc[q] \in {"app.idxunlock", "link"} /\ InChain(q) /\ pc[q] \in OfStore \ {"rep.dat"}
      BY <1>2 DEF Linking, InChain, OnChain, OnTail, OfStore
    <2>2. keyof[z] = call[q].key /\ Keyed(q) /\ Missed(q, L)
      BY <1>0, <1>2, <2>1 DEF ListState, Doing, Holds
    <2>3. call[q].f = "store"
      BY <1>0, <2>1, HandleOf
    <2> HIDE DEF k
    <2> QED BY <1>2, <2>1, <2>2, <2>3 DEF Keyed, Missed
  <1>3. CASE x \in L[c] /\ y \in L[c]
    BY <1>0, <1>1, <1>3 DEF ListState, Contents
  <1>4. ASSUME NEW q \in Procs, Linking(q), db[q].idxoff = x
        PROVE  x = y
    <2>1. CASE y \in L[c]
      BY <1>1, <1>2, <1>4, <2>1
    <2>2. ASSUME NEW r \in Procs, Linking(r), db[r].idxoff = y
          PROVE  x = y
      <3>1. q = r
        <4>1. InChain(q) /\ InChain(r) /\ call[q].f # "fetch" /\ db[q].chainoff = db[r].chainoff
          BY <1>2, <1>4, <2>2
        <4> QED BY <1>0, <4>1, Alone
      <3> QED BY <1>4, <2>2, <3>1
    <2> QED BY <1>0, <2>1, <2>2 DEF Placed
  <1>5. ASSUME NEW q \in Procs, Linking(q), db[q].idxoff = y, x \in L[c]
        PROVE  x = y
    BY <1>1, <1>2, <1>5
  <1> QED BY <1>0, <1>3, <1>4, <1>5 DEF Placed

(* The record of a key that a scan is owed stays where it is, and the key  *)
(* is nobody's to erase.                                                   *)
LEMMA OwedStays ==
  ASSUME NEW L, NEW R, Known(L, R), ScanInv, NEW p \in Procs, Acts(p),
         NEW r \in Procs, NEW x \in AllRecs, keyof[x] \in stable[r]
  PROVE  x \in AllRecs' /\ keyof'[x] = keyof[x]
  <1>0. TypeInv /\ LockInv /\ ListState(L, R) /\ CarryInv
    BY DEF Known, FullState
  <1>1. x \in AllRecs' /\ KeyWritten(p, x)
    BY <1>0, FilesDo DEF FilesChange
  <1>2. keyof[x] \in Keys /\ Blank \notin Keys
    BY DbAssumption DEF ScanInv, Owed
  <1>3. CASE pc[p] = "del.idx" /\ x = db[p].idxoff
    <2>1. keyof[x] = call[p].key
      BY <1>0, <1>3, OwnRecord
    <2> QED BY <1>3, <2>1 DEF ScanInv, Erasing
  <1>4. CASE pc[p] = "reuse.idx" /\ x = db[p].idxoff
    <2>1. keyof[x] = Blank
      BY <1>0, <1>4 DEF CarryInv, Carries, Taken
    <2> QED BY <1>2, <2>1
  <1> QED BY <1>1, <1>3, <1>4 DEF KeyWritten

(* The offsets of the others.                                              *)
LEMMA OthersSeek ==
  ASSUME TypeInv, NEW p \in Procs, Acts(p), NEW q \in Procs, q # p
  PROVE  pos'[q] = pos[q]
  <1>0. pos \in [Procs -> Nat]
    BY DEF TypeInv
  <1> USE <1>0 DEF Seek
  <1>1. CASE Begin(p) \/ DbRewind(p) \/ Return(p) \/ Killed(p)
    BY <1>1 DEF Begin, DbRewind, Return, Killed, Exit
  <1>2. CASE Find(p)
    BY <1>2 DEF Find, FindLock, FindHead, FindRec, FetchDat
  <1>3. CASE Delete(p)
    BY <1>3 DEF Delete, DelLock, DelDat, DelFree, DelIdx, DelSetHead, DelUnlink, DelUnlock, WritePtr, Exit
  <1>4. CASE FindFree(p)
    BY <1>4 DEF FindFree, InsHead, FindFreeLock, FindFreeHead, FindFreeRec, FindFreeTake, FindFreeUnlock, WritePtr, Exit
  <1>5. CASE Write(p)
    BY <1>5 DEF Write, ReuseDat, ReuseIdx, ReplaceDat, AppReread, AppDatLock, AppDat, AppDatUnlock,
                AppIdxLock, AppIdx, AppIdxUnlock, Link, WritePtr, Exit
  <1>6. CASE Scan(p)
    BY <1>6 DEF Scan, ScanLock, ScanEof, ScanSkip, ScanRec, ScanDump, ScanDat, ScanUnlock, Exit
  <1> QED BY <1>1, <1>2, <1>3, <1>4, <1>5, <1>6 DEF Acts, Run

(* How a process comes to erase a record.                                  *)
LEMMA ComesToErase ==
  ASSUME TypeInv, NEW p \in Procs, Acts(p), Erasing(p)', ~DelDat(p)
  PROVE  Erasing(p) /\ call'[p] = call[p]
  <1> USE Functions3 DEF Step, Goto, Erasing
  <1>1. CASE Begin(p) \/ DbRewind(p) \/ Return(p) \/ Killed(p)
    BY <1>1 DEF Begin, DbRewind, Return, Killed, Exit
  <1>2. CASE Find(p)
    BY <1>2 DEF Find, FindLock, FindHead, FindRec, FetchDat, AfterHit, AfterMiss
  <1>3. CASE Delete(p)
    BY <1>3 DEF Delete, DelLock, DelFree, DelIdx, DelSetHead, DelUnlink, DelUnlock, WritePtr, Exit
  <1>4. CASE FindFree(p)
    BY <1>4 DEF FindFree, InsHead, FindFreeLock, FindFreeHead, FindFreeRec, FindFreeTake, FindFreeUnlock, WritePtr, Exit
  <1>5. CASE Write(p)
    BY <1>5 DEF Write, ReuseDat, ReuseIdx, ReplaceDat, AppReread, AppDatLock, AppDat, AppDatUnlock,
                AppIdxLock, AppIdx, AppIdxUnlock, Link, WritePtr, Exit
  <1>6. CASE Scan(p)
    BY <1>6 DEF Scan, ScanLock, ScanEof, ScanSkip, ScanRec, ScanDump, ScanDat, ScanUnlock, Exit
  <1> QED BY <1>1, <1>2, <1>3, <1>4, <1>5, <1>6 DEF Acts, Run

(* The steps of a process that scans.                                      *)
LEMMA ScannerSteps ==
  ASSUME TypeInv, NEW p \in Procs, Scans(p), Scanner(p), Acts(p), pc'[p] # "dead"
  PROVE  \/ Begin(p) \/ DbRewind(p) \/ ScanLock(p) \/ ScanEof(p) \/ ScanSkip(p)
         \/ ScanRec(p) \/ ScanDat(p) \/ ScanUnlock(p)
  <1>0. pc[p] \in {"idle", "scan.lock", "scan.rec", "scan.dat", "scan.unlock"}
    BY DEF Scanner, ScanLabels, Scanning
  <1>1. ~Find(p) /\ ~Return(p)
    BY <1>0 DEF Find, FindLock, FindHead, FindRec, FetchDat, Return, Step
  <1>2. ~Delete(p)
    BY <1>0 DEF Delete, DelLock, DelDat, DelFree, DelIdx, DelSetHead, DelUnlink, DelUnlock, Step
  <1>3. ~FindFree(p)
    BY <1>0 DEF FindFree, InsHead, FindFreeLock, FindFreeHead, FindFreeRec, FindFreeTake, FindFreeUnlock, Step
  <1>4. ~Write(p)
    BY <1>0 DEF Write, ReuseDat, ReuseIdx, ReplaceDat, AppReread, AppDatLock, AppDat, AppDatUnlock,
                AppIdxLock, AppIdx, AppIdxUnlock, Link, Step
  <1>5. ~Killed(p) /\ ~ScanDump(p)
    BY Functions3 DEF Killed, ScanDump, Exit, Goto
  <1> QED BY <1>1, <1>2, <1>3, <1>4, <1>5 DEF Acts, Run, Scan

(* What a scan has passed after a step of its own.                         *)
LEMMA ScannerStays ==
  ASSUME TypeInv, ScannersScan, NEW p \in Procs, Scans(p), Scanner(p), Acts(p), pc'[p] # "dead"
  PROVE  Scanner(p)'
  <1>0. pos \in [Procs -> Nat] /\ pos[p] \in Nat /\ FIRST_REC \in Nat \ {0} /\ db[p] \in Handles
    BY DbAssumption DEF TypeInv, FIRST_REC
  <1>1. pos[p] # 0 /\ (pc[p] = "scan.dat" => db[p].idxoff < pos[p])
    BY DEF Scanner
  <1> SUFFICES /\ pc'[p] \in {"idle"} \cup ScanLabels /\ pos'[p] # 0
               /\ pc'[p] = "scan.dat" => db'[p].idxoff < pos'[p]
    BY DEF Scanner
  <1> USE Functions3 DEF Step, Goto, Seek, ScanLabels, Scanning
  <1>2. CASE Begin(p)
    BY <1>1, <1>2 DEF Begin, ScannersScan
  <1>3. CASE DbRewind(p)
    BY <1>0, <1>3 DEF DbRewind
  <1>4. CASE ScanLock(p) \/ ScanEof(p) \/ ScanDat(p) \/ ScanUnlock(p)
    BY <1>1, <1>4 DEF ScanLock, ScanEof, ScanDat, ScanUnlock
  <1>5. CASE ScanSkip(p)
    <2>1. pc'[p] = "scan.rec" /\ pos'[p] = pos[p] + 1
      BY <1>0, <1>5 DEF ScanSkip
    <2> QED BY <1>0, <2>1
  <1>6. CASE ScanRec(p)
    <2>1. pc'[p] = "scan.dat" /\ pos'[p] = pos[p] + 1 /\ db'[p] = ReadIdx(p, pos[p])
      BY <1>0, <1>6 DEF ScanRec, Handle
    <2>2. db'[p].idxoff = pos[p]
      BY <1>0, <2>1 DEF ReadIdx, Handles
    <2> QED BY <1>0, <2>1, <2>2
  <1> QED BY <1>2, <1>3, <1>4, <1>5, <1>6, ScannerSteps

(* Passing a record delivers it, unless it is erased.                      *)
LEMMA PassedNext ==
  ASSUME NEW L, NEW R, Known(L, R), BlankKeys = {}, NEW p \in Procs, Scans(p), Scanner(p),
         Acts(p), ~DbRewind(p), pc'[p] # "dead", NEW x \in AllRecs, keyof[x] \in Keys
  PROVE  /\ pc[p] # "scan.dat" => (Passed(p, x)' <=> Passed(p, x))
         /\ pc[p] = "scan.dat" => (Passed(p, x)' <=> Passed(p, x) \/ x = db[p].idxoff)
         /\ pc'[p] = "scan.unlock" /\ pc[p] # "scan.dat" => pc[p] = "scan.rec" /\ Passed(p, x)
  <1>0. TypeInv
    BY DEF Known
  <1>1. pos \in [Procs -> Nat] /\ pos[p] \in Nat /\ db[p] \in Handles /\ x \in Nat /\ pos[p] # 0
    BY <1>0, RecordNumbers DEF TypeInv, Scanner
  <1> USE Functions3, <1>0 DEF Step, Goto, Seek
  <1>2. CASE Begin(p) \/ ScanLock(p) \/ ScanUnlock(p)
    BY <1>1, <1>2 DEF Begin, ScanLock, ScanUnlock, Passed
  <1>3. CASE ScanEof(p)
    <2>1. pc[p] = "scan.rec" /\ pc'[p] = "scan.unlock" /\ pos'[p] = pos[p] /\ pos[p] >= Eof
      BY <1>3 DEF ScanEof
    <2>2. x < Eof
      BY <1>1, RecordNumbers DEF AllRecs, Eof, FIRST_REC
    <2>3. Eof \in Nat
      BY RecordNumbers DEF Eof, FIRST_REC
    <2>4. x < pos[p]
      BY <1>1, <2>1, <2>2, <2>3
    <2> QED BY <2>1, <2>4 DEF Passed
  <1>4. CASE ScanSkip(p)
    <2>1. pc[p] = "scan.rec" /\ pc'[p] = "scan.rec" /\ pos'[p] = pos[p] + 1 /\ Rec(pos[p]).key = Blank
      BY <1>1, <1>4 DEF ScanSkip, IsBlank
    <2>2. x # pos[p]
      <3>1. keyof[x] = Rec(x).key
        BY <1>1 DEF keyof
      <3> QED BY <2>1, <3>1, DbAssumption
    <2> QED BY <1>1, <2>1, <2>2 DEF Passed
  <1>5. CASE ScanRec(p)
    <2>1. pc[p] = "scan.rec" /\ pc'[p] = "scan.dat" /\ pos'[p] = pos[p] + 1 /\ db'[p] = ReadIdx(p, pos[p])
      BY <1>1, <1>5 DEF ScanRec, Handle
    <2>2. db'[p].idxoff = pos[p]
      BY <1>1, <2>1 DEF ReadIdx, Handles
    <2> QED BY <1>1, <2>1, <2>2 DEF Passed
  <1>6. CASE ScanDat(p)
    <2>1. pc[p] = "scan.dat" /\ pc'[p] = "scan.unlock" /\ pos'[p] = pos[p] /\ db'[p] = db[p]
      BY <1>1, <1>6 DEF ScanDat
    <2>2. db[p].idxoff < pos[p]
      BY <2>1 DEF Scanner
    <2> QED BY <1>1, <2>1, <2>2 DEF Passed
  <1> QED BY <1>2, <1>3, <1>4, <1>5, <1>6, ScannerSteps

(* The history of a process whose step it is not, and of one that does not *)
(* scan: what is owed only shrinks.                                        *)
LEMMA OwedOthers ==
  ASSUME NEW L, NEW R, Known(L, R), ScanInv, NEW p \in Procs, Acts(p), NEW r \in Procs, r # p,
         stable'[r] \subseteq stable[r], seen'[r] = seen[r]
  PROVE  Owed(r)' /\ Scanner(r)'
  <1>0. TypeInv /\ AnswerInv /\ Owed(r) /\ Scanner(r)
    BY DEF Known, ScanInv
  <1>1. pc'[r] = pc[r] /\ db'[r] = db[r] /\ pos'[r] = pos[r] /\ res'[r] = res[r]
    BY <1>0, OthersStay, OthersSeek, ResultsStay DEF Stays
  <1>2. ASSUME NEW k \in stable'[r] PROVE Counted(r, k)'
    <2>1. PICK x \in AllRecs : keyof[x] = k /\ seen[r][k] = IF Passed(r, x) THEN 1 ELSE 0
      BY <1>0, <1>2 DEF Owed, Counted
    <2>2. x \in AllRecs' /\ keyof'[x] = k
      BY <1>2, <2>1, OwedStays
    <2>3. Passed(r, x)' <=> Passed(r, x)
      BY <1>1 DEF Passed
    <2> QED BY <2>1, <2>2, <2>3 DEF Counted
  <1>3. Owed(r)'
    BY <1>0, <1>1, <1>2 DEF Owed, Scans
  <1> QED BY <1>0, <1>1, <1>3 DEF Scanner, Scans

(* The rewind of p.                                                        *)
LEMMA OwedRewound ==
  ASSUME NEW L, NEW R, Known(L, R), ScanInv, NEW p \in Procs, Rewound(p)
  PROVE  Owed(p)' /\ \A q \in Procs : Erasing(q) => call[q].key \notin InFile
  <1>0. TypeInv /\ LockInv /\ AnswerInv /\ ListState(L, R)
    BY DEF Known, FullState
  <1>1. /\ Scans(p) /\ pc[p] = "idle" /\ UNCHANGED <<head, idx, dat, pc, db>>
        /\ pos' = [pos EXCEPT ![p] = FIRST_REC]
        /\ stable'[p] = InFile /\ seen'[p] = [k \in Keys |-> 0]
    BY DEF Rewound, DbRewind, Seek, Scans, ScanInv
  <1>2. pos'[p] = FIRST_REC
    BY <1>0, <1>1 DEF TypeInv
  <1>3. keyof' = keyof /\ AllRecs' = AllRecs
    BY <1>1 DEF keyof, Rec, AllRecs
  <1>4. ASSUME NEW k \in InFile
        PROVE  k \in Keys /\ \E x \in AllRecs : keyof[x] = k /\ valof[x] \in Data
    <2>1. PICK x \in AllRecs : Rec(x).key = k /\ Value(x) \in Data
      BY <1>4 DEF InFile
    <2>2. keyof[x] = Rec(x).key /\ valof[x] = Value(x)
      BY <1>0, RecordNumbers DEF keyof, valof
    <2> QED BY <1>4, <2>1, <2>2 DEF InFile
  <1>5. ASSUME NEW k \in InFile PROVE Counted(p, k)'
    <2>1. PICK x \in AllRecs : keyof[x] = k
      BY <1>4, <1>5
    <2>2. x \in Nat /\ x >= FIRST_REC /\ FIRST_REC \in Nat
      BY <1>0, RecordNumbers DEF AllRecs, FIRST_REC
    <2>3. ~Passed(p, x)'
      BY <1>2, <2>2 DEF Passed
    <2> QED BY <1>1, <1>3, <1>4, <2>1, <2>3 DEF Counted
  <1>6. ASSUME NEW q \in Procs, Erasing(q), call[q].key \in InFile PROVE FALSE
    <2>1. PICK x \in AllRecs : keyof[x] = call[q].key /\ valof[x] \in Data /\ call[q].key \in Keys
      BY <1>4, <1>6
    <2>2. /\ db[q].idxoff \in AllRecs /\ keyof[db[q].idxoff] = call[q].key
          /\ valof[db[q].idxoff] = Blank
      <3>1. UsesRecord(q) /\ pc[q] \in {"del.free", "del.idx"}
        BY <1>6 DEF Erasing, UsesRecord
      <3>2. Finds(q, L) /\ Unlinks(q, L)
        BY <1>0 DEF ListState, Doing
      <3> QED BY <1>0, <3>1, <3>2, HandleOf DEF Finds, Unlinks
    <2>3. x = db[q].idxoff
      BY <2>1, <2>2, OneRecord
    <2> QED BY <2>1, <2>2, <2>3, DbAssumption
  <1> QED BY <1>1, <1>4, <1>5, <1>6 DEF Owed, Scans

(* The other steps of p.                                                   *)
LEMMA OwedOwn ==
  ASSUME NEW L, NEW R, Known(L, R), ScanInv, BlankKeys = {}, NEW p \in Procs,
         Erase(p) \/ Deliver(p) \/ Other(p), Acts(p), ~DbRewind(p), pc'[p] # "dead"
  PROVE  Owed(p)'
  <1>0. TypeInv /\ AnswerInv /\ CarryInv /\ Owed(p) /\ Scanner(p) /\ seen \in [Procs -> [Keys -> Nat]]
    BY DEF Known, ScanInv
  <1>1. stable'[p] \subseteq stable[p]
    BY DEF Erase, Deliver, Other
  <1>2. CASE ~Scans(p)
    BY <1>0, <1>1, <1>2 DEF Owed, Scans
  <1>3. CASE Scans(p) /\ pc[p] = "scan.dat"
    <2> DEFINE j == db[p].idxbuf
               o == db[p].idxoff
    <2>1. Deliver(p) /\ j \in Keys /\ o \in AllRecs /\ keyof[o] = j
      BY <1>0, <1>3 DEF Erase, Deliver, Other, DelDat, Step, CarryInv, Carries
    <2>2. /\ seen' = [seen EXCEPT ![p][j] = @ + 1] /\ pc'[p] = "scan.unlock"
          /\ res'[p] = <<j, dat[db[p].datoff]>>
      <3>1. res = [q \in Procs |-> res[q]]
        BY <1>0 DEF AnswerInv
      <3> QED BY <1>0, <2>1, <3>1, Functions3 DEF Deliver, ScanDat, Result, Step, Goto
    <2>3. ASSUME NEW k \in stable'[p] PROVE Counted(p, k)'
      <3>1. PICK x \in AllRecs : keyof[x] = k /\ seen[p][k] = IF Passed(p, x) THEN 1 ELSE 0
        BY <1>0, <1>1, <2>3 DEF Owed, Counted
      <3>2. x \in AllRecs' /\ keyof'[x] = k /\ k \in Keys
        BY <1>0, <1>1, <2>3, <3>1, OwedStays DEF Owed
      <3>3. x = o <=> k = j
        BY <2>1, <3>1, <3>2, OneRecord
      <3>4. seen'[p][k] = IF k = j THEN seen[p][k] + 1 ELSE seen[p][k]
        BY <1>0, <2>1, <2>2, <3>2
      <3>5. Passed(p, x)' <=> Passed(p, x) \/ x = o
        BY <1>0, <1>3, <3>1, <3>2, PassedNext
      <3>6. x = o => ~Passed(p, x)
        BY <1>3 DEF Passed
      <3> HIDE DEF j, o
      <3> QED BY <3>1, <3>2, <3>3, <3>4, <3>5, <3>6 DEF Counted
    <2>4. res'[p] # None
      <3>1. dat[db[p].datoff] \in Data \cup {Blank}
        <4>1. UsesData(p) /\ dat \in Seq(Data \cup {Blank})
          BY <1>0, <1>3 DEF UsesData, TypeInv, FilesOK
        <4> QED BY <1>0, <4>1, HandleOf
      <3> HIDE DEF j
      <3> QED BY <2>1, <2>2, <3>1, NamesAssumption
    <2> QED BY <1>0, <1>1, <1>3, <2>3, <2>4 DEF Owed, Scans
  <1>4. CASE Scans(p) /\ pc[p] # "scan.dat"
    <2>1. seen' = seen
      BY <1>4 DEF Erase, Deliver, Other, ScanDat, Step
    <2>2. ASSUME NEW k \in stable'[p]
          PROVE  /\ Counted(p, k)'
                 /\ pc'[p] = "scan.unlock" => seen[p][k] = 1
      <3>1. PICK x \in AllRecs : keyof[x] = k /\ seen[p][k] = IF Passed(p, x) THEN 1 ELSE 0
        BY <1>0, <1>1, <2>2 DEF Owed, Counted
      <3>2. x \in AllRecs' /\ keyof'[x] = k /\ k \in Keys
        BY <1>0, <1>1, <2>2, <3>1, OwedStays DEF Owed
      <3>3. /\ Passed(p, x)' <=> Passed(p, x)
            /\ pc'[p] = "scan.unlock" => Passed(p, x)
        BY <1>0, <1>4, <3>1, <3>2, PassedNext
      <3> QED BY <2>1, <3>1, <3>2, <3>3 DEF Counted
    <2> QED BY <1>0, <1>1, <1>4, <2>1, <2>2 DEF Owed, Scans
  <1> QED BY <1>2, <1>3, <1>4

LEMMA NoRewind ==
  ASSUME TypeInv, NEW p \in Procs, Begin(p) \/ Run(p)
  PROVE  ~DbRewind(p)
  <1> SUFFICES ASSUME pc[p] = "idle", pc' = pc PROVE FALSE
    BY DEF DbRewind
  <1>1. ~Begin(p)
    BY Functions3 DEF Begin, Goto
  <1>2. ~Find(p) /\ ~Return(p)
    BY DEF Find, FindLock, FindHead, FindRec, FetchDat, Return, Step
  <1>3. ~Delete(p)
    BY DEF Delete, DelLock, DelDat, DelFree, DelIdx, DelSetHead, DelUnlink, DelUnlock, Step
  <1>4. ~FindFree(p)
    BY DEF FindFree, InsHead, FindFreeLock, FindFreeHead, FindFreeRec, FindFreeTake, FindFreeUnlock, Step
  <1>5. ~Write(p)
    BY DEF Write, ReuseDat, ReuseIdx, ReplaceDat, AppReread, AppDatLock, AppDat, AppDatUnlock,
                AppIdxLock, AppIdx, AppIdxUnlock, Link, Step
  <1>6. ~Scan(p)
    BY DEF Scan, ScanLock, ScanEof, ScanSkip, ScanRec, ScanDump, ScanDat, ScanUnlock, Step
  <1> QED BY <1>1, <1>2, <1>3, <1>4, <1>5, <1>6 DEF Run

LEMMA ScanInvStep ==
  ASSUME ScannersScan, BlankKeys = {}, FullInv, ScanInv, [ScanNext]_hvars, Alive'
  PROVE  ScanInv'
  <1>1. CASE UNCHANGED hvars
    <2>1. /\ stable' = stable /\ seen' = seen /\ pc' = pc /\ pos' = pos /\ db' = db /\ res' = res
          /\ call' = call /\ keyof' = keyof /\ AllRecs' = AllRecs
      BY <1>1, SameFiles DEF hvars, vars, files, AllRecs
    <2> QED BY <2>1 DEF ScanInv, Owed, Scanner, Counted, Passed, Erasing, Scans
  <1>2. ASSUME NEW p \in Procs, Rewound(p) \/ Erase(p) \/ Deliver(p) \/ Other(p)
        PROVE  ScanInv'
    <2>1. Acts(p) /\ pc'[p] # "dead"
      BY <1>2 DEF Rewound, Erase, Deliver, Other, Acts, Run, Delete, Scan, Alive
    <2>2. PICK L, R : Known(L, R)
      BY DEF FullInv, Known
    <2>3. TypeInv
      BY <2>2 DEF Known
    <2>4. /\ stable' = [q \in Procs |-> stable'[q]] /\ seen' \in [Procs -> [Keys -> Nat]]
          /\ \A q \in Procs : q # p => stable'[q] \subseteq stable[q] /\ seen'[q] = seen[q]
      BY <1>2 DEF Rewound, Erase, Deliver, Other, ScanInv
    <2>5. ASSUME NEW r \in Procs, r # p PROVE Owed(r)' /\ Scanner(r)'
      BY <2>1, <2>2, <2>4, <2>5, OwedOthers
    <2>6. Owed(p)' /\ (Rewound(p) => \A q \in Procs : Erasing(q) => call[q].key \notin InFile)
      <3>1. CASE Rewound(p)
        BY <2>2, <3>1, OwedRewound
      <3>2. CASE ~Rewound(p)
        <4>1. ~DbRewind(p)
          <5>1. CASE Erase(p) \/ Deliver(p)
            BY <5>1 DEF Erase, Deliver, DelDat, ScanDat, Step, DbRewind
          <5>2. CASE Other(p)
            BY <2>3, <5>2, NoRewind DEF Other
          <5> QED BY <1>2, <3>2, <5>1, <5>2
        <4> QED BY <1>2, <2>1, <2>2, <3>2, <4>1, OwedOwn
      <3> QED BY <3>1, <3>2
    <2>7. Scanner(p)'
      BY <2>1, <2>3, ScannerStays DEF ScanInv, Scanner, Scans
    <2>8. ASSUME NEW q \in Procs, NEW r \in Procs, Erasing(q)'
          PROVE  call'[q].key \notin stable'[r]
      <3>1. CASE q # p \/ ~DelDat(p)
        <4>1. Erasing(q) /\ call'[q] = call[q]
          <5>1. CASE q # p
            BY <2>1, <2>3, <2>8, <5>1, OthersStay DEF Stays, Erasing
          <5>2. CASE q = p /\ ~DelDat(p)
            BY <2>1, <2>3, <2>8, <5>2, ComesToErase
          <5> QED BY <3>1, <5>1, <5>2
        <4>2. call[q].key \notin stable[r]
          BY <4>1 DEF ScanInv
        <4>3. stable'[r] \subseteq stable[r] \/ (Rewound(p) /\ r = p /\ stable'[r] = InFile)
          BY <1>2, <2>4 DEF Rewound, Erase, Deliver, Other, ScanInv
        <4> QED BY <2>6, <4>1, <4>2, <4>3
      <3>2. CASE q = p /\ DelDat(p)
        <4>1. Erase(p)
          <5>1. pc[p] = "del.dat"
            BY <3>2 DEF DelDat, Step
          <5> QED BY <1>2, <5>1 DEF Rewound, DbRewind, Deliver, ScanDat, Step, Other
        <4>2. stable'[r] = stable[r] \ {call[p].key} /\ call' = call
          BY <4>1 DEF Erase, DelDat
        <4> QED BY <3>2, <4>2
      <3> QED BY <3>1, <3>2
    <2> QED BY <2>4, <2>5, <2>6, <2>7, <2>8 DEF ScanInv
  <1> QED BY <1>1, <1>2 DEF ScanNext

(* The history variables only watch.                                       *)
LEMMA ScanImplementsSpec == ScanSpec => Spec
  <1>1. ScanInit => Init
    BY DEF ScanInit
  <1>2. [ScanNext]_hvars => [Next]_vars
    BY DEF ScanNext, Rewound, Erase, Deliver, Other, Next, Run, Delete, Scan, hvars
  <1> QED BY <1>1, <1>2, PTL DEF ScanSpec, Spec

(* A scan that db_rewind starts and db_nextrec goes on with to the end     *)
(* (db.c) returns every key whose record was there when it started and was *)
(* not erased since, and none of these twice, for any number of scanning   *)
(* and of writing processes, keys, values and chains: although the free    *)
(* list is locked only record by record, and records are appended, erased  *)
(* and reused around it.  A process that scans makes no other call on its  *)
(* handle, no key consists of spaces, and no process dies.                 *)
THEOREM ScansAreComplete ==
  ASSUME ScannersScan, BlankKeys = {}
  PROVE  ScanSpec /\ []Alive => []ScanComplete
  <1>1. ScanInit => FullInv /\ ScanInv
    BY FullInit, ScanInvInit DEF ScanInit
  <1>2. FullInv /\ ScanInv /\ [ScanNext]_hvars /\ Alive' => (FullInv /\ ScanInv)'
    <2> SUFFICES ASSUME FullInv, ScanInv, [ScanNext]_hvars, Alive'
                 PROVE  FullInv' /\ ScanInv'
      OBVIOUS
    <2>1. [Next]_vars
      BY DEF ScanNext, Rewound, Erase, Deliver, Other, Next, Run, Delete, Scan, hvars
    <2> QED BY <2>1, FullStep, ScanInvStep
  <1>3. ScanInv => ScanComplete
    BY ScanInvImplies
  <1> QED BY <1>1, <1>2, <1>3, PTL DEF ScanSpec
=============================================================================
