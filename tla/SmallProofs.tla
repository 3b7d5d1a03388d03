---------------------------- MODULE SmallProofs ----------------------------
(* Six of the small programs, for any number of processes, threads, jobs   *)
(* and messages: the daemon that is alone (daemonize.c, single.c), the     *)
(* processes that open one database (db_open of db.c), the threads with a  *)
(* list of messages and the one with a timer (condvar.c, timeout.c), the   *)
(* queue of jobs (rwlock.c), and the object that counts its references     *)
(* (mutex1.c, mutex2.c, mutex3.c). SmallSpec runs one program of all; a    *)
(* step of it is, for each program, a step of its own or none.             *)
EXTENDS SmallPrograms, FiniteSetTheorems, TLAPS

---------------------------------------------------------------------------
(* The process that runs a start, and from when to when it has the lock of *)
(* the file: from the F_SETLK that succeeded (daemonize has closed every   *)
(* descriptor before) to its end.                                          *)
DaemonStates == [gen : Nat, pc : 1..8, end : {"no", "refused", "killed"}]
HasLock(s) == daemonof[s].end = "no" /\ daemonof[s].pc \in 6..8

(* The lock is held by a process that has got that far, and by no other;   *)
(* it has emptied the file and then written its pid there. Without the     *)
(* second part two processes could have passed lockfile.                   *)
DaemonInv ==
    /\ daemonof \in [Starts -> DaemonStates]
    /\ lockholder = NoHolder \/ \E s \in Starts : HasLock(s) /\ lockholder = Pid(s)
    /\ \A s \in Starts : HasLock(s) => lockholder = Pid(s)
    /\ \A s \in Starts : daemonof[s].end = "no" =>
         /\ daemonof[s].pc = 7 => pidfile = <<>>
         /\ daemonof[s].pc = 8 => pidfile = <<Pid(s)>>

(* A step of the small programs is a step of the daemons, or none.         *)
LEMMA DaemonSteps == [SmallNext]_allvars => [DaemonNext]_daemonvars
BY DEF SmallNext, Rest, allvars

(* The calls of daemonize and already_running, one by one.                 *)
LEMMA DaemonizeIs ==
    /\ Len(Daemonize) = 7
    /\ \A n \in 1..7 : Daemonize[n] = CASE n \in {1, 2} -> "fork" [] n = 3 -> "closeall" [] n = 4 -> "open"
                                        [] n = 5 -> "lock" [] n = 6 -> "truncate" [] n = 7 -> "write"
BY DEF Daemonize

(* No daemon runs and nobody has the lock.                                 *)
LEMMA DaemonInitInv == DaemonInit => DaemonInv
BY DEF DaemonInit, DaemonInv, DaemonStates, HasLock

(* Only one process can hold the lock: its pid is the holder.              *)
LEMMA OneHasLock == ASSUME DaemonInv PROVE \A s, t \in Starts : HasLock(s) /\ HasLock(t) => s = t
BY DEF DaemonInv, Pid

(* What the next call, or the end of a process, does to the record of its  *)
(* start and to the pids.                                                  *)
LEMMA DaemonMoves ==
  ASSUME DaemonInv, NEW s \in Starts, daemonof[s].end = "no", daemonof[s].pc \in 1..7
  PROVE  /\ DaemonGoesOn(s) =>
              /\ daemonof' \in [Starts -> DaemonStates]
              /\ daemonof'[s].end = "no" /\ daemonof'[s].pc = daemonof[s].pc + 1
              /\ \A t \in Starts \ {s} : daemonof'[t] = daemonof[t]
              /\ \A t \in Starts : Pid(t)' = Pid(t)
         /\ \A e \in {"refused", "killed"} : daemonof' = [daemonof EXCEPT ![s].end = e] =>
              /\ daemonof' \in [Starts -> DaemonStates]
              /\ daemonof'[s].end = e
              /\ \A t \in Starts \ {s} : daemonof'[t] = daemonof[t]
              /\ \A t \in Starts : Pid(t)' = Pid(t)
<1>0. daemonof \in [Starts -> DaemonStates]
  BY DEF DaemonInv
<1>1. ASSUME DaemonGoesOn(s)
      PROVE  /\ daemonof' \in [Starts -> DaemonStates]
             /\ daemonof'[s] = [daemonof[s] EXCEPT !.pc = @ + 1]
             /\ \A t \in Starts \ {s} : daemonof'[t] = daemonof[t]
  BY <1>0, <1>1 DEF DaemonStates, DaemonGoesOn
<1>2. ASSUME NEW e \in {"refused", "killed"}, daemonof' = [daemonof EXCEPT ![s].end = e]
      PROVE  /\ daemonof' \in [Starts -> DaemonStates]
             /\ daemonof'[s] = [daemonof[s] EXCEPT !.end = e]
             /\ \A t \in Starts \ {s} : daemonof'[t] = daemonof[t]
  BY <1>0, <1>2 DEF DaemonStates
<1>3. ASSUME DaemonGoesOn(s)
      PROVE  /\ daemonof'[s].end = "no" /\ daemonof'[s].pc = daemonof[s].pc + 1
             /\ \A t \in Starts : Pid(t)' = Pid(t)
  BY <1>0, <1>1, <1>3 DEF DaemonStates, Pid
<1>4. ASSUME NEW e \in {"refused", "killed"}, daemonof' = [daemonof EXCEPT ![s].end = e]
      PROVE  /\ daemonof'[s].end = e
             /\ \A t \in Starts : Pid(t)' = Pid(t)
  BY <1>0, <1>2, <1>4 DEF DaemonStates, Pid
<1> QED
  BY <1>1, <1>2, <1>3, <1>4

(* Each call of daemonize and already_running, and a kill, keeps           *)
(* DaemonInv: only lockfile gives the lock, and only to one; what closes a *)
(* descriptor or forks comes before it.                                    *)
LEMMA DaemonStep == ASSUME DaemonInv, [DaemonNext]_daemonvars PROVE DaemonInv'
<1> USE DEF DaemonInv, DaemonStates, HasLock, Pid
<1>0. \A s \in Starts : NoHolder # Pid(s)
  BY DaemonAssumption
<1>1. CASE UNCHANGED daemonvars
  BY <1>1 DEF daemonvars
<1>2. ASSUME NEW s \in Starts, ForkAndExit(s) PROVE DaemonInv'
  <2>1. daemonof[s].end = "no" /\ daemonof[s].pc \in 1..2 /\ lockholder # Pid(s)
    BY <1>2, DaemonizeIs, DaemonAssumption DEF ForkAndExit, DaemonAt
  <2> QED
    BY <1>2, <2>1 DEF ForkAndExit, Unlocked
<1>3. ASSUME NEW s \in Starts, CloseAll(s) PROVE DaemonInv'
  <2>1. daemonof[s].end = "no" /\ daemonof[s].pc = 3 /\ lockholder # Pid(s)
    BY <1>3, DaemonizeIs, DaemonAssumption DEF CloseAll, DaemonAt
  <2> QED
    BY <1>3, <2>1 DEF CloseAll, DaemonGoesOn, Unlocked
<1>4. ASSUME NEW s \in Starts, OpenLockFile(s) PROVE DaemonInv'
  <2>1. daemonof[s].end = "no" /\ daemonof[s].pc = 4
    BY <1>4, DaemonizeIs DEF OpenLockFile, DaemonAt
  <2> QED
    BY <1>4, <2>1 DEF OpenLockFile, DaemonGoesOn
<1>5. ASSUME NEW s \in Starts, Lockfile(s) PROVE DaemonInv'
  <2>1. daemonof[s].end = "no" /\ daemonof[s].pc = 5
    BY <1>5, DaemonizeIs DEF Lockfile, DaemonAt
  <2>2. CASE lockholder # NoHolder
    <3>1. daemonof' = [daemonof EXCEPT ![s].end = "refused"] /\ UNCHANGED <<lockholder, pidfile>>
      BY <1>5, <2>2 DEF Lockfile
    <3> QED
      BY <2>1, <2>2, <3>1, DaemonMoves
  <2>3. CASE lockholder = NoHolder
    <3>1. \A t \in Starts : ~HasLock(t)
      BY <2>3, <1>0
    <3>2. DaemonGoesOn(s) /\ lockholder' = Pid(s) /\ UNCHANGED pidfile
      BY <1>5, <2>3 DEF Lockfile
    <3>3. HasLock(s)' /\ daemonof'[s].pc = 6 /\ \A t \in Starts \ {s} : ~HasLock(t)'
      BY <2>1, <3>1, <3>2, DaemonMoves
    <3>4. lockholder' = Pid(s)'
      BY <2>1, <3>2, DaemonMoves
    <3>5. \A t \in Starts : daemonof'[t].end = "no" => daemonof'[t].pc \notin {7, 8}
      BY <2>1, <3>1, <3>2, DaemonMoves
    <3> HIDE DEF HasLock, Pid
    <3> QED
      BY <2>1, <3>2, <3>3, <3>4, <3>5, DaemonMoves
  <2> QED
    BY <2>2, <2>3
<1>6. ASSUME NEW s \in Starts, Ftruncate(s) PROVE DaemonInv'
  <2>1. daemonof[s].end = "no" /\ daemonof[s].pc = 6
    BY <1>6, DaemonizeIs DEF Ftruncate, DaemonAt
  <2> QED
    BY <1>6, <2>1 DEF Ftruncate, DaemonGoesOn
<1>7. ASSUME NEW s \in Starts, WritePid(s) PROVE DaemonInv'
  <2>1. daemonof[s].end = "no" /\ daemonof[s].pc = 7 /\ pidfile = <<>>
    BY <1>7, DaemonizeIs DEF WritePid, DaemonAt
  <2>2. pidfile' = <<Pid(s)>>
    <3>1. PICK covered \in 0..Len(pidfile) :
             pidfile' = <<Pid(s)>> \o SubSeq(pidfile, covered + 1, Len(pidfile))
      BY <1>7 DEF WritePid
    <3>2. covered = 0 /\ Len(pidfile) = 0
      BY <2>1
    <3>3. SubSeq(<<>>, 1, 0) = <<>>
      OBVIOUS
    <3> HIDE DEF Pid
    <3>5. covered + 1 = 1 /\ pidfile = <<>>
      BY <2>1, <3>2
    <3>6. SubSeq(pidfile, covered + 1, Len(pidfile)) = <<>>
      BY <3>2, <3>3, <3>5
    <3>4. pidfile' = <<Pid(s)>> \o <<>>
      BY <3>1, <3>6
    <3> QED
      BY <3>4
  <2>3. \A t \in Starts \ {s} : ~HasLock(t)
    BY <2>1, OneHasLock
  <2>4. DaemonGoesOn(s) /\ lockholder' = Pid(s)
    BY <1>7, <2>1 DEF WritePid
  <2>5. HasLock(s)' /\ daemonof'[s].pc = 8 /\ \A t \in Starts \ {s} : ~HasLock(t)'
    BY <2>1, <2>3, <2>4, DaemonMoves
  <2>6. \A t \in Starts \ {s} : daemonof'[t].end = "no" => daemonof'[t].pc \notin {7, 8}
    BY <2>1, <2>3, <2>4, DaemonMoves
  <2>7. Pid(s)' = Pid(s)
    BY <2>1, <2>4, DaemonMoves
  <2> HIDE DEF HasLock, Pid
  <2> QED
    BY <2>1, <2>2, <2>4, <2>5, <2>6, <2>7, DaemonMoves
<1>8. ASSUME NEW s \in Starts, DaemonKilled(s) PROVE DaemonInv'
  <2>1. daemonof[s].end = "no" /\ daemonof' = [daemonof EXCEPT ![s].end = "killed"] /\ UNCHANGED pidfile
    BY <1>8 DEF DaemonKilled
  <2>2. CASE HasLock(s)
    <3>1. lockholder' = NoHolder /\ \A t \in Starts \ {s} : ~HasLock(t)
      BY <1>8, <2>2, OneHasLock DEF DaemonKilled, Unlocked
    <3> QED
      BY <2>1, <3>1
  <2>3. CASE ~HasLock(s)
    <3>1. UNCHANGED lockholder
      BY <1>8, <2>3, <1>0 DEF DaemonKilled, Unlocked
    <3> QED
      BY <2>1, <2>3, <3>1
  <2> QED
    BY <2>2, <2>3
<1> QED
  BY <1>1, <1>2, <1>3, <1>4, <1>5, <1>6, <1>7, <1>8 DEF DaemonNext

(* At most one of the daemons that were started runs, and the lock file    *)
(* holds its pid (already_running of single.c, called by daemonize once    *)
(* the descriptors are closed).                                            *)
THEOREM OneDaemonRuns == SmallSpec => []OneDaemon
<1>1. SmallInit => DaemonInv
  BY DaemonInitInv DEF SmallInit
<1>2. DaemonInv /\ [SmallNext]_allvars => DaemonInv'
  BY DaemonSteps, DaemonStep
<1>3. DaemonInv => OneDaemon
  <2> SUFFICES ASSUME DaemonInv PROVE OneDaemon
    OBVIOUS
  <2>1. \A s \in Starts : RunsAsDaemon(s) => HasLock(s) /\ daemonof[s].pc = 8
    BY DaemonizeIs DEF DaemonInv, DaemonStates, HasLock, RunsAsDaemon
  <2> QED
    BY <2>1, OneHasLock DEF DaemonInv, OneDaemon, RunsAsDaemon
<1> QED
  BY <1>1, <1>2, <1>3, PTL DEF SmallSpec

---------------------------------------------------------------------------
(* Where db_open can be, and the opens with O_CREAT and O_TRUNC.           *)
OpenerAts == {"start", "dat", "lock", "stat", "init", "unlock", "open", "failed", "dumped", "dead"}
OpenerType == [mode : OpenModes, at : OpenerAts, idxfd : {"none", "open"}, stored : BOOLEAN]
Creates(o) == opener[o].mode = "create"
Idx(o) == opener[o].idxfd = "open"

(* What the variables hold.                                                *)
OpenTypes ==
    /\ idxfile \in {"absent", "empty", "header"}
    /\ linked \subseteq Openers /\ datrecs \subseteq Openers
    /\ openlock \in Openers \cup {NoOpener}
    /\ opener \in [Openers -> OpenerType]
(* Only the creators that have opened the index file take the lock on the  *)
(* whole of it, and from the fstat to the unlock they have it.             *)
OpenLocked ==
    /\ \A o \in Openers :
         opener[o].at \in {"lock", "stat", "init", "unlock"} => Creates(o) /\ Idx(o)
    /\ \A o \in Openers : opener[o].at = "open" => Idx(o)
    /\ \A o \in Openers : opener[o].at = "start" => ~Idx(o)
    /\ \A o \in Openers : opener[o].at \in {"stat", "init", "unlock"} => openlock = o
(* No chain leads anywhere while the file has no pointers; the creator     *)
(* that is about to write them has found the file empty.                   *)
OpenFiles ==
    /\ idxfile # "header" => linked = {}
    /\ \A o \in Openers : Creates(o) /\ Idx(o) => idxfile # "absent"
    /\ \A o \in Openers : opener[o].at = "init" => idxfile = "empty"
(* A creator that is done finds the pointers, unless another creator has   *)
(* emptied the file after it and is still to lock it, or has failed.       *)
HeaderComes ==
    \A o \in Openers : Creates(o) /\ opener[o].at \in {"unlock", "open"} /\ idxfile # "header" =>
        \E q \in Openers \ {o} : Creates(q) /\ Idx(q)
                                 /\ opener[q].at \in {"dat", "lock", "stat", "init", "failed", "dead"}

(* At most one process opens with O_CREAT.                                 *)
OneCreates == \A o, q \in Openers : Creates(o) /\ Creates(q) => o = q

(* A creator that could not open the index has emptied the data file.      *)
Emptied(o) == Creates(o) /\ ~Idx(o) /\ opener[o].at = "failed"

(* With one creator that has the index file open, no record is in a chain  *)
(* whose data the O_TRUNC of the data file could still remove.             *)
DataComes ==
    OneCreates => /\ linked \subseteq datrecs \/ \E o \in Openers : Emptied(o)
                  /\ \A o \in Openers :
                       Creates(o) /\ Idx(o) /\ opener[o].at = "dat" => linked = {} /\ idxfile = "empty"
OpenInv == OpenTypes /\ OpenLocked /\ OpenFiles /\ HeaderComes /\ DataComes

(* A step of the small programs is a step of the openers, or none.         *)
LEMMA OpenSteps == [SmallNext]_allvars => [DbOpenNext]_openvars
BY DEF SmallNext, Rest, allvars

(* At the start the files are as an earlier run has left them, with no     *)
(* record.                                                                 *)
LEMMA OpenInitInv == DbOpenInit => OpenInv
BY DEF DbOpenInit, OpenInv, OpenTypes, OpenLocked, OpenFiles, HeaderComes, DataComes,
       OpenerAts, OpenerType, Creates, Idx

(* What a step does to the record of the process that takes it.            *)
LEMMA OpenerMoves ==
  ASSUME OpenTypes, NEW o \in Openers, NEW b \in OpenerAts, OpenerGoes(o, opener[o].at, b)
  PROVE  /\ opener' \in [Openers -> OpenerType]
         /\ opener'[o].at = b
         /\ \A q \in Openers \ {o} : opener'[q] = opener[q]
         /\ \A q \in Openers : (Creates(q)' <=> Creates(q)) /\ (Idx(q)' <=> Idx(q))
BY DEF OpenTypes, OpenerType, OpenerGoes, Creates, Idx

(* Each system call of db_open, a store of one that has opened and the     *)
(* death of a process keep OpenInv. The lock is needed where the size is   *)
(* looked at and the pointers are written (OpenStat, OpenWrite).           *)
LEMMA OpenStep == ASSUME OpenInv, [DbOpenNext]_openvars PROVE OpenInv'
<1> USE DEF OpenInv
<1>1. CASE UNCHANGED openvars
  BY <1>1 DEF openvars, OpenTypes, OpenLocked, OpenFiles, HeaderComes, DataComes, OneCreates,
              Emptied, Creates, Idx
<1> DEFINE Goes(o, a, b) ==
             /\ opener[o].at = a /\ b \in OpenerAts /\ opener'[o].at = b
             /\ opener' \in [Openers -> OpenerType]
             /\ \A q \in Openers \ {o} : opener'[q].at = opener[q].at
             /\ \A q \in Openers : (Creates(q)' <=> Creates(q)) /\ (Idx(q)' <=> Idx(q))
             /\ OneCreates' <=> OneCreates
             /\ a # "failed" => \A q \in Openers : Emptied(q) => Emptied(q)'
<1>0. ASSUME NEW o \in Openers, NEW a, NEW b \in OpenerAts, OpenerGoes(o, a, b) PROVE Goes(o, a, b)
  <2>1. opener[o].at = a /\ OpenerGoes(o, opener[o].at, b)
    BY <1>0 DEF OpenerGoes
  <2>2. /\ opener' \in [Openers -> OpenerType] /\ opener'[o].at = b
        /\ \A q \in Openers \ {o} : opener'[q] = opener[q]
        /\ \A q \in Openers : (Creates(q)' <=> Creates(q)) /\ (Idx(q)' <=> Idx(q))
    BY <2>1, OpenerMoves
  <2>3. OneCreates' <=> OneCreates
    BY <2>2 DEF OneCreates
  <2>4. a # "failed" => \A q \in Openers : Emptied(q) => Emptied(q)'
    BY <2>1, <2>2 DEF Emptied
  <2> QED
    BY <2>1, <2>2, <2>3, <2>4
<1>2. ASSUME NEW o \in Openers, OpenIdx(o) PROVE OpenInv'
  <2>1. UNCHANGED <<datrecs, openlock>> /\ opener[o].at = "start"
    BY <1>2 DEF OpenIdx
  <2>2. CASE Goes(o, "start", "dat") /\ UNCHANGED <<idxfile, linked>>
    <3>1. ~Idx(o)
      BY <2>1 DEF OpenLocked, Idx
    <3>2. OpenTypes' /\ OpenLocked' /\ OpenFiles'
      BY <2>1, <2>2 DEF OpenTypes, OpenLocked, OpenFiles
    <3>3. HeaderComes'
      BY <2>1, <2>2 DEF HeaderComes
    <3>4. DataComes'
      BY <2>1, <2>2, <3>1 DEF DataComes, Emptied
    <3> QED
      BY <3>2, <3>3, <3>4
  <2>3. CASE /\ opener' = [opener EXCEPT ![o].at = "dat", ![o].idxfd = "open"]
             /\ IF Creates(o) THEN idxfile' = "empty" /\ linked' = {}
                              ELSE idxfile # "absent" /\ UNCHANGED <<idxfile, linked>>
    <3>1. /\ opener' \in [Openers -> OpenerType]
          /\ opener'[o].at = "dat" /\ Idx(o)'
          /\ \A q \in Openers \ {o} : opener'[q] = opener[q] /\ (Idx(q)' <=> Idx(q))
          /\ \A q \in Openers : Creates(q)' <=> Creates(q)
      BY <2>3 DEF OpenTypes, OpenerType, OpenerAts, Creates, Idx
    <3>2. OneCreates' <=> OneCreates
      BY <3>1 DEF OneCreates
    <3>3. OpenTypes' /\ OpenLocked' /\ OpenFiles'
      BY <2>1, <3>1, <2>3 DEF OpenTypes, OpenLocked, OpenFiles
    <3>4. HeaderComes'
      BY <2>1, <3>1, <2>3 DEF HeaderComes
    <3>5. \A q \in Openers : Emptied(q) => Emptied(q)'
      BY <2>1, <3>1 DEF Emptied
    <3>6. DataComes'
      <4>1. CASE Creates(o)
        BY <2>1, <3>1, <2>3, <4>1 DEF DataComes, OneCreates
      <4>2. CASE ~Creates(o)
        BY <2>1, <3>1, <3>2, <2>3, <3>5, <4>2 DEF DataComes
      <4> QED
        BY <4>1, <4>2
    <3> QED
      BY <3>3, <3>4, <3>6
  <2> QED
    BY <1>2, <1>0, <2>2, <2>3 DEF OpenIdx, OpenerAts, Creates
<1>3. ASSUME NEW o \in Openers, OpenDat(o) PROVE OpenInv'
  <2>1. UNCHANGED <<idxfile, linked, openlock>>
    BY <1>3 DEF OpenDat
  <2>2. CASE Goes(o, "dat", "lock") /\ Creates(o) /\ Idx(o) /\ datrecs' = {}
    <3>1. OpenTypes'
      BY <2>1, <2>2 DEF OpenTypes
    <3>2. OpenLocked'
      BY <2>1, <2>2 DEF OpenTypes, OpenLocked
    <3>3. OpenFiles'
      BY <2>1, <2>2 DEF OpenTypes, OpenLocked, OpenFiles
    <3>4. HeaderComes'
      BY <2>1, <2>2 DEF HeaderComes
    <3>5. DataComes'
      BY <2>1, <2>2 DEF DataComes
    <3> QED
      BY <3>1, <3>2, <3>3, <3>4, <3>5
  <2>3. CASE Goes(o, "dat", "open") /\ ~Creates(o) /\ Idx(o) /\ UNCHANGED datrecs
    <3>1. OpenTypes'
      BY <2>1, <2>3 DEF OpenTypes
    <3>2. OpenLocked'
      BY <2>1, <2>3 DEF OpenTypes, OpenLocked
    <3>3. OpenFiles'
      BY <2>1, <2>3 DEF OpenTypes, OpenLocked, OpenFiles
    <3>4. HeaderComes'
      BY <2>1, <2>3 DEF HeaderComes
    <3>5. DataComes'
      BY <2>1, <2>3 DEF DataComes
    <3> QED
      BY <3>1, <3>2, <3>3, <3>4, <3>5
  <2>4. CASE Goes(o, "dat", "failed") /\ UNCHANGED datrecs
    <3>1. OpenTypes'
      BY <2>1, <2>4 DEF OpenTypes
    <3>2. OpenLocked'
      BY <2>1, <2>4 DEF OpenTypes, OpenLocked
    <3>3. OpenFiles'
      BY <2>1, <2>4 DEF OpenTypes, OpenLocked, OpenFiles
    <3>4. HeaderComes'
      BY <2>1, <2>4 DEF HeaderComes
    <3>5. DataComes'
      BY <2>1, <2>4 DEF DataComes
    <3> QED
      BY <3>1, <3>2, <3>3, <3>4, <3>5
  <2>5. CASE Goes(o, "dat", "failed") /\ Creates(o) /\ ~Idx(o) /\ datrecs' = {}
    <3>1. OpenTypes'
      BY <2>1, <2>5 DEF OpenTypes
    <3>2. OpenLocked'
      BY <2>1, <2>5 DEF OpenTypes, OpenLocked
    <3>3. OpenFiles'
      BY <2>1, <2>5 DEF OpenTypes, OpenLocked, OpenFiles
    <3>4. HeaderComes'
      BY <2>1, <2>5 DEF HeaderComes
    <3>5. DataComes'
      BY <2>1, <2>5 DEF DataComes, Emptied
    <3> QED
      BY <3>1, <3>2, <3>3, <3>4, <3>5
  <2>6. Idx(o) <=> opener[o].idxfd # "none"
    BY DEF Idx, OpenTypes, OpenerType
  <2>7. \/ OpenerGoes(o, "dat", "failed") /\ UNCHANGED datrecs
        \/ /\ datrecs' = IF Creates(o) THEN {} ELSE datrecs
           /\ OpenerGoes(o, "dat", IF ~Idx(o) THEN "failed" ELSE IF Creates(o) THEN "lock" ELSE "open")
    BY <1>3, <2>6 DEF OpenDat, Creates
  <2>8. CASE Creates(o)
    BY <1>0, <2>2, <2>4, <2>5, <2>7, <2>8 DEF OpenerAts
  <2>9. CASE ~Creates(o)
    BY <1>0, <2>3, <2>4, <2>7, <2>9 DEF OpenerAts
  <2> QED
    BY <2>8, <2>9
<1>4. ASSUME NEW o \in Openers, OpenLock(o) PROVE OpenInv'
  <2>1. /\ Goes(o, "lock", "stat") /\ openlock = NoOpener /\ openlock' = o
        /\ UNCHANGED <<idxfile, linked, datrecs>>
    BY <1>4, <1>0 DEF OpenLock, OpenerAts
  <2>2. OpenTypes'
    BY <2>1 DEF OpenTypes
  <2>3. OpenLocked'
    BY <2>1, OpenAssumption DEF OpenTypes, OpenLocked
  <2>4. OpenFiles'
    BY <2>1 DEF OpenTypes, OpenLocked, OpenFiles
  <2>5. HeaderComes'
    BY <2>1 DEF HeaderComes
  <2>6. DataComes'
    BY <2>1 DEF DataComes
  <2> QED
    BY <2>2, <2>3, <2>4, <2>5, <2>6
<1>5. ASSUME NEW o \in Openers, OpenStat(o) PROVE OpenInv'
  <2>1. UNCHANGED <<idxfile, linked, datrecs, openlock>>
    BY <1>5 DEF OpenStat
  <2>2. CASE Goes(o, "stat", "init") /\ idxfile = "empty"
    <3>1. OpenTypes'
      BY <2>1, <2>2 DEF OpenTypes
    <3>2. OpenLocked'
      BY <2>1, <2>2 DEF OpenTypes, OpenLocked
    <3>3. OpenFiles'
      BY <2>1, <2>2 DEF OpenTypes, OpenLocked, OpenFiles
    <3>4. HeaderComes'
      BY <2>1, <2>2 DEF HeaderComes
    <3>5. DataComes'
      BY <2>1, <2>2 DEF DataComes
    <3> QED
      BY <3>1, <3>2, <3>3, <3>4, <3>5
  <2>3. CASE Goes(o, "stat", "unlock") /\ idxfile # "empty"
    <3>1. idxfile = "header"
      BY <2>3 DEF OpenTypes, OpenLocked, OpenFiles
    <3>2. OpenTypes'
      BY <2>1, <2>3, <3>1 DEF OpenTypes
    <3>3. OpenLocked'
      BY <2>1, <2>3, <3>1 DEF OpenTypes, OpenLocked
    <3>4. OpenFiles'
      BY <2>1, <2>3, <3>1 DEF OpenTypes, OpenLocked, OpenFiles
    <3>5. HeaderComes'
      BY <2>1, <2>3, <3>1 DEF HeaderComes
    <3>6. DataComes'
      BY <2>1, <2>3, <3>1 DEF DataComes
    <3> QED
      BY <3>2, <3>3, <3>4, <3>5, <3>6
  <2> QED
    BY <1>5, <1>0, <2>2, <2>3 DEF OpenStat, OpenerAts
<1>6. ASSUME NEW o \in Openers, OpenWrite(o) PROVE OpenInv'
  <2>1. /\ Goes(o, "init", "unlock") /\ idxfile' = "header" /\ linked' = {}
        /\ UNCHANGED <<datrecs, openlock>>
    BY <1>6, <1>0 DEF OpenWrite, OpenerAts
  <2>2. Creates(o) /\ \A q \in Openers \ {o} : opener[q].at \notin {"stat", "init", "unlock"}
    BY <2>1 DEF OpenLocked
  <2>3. OpenTypes'
    BY <2>1, <2>2 DEF OpenTypes
  <2>4. OpenLocked'
    BY <2>1, <2>2 DEF OpenTypes, OpenLocked
  <2>5. OpenFiles'
    BY <2>1, <2>2 DEF OpenTypes, OpenLocked, OpenFiles
  <2>6. HeaderComes'
    BY <2>1, <2>2 DEF HeaderComes
  <2>7. DataComes'
    BY <2>1, <2>2 DEF DataComes, OneCreates
  <2> QED
    BY <2>3, <2>4, <2>5, <2>6, <2>7
<1>7. ASSUME NEW o \in Openers, OpenUnlock(o) PROVE OpenInv'
  <2>1. /\ Goes(o, "unlock", "open") /\ UNCHANGED <<idxfile, linked, datrecs>>
        /\ openlock' = NoOpener /\ openlock = o
    BY <1>7, <1>0 DEF OpenUnlock, OpenerAts, OpenLocked
  <2>2. OpenTypes'
    BY <2>1 DEF OpenTypes
  <2>3. OpenLocked'
    BY <2>1 DEF OpenTypes, OpenLocked
  <2>4. OpenFiles'
    BY <2>1 DEF OpenTypes, OpenLocked, OpenFiles
  <2>5. HeaderComes'
    BY <2>1 DEF HeaderComes
  <2>6. DataComes'
    BY <2>1 DEF DataComes
  <2> QED
    BY <2>2, <2>3, <2>4, <2>5, <2>6
<1>8. ASSUME NEW o \in Openers, StoreOne(o) PROVE OpenInv'
  <2>1. UNCHANGED <<idxfile, openlock>>
    BY <1>8 DEF StoreOne
  <2>2. CASE Goes(o, "open", "dumped") /\ idxfile # "header" /\ UNCHANGED <<linked, datrecs>>
    <3>1. OpenTypes'
      BY <2>1, <2>2 DEF OpenTypes
    <3>2. OpenLocked'
      BY <2>1, <2>2 DEF OpenTypes, OpenLocked
    <3>3. OpenFiles'
      BY <2>1, <2>2 DEF OpenTypes, OpenLocked, OpenFiles
    <3>4. HeaderComes'
      BY <2>1, <2>2 DEF HeaderComes
    <3>5. DataComes'
      BY <2>1, <2>2 DEF DataComes
    <3> QED
      BY <3>1, <3>2, <3>3, <3>4, <3>5
  <2>3. CASE /\ idxfile = "header" /\ linked' = linked \cup {o} /\ datrecs' = datrecs \cup {o}
             /\ opener' = [opener EXCEPT ![o].stored = TRUE]
    <3>1. /\ opener' \in [Openers -> OpenerType]
          /\ \A q \in Openers : /\ opener'[q].at = opener[q].at
                                /\ Creates(q)' <=> Creates(q)
                                /\ Idx(q)' <=> Idx(q)
      BY <2>3 DEF OpenTypes, OpenerType, Creates, Idx
    <3>2. OneCreates' <=> OneCreates
      BY <3>1 DEF OneCreates
    <3>3. \A q \in Openers : Emptied(q)' <=> Emptied(q)
      BY <3>1 DEF Emptied
    <3>4. OpenTypes'
      BY <2>1, <2>3, <3>1 DEF OpenTypes
    <3>5. OpenLocked'
      BY <2>1, <2>3, <3>1 DEF OpenTypes, OpenLocked
    <3>6. OpenFiles'
      BY <2>1, <2>3, <3>1 DEF OpenTypes, OpenLocked, OpenFiles
    <3>7. HeaderComes'
      BY <2>1, <2>3, <3>1 DEF HeaderComes
    <3>8. DataComes'
      BY <2>1, <2>3, <3>1, <3>2, <3>3 DEF DataComes
    <3> QED
      BY <3>4, <3>5, <3>6, <3>7, <3>8
  <2> QED
    BY <1>8, <1>0, <2>2, <2>3 DEF StoreOne, OpenerAts
<1>9. ASSUME NEW o \in Openers, OpenerDies(o) PROVE OpenInv'
  <2>1. /\ Goes(o, opener[o].at, "dead") /\ opener[o].at \in {"dat", "lock", "stat", "init", "unlock"}
        /\ UNCHANGED <<idxfile, linked, datrecs>>
        /\ openlock' = IF openlock = o THEN NoOpener ELSE openlock
    BY <1>9, <1>0 DEF OpenerDies, OpenerAts
  <2>2. OpenTypes'
    BY <2>1 DEF OpenTypes
  <2>3. OpenLocked'
    BY <2>1 DEF OpenTypes, OpenLocked
  <2>4. OpenFiles'
    BY <2>1 DEF OpenTypes, OpenLocked, OpenFiles
  <2>5. HeaderComes'
    BY <2>1 DEF HeaderComes
  <2>6. DataComes'
    BY <2>1 DEF DataComes
  <2> QED
    BY <2>2, <2>3, <2>4, <2>5, <2>6
<1> QED
  BY <1>1, <1>2, <1>3, <1>4, <1>5, <1>6, <1>7, <1>8, <1>9 DEF DbOpenNext

(* One creator at most, as DataKept counts them.                           *)
LEMMA AtMostOneCreates ==
  Cardinality({o \in Openers : opener[o].mode = "create"}) <= 1 => OneCreates
<1> DEFINE S == {o \in Openers : opener[o].mode = "create"}
<1> SUFFICES ASSUME Cardinality(S) <= 1, NEW o \in S, NEW q \in S, o # q PROVE FALSE
  BY DEF OneCreates, Creates
<1>1. IsFiniteSet(S)
  BY FS_Subset, OpenAssumption
<1>2. IsFiniteSet(S \ {o}) /\ Cardinality(S \ {o}) = Cardinality(S) - 1
  BY <1>1, FS_RemoveElement
<1>3. Cardinality(S) \in Nat /\ Cardinality(S \ {o}) \in Nat
  BY <1>1, <1>2, FS_CardinalityType
<1>4. Cardinality(S \ {o}) = 0
  BY <1>2, <1>3
<1>5. S \ {o} = {}
  BY <1>2, <1>4, FS_EmptySet
<1> QED
  BY <1>5

(* Initialising the index wipes out no record, a creator that is done      *)
(* finds the pointers, and with a single creator a stored record has its   *)
(* data, unless that creator could not open the index and emptied the data *)
(* file all the same (db_open of db.c, its two opens and its lock from     *)
(* fstat to the write of the pointers).                                    *)
THEOREM OpenersDoNoHarm == SmallSpec => []OpensHarmless
<1>1. SmallInit => OpenInv
  BY OpenInitInv DEF SmallInit
<1>2. OpenInv /\ [SmallNext]_allvars => OpenInv'
  BY OpenSteps, OpenStep
<1>3. OpenInv => OpensHarmless
  <2> SUFFICES ASSUME OpenInv PROVE OpensHarmless
    OBVIOUS
  <2>1. InitWipesNothing
    BY DEF OpenInv, OpenFiles, InitWipesNothing
  <2>2. CreatorsFindHeader
    BY DEF OpenInv, HeaderComes, Creates, Idx, CreatorsFindHeader
  <2>3. \A o \in Openers : Emptied(o) => EmptiesDataOnly(o)
    BY DEF OpenInv, OpenTypes, OpenerType, Emptied, EmptiesDataOnly, Creates, Idx
  <2>4. DataKept
    <3> DEFINE S == {o \in Openers : opener[o].mode = "create"}
    <3>1. IsFiniteSet(S)
      BY FS_Subset, OpenAssumption
    <3>2. Cardinality(S) > 1 \/ Cardinality(S) <= 1
      BY <3>1, FS_CardinalityType
    <3> QED
      BY <2>3, <3>2, AtMostOneCreates DEF OpenInv, DataComes, DataKept
  <2> QED
    BY <2>1, <2>2, <2>4 DEF OpensHarmless
<1> QED
  BY <1>1, <1>2, <1>3, PTL DEF SmallSpec

---------------------------------------------------------------------------
(* A list with no element twice.                                           *)
NoTwice(s) == \A i, j \in DOMAIN s : s[i] = s[j] => i = j

(* A sequence as its elements, by their places.                            *)
LEMMA Elements ==
  ASSUME NEW S, NEW s \in Seq(S)
  PROVE  /\ Len(s) \in Nat /\ DOMAIN s = 1..Len(s)
         /\ \A i \in 1..Len(s) : s[i] \in S /\ s[i] \in ToSet(s)
         /\ \A x \in ToSet(s) : \E i \in 1..Len(s) : x = s[i]
BY DEF ToSet

(* An element put in front of a list (enqueue_msg, job_insert).            *)
LEMMA PutInFront ==
  ASSUME NEW S, NEW s \in Seq(S), NEW m \in S
  PROVE  /\ <<m>> \o s \in Seq(S) /\ <<m>> \o s # <<>>
         /\ Len(<<m>> \o s) = Len(s) + 1 /\ (<<m>> \o s)[1] = m
         /\ \A i \in 1..Len(s) : (<<m>> \o s)[i + 1] = s[i]
         /\ ToSet(<<m>> \o s) = ToSet(s) \cup {m}
         /\ m \notin ToSet(s) /\ NoTwice(s) => NoTwice(<<m>> \o s)
<1> DEFINE t == <<m>> \o s
<1>1. t \in Seq(S) /\ Len(t) = Len(s) + 1 /\ t # <<>>
  OBVIOUS
<1>2. t[1] = m /\ \A i \in 1..Len(s) : t[i + 1] = s[i]
  OBVIOUS
<1>3. \A i \in 2..Len(t) : i - 1 \in 1..Len(s) /\ t[i] = s[i - 1]
  BY <1>1
<1> HIDE DEF t
<1>4. ToSet(t) = ToSet(s) \cup {m}
  <2>1. \A x \in ToSet(s) \cup {m} : x \in ToSet(t)
    <3>1. 1 \in 1..Len(t) /\ \A i \in 1..Len(s) : i + 1 \in 1..Len(t)
      BY <1>1, Elements
    <3>2. m \in ToSet(t)
      BY <1>1, <1>2, <3>1, Elements
    <3>3. ASSUME NEW i \in 1..Len(s) PROVE s[i] \in ToSet(t)
      <4>1. t[i + 1] \in ToSet(t) /\ t[i + 1] = s[i]
        BY <1>1, <1>2, <3>1, Elements
      <4> QED
        BY <4>1
    <3> QED
      BY <3>2, <3>3, Elements
  <2>2. \A x \in ToSet(t) : x \in ToSet(s) \cup {m}
    <3>1. \A i \in 1..Len(t) : i = 1 \/ i \in 2..Len(t)
      BY <1>1, Elements
    <3> QED
      BY <1>1, <1>2, <1>3, <3>1, Elements
  <2> QED
    BY <2>1, <2>2
<1>5. ASSUME m \notin ToSet(s), NoTwice(s), NEW i \in 1..Len(t), NEW j \in 1..Len(t), t[i] = t[j]
      PROVE  i = j
  <2>0. Len(t) \in Nat /\ Len(s) \in Nat /\ DOMAIN s = 1..Len(s)
    BY <1>1, Elements
  <2>1. \A k \in 2..Len(t) : t[k] # m
    BY <1>3, <1>5, Elements
  <2>2. CASE i = 1 \/ j = 1
    <3>1. i = 1 \/ i \in 2..Len(t)
      BY <2>0
    <3>2. j = 1 \/ j \in 2..Len(t)
      BY <2>0
    <3> QED
      BY <1>2, <1>5, <2>1, <2>2, <3>1, <3>2
  <2>3. CASE i # 1 /\ j # 1
    <3>1. i \in 2..Len(t) /\ j \in 2..Len(t)
      BY <2>0, <2>3
    <3>2. s[i - 1] = s[j - 1] /\ i - 1 \in 1..Len(s) /\ j - 1 \in 1..Len(s)
      BY <1>3, <1>5, <3>1
    <3>3. i - 1 = j - 1
      BY <1>5, <2>0, <3>2 DEF NoTwice
    <3> QED
      BY <3>1, <3>3
  <2> QED
    BY <2>2, <2>3
<1>6. m \notin ToSet(s) /\ NoTwice(s) => NoTwice(t)
  BY <1>1, <1>5, Elements DEF NoTwice
<1> QED
  BY <1>1, <1>2, <1>4, <1>6 DEF t

(* An element taken out of the middle of a list (job_remove).              *)
LEMMA TakenFromFront ==
  ASSUME NEW S, NEW s \in Seq(S), s # <<>>, NoTwice(s)
  PROVE  /\ Head(s) \in S /\ Head(s) \in ToSet(s)
         /\ Tail(s) \in Seq(S) /\ NoTwice(Tail(s))
         /\ ToSet(Tail(s)) = ToSet(s) \ {Head(s)}
<1> DEFINE t == Tail(s)
<1>1. t \in Seq(S) /\ Len(s) = Len(t) + 1 /\ Head(s) = s[1] /\ Head(s) \in S
  OBVIOUS
<1>2. \A i \in 1..Len(t) : t[i] = s[i + 1] /\ i + 1 \in 1..Len(s)
  BY <1>1
<1>3. 1 \in 1..Len(s) /\ \A i \in 2..Len(s) : i - 1 \in 1..Len(t) /\ s[i] = t[i - 1]
  BY <1>1, <1>2
<1> HIDE DEF t
<1>4. \A i, j \in 1..Len(s) : s[i] = s[j] => i = j
  BY Elements DEF NoTwice
<1>5. \A x \in ToSet(t) : x \in ToSet(s) \ {s[1]}
  <2>1. \A i \in 1..Len(t) : i + 1 # 1
    BY <1>1, Elements
  <2> QED
    BY <1>1, <1>2, <1>3, <1>4, <2>1, Elements
<1>6. \A x \in ToSet(s) : x = s[1] \/ x \in ToSet(t)
  <2>1. \A i \in 1..Len(s) : i = 1 \/ i \in 2..Len(s)
    BY <1>1, Elements
  <2> QED
    BY <1>1, <1>3, <2>1, Elements
<1>7. ToSet(t) = ToSet(s) \ {s[1]}
  BY <1>5, <1>6
<1>8. ASSUME NEW i \in 1..Len(t), NEW j \in 1..Len(t), t[i] = t[j] PROVE i = j
  <2>1. i + 1 = j + 1
    BY <1>2, <1>4, <1>8
  <2> QED
    BY <2>1
<1>9. NoTwice(t)
  BY <1>1, <1>8, Elements DEF NoTwice
<1>10. s[1] \in ToSet(s)
  BY <1>3, Elements
<1> QED
  BY <1>1, <1>7, <1>9, <1>10 DEF t

---------------------------------------------------------------------------
(* Where a message can be: on the list, with one worker, processed; and    *)
(* not yet put anywhere.                                                   *)
OnList(m) == m \in ToSet(workq) /\ m \notin processed /\ \A w \in Workers : worker[w] # m
WithWorker(m) ==
    /\ m \notin ToSet(workq) /\ m \notin processed
    /\ \E w \in Workers : worker[w] = m /\ \A v \in Workers : worker[v] = m => v = w
Done(m) == m \in processed /\ m \notin ToSet(workq) /\ \A w \in Workers : worker[w] # m
Nowhere(m) == m \notin processed /\ m \notin ToSet(workq) /\ \A w \in Workers : worker[w] # m

(* What the variables hold; no message is on the list twice.               *)
WorkTypes ==
    /\ workq \in Seq(Msgs) /\ NoTwice(workq)
    /\ worker \in [Workers -> Msgs \cup {"lock", "wait"}]
    /\ sender \in [Msgs -> {"lock", "signal", "done"}]
    /\ processed \subseteq Msgs
(* A message is in one place, from the moment it was enqueued.             *)
WorkPlaces ==
    \A m \in Msgs : IF sender[m] = "lock" THEN Nowhere(m) ELSE OnList(m) \/ WithWorker(m) \/ Done(m)
(* When everybody waits although the list is not empty, a signal is on its *)
(* way: enqueue_msg sends it after it has let the lock go.                 *)
WorkSignal ==
    workq # <<>> /\ (\A w \in Workers : worker[w] = "wait") => \E m \in Msgs : sender[m] = "signal"
WorkInv == WorkTypes /\ WorkPlaces /\ WorkSignal

(* A step of the small programs is a step of these threads, or none.       *)
LEMMA WorkSteps == [SmallNext]_allvars => [WorkNext]_workvars
BY DEF SmallNext, Rest, allvars

(* The list is empty and nobody waits.                                     *)
LEMMA WorkInitInv == WorkInit => WorkInv
BY WorkAssumption DEF WorkInit, WorkInv, WorkTypes, WorkPlaces, WorkSignal, Nowhere, NoTwice, ToSet

(* Taking a message, processing it, putting one on the list, the signal    *)
(* and a wakeup for nothing keep WorkInv. A worker waits only after it has *)
(* seen the list empty with the lock, so a message put there later brings  *)
(* a signal.                                                               *)
LEMMA WorkStep == ASSUME WorkInv, [WorkNext]_workvars PROVE WorkInv'
<1> USE WorkAssumption DEF WorkInv
<1> USE DEF OnList, WithWorker, Done, Nowhere
<1>1. CASE UNCHANGED workvars
  BY <1>1 DEF workvars, WorkTypes, WorkPlaces, WorkSignal, NoTwice
<1>2. ASSUME NEW w \in Workers, TakeMsg(w) PROVE WorkInv'
  <2>1. CASE workq = <<>>
    BY <1>2, <2>1 DEF TakeMsg, WorkTypes, WorkPlaces, WorkSignal
  <2>2. CASE workq # <<>>
    <3>1. /\ worker[w] = "lock" /\ worker' = [worker EXCEPT ![w] = Head(workq)] /\ workq' = Tail(workq)
          /\ UNCHANGED <<sender, processed>>
      BY <1>2, <2>2 DEF TakeMsg
    <3>2. /\ Head(workq) \in Msgs /\ Head(workq) \in ToSet(workq)
          /\ workq' \in Seq(Msgs) /\ NoTwice(workq') /\ ToSet(workq') = ToSet(workq) \ {Head(workq)}
      BY <2>2, <3>1, TakenFromFront DEF WorkTypes
    <3>3. WorkTypes'
      BY <3>1, <3>2 DEF WorkTypes
    <3>4. WorkPlaces'
      BY <3>1, <3>2 DEF WorkTypes, WorkPlaces
    <3>5. WorkSignal'
      BY <3>1, <3>2 DEF WorkTypes, WorkSignal
    <3> QED
      BY <3>3, <3>4, <3>5
  <2> QED
    BY <2>1, <2>2
<1>3. ASSUME NEW w \in Workers, ProcessMsg(w) PROVE WorkInv'
  BY <1>3 DEF ProcessMsg, WorkTypes, WorkPlaces, WorkSignal
<1>4. ASSUME NEW w \in Workers, WakeUp(w) PROVE WorkInv'
  BY <1>4 DEF WakeUp, WorkTypes, WorkPlaces, WorkSignal
<1>5. ASSUME NEW m \in Msgs, EnqueueMsg(m) PROVE WorkInv'
  <2>1. /\ sender[m] = "lock" /\ workq' = <<m>> \o workq /\ sender' = [sender EXCEPT ![m] = "signal"]
        /\ UNCHANGED <<worker, processed>>
    BY <1>5 DEF EnqueueMsg
  <2>2. m \notin ToSet(workq) /\ Nowhere(m)
    BY <2>1 DEF WorkPlaces
  <2>3. workq' \in Seq(Msgs) /\ NoTwice(workq') /\ ToSet(workq') = ToSet(workq) \cup {m}
    BY <2>1, <2>2, PutInFront DEF WorkTypes
  <2>4. WorkTypes' /\ WorkSignal'
    BY <2>1, <2>3 DEF WorkTypes, WorkSignal
  <2>5. WorkPlaces'
    BY <2>1, <2>2, <2>3 DEF WorkTypes, WorkPlaces
  <2> QED
    BY <2>4, <2>5
<1>6. ASSUME NEW m \in Msgs, SignalReady(m) PROVE WorkInv'
  <2>1. /\ sender[m] = "signal" /\ sender' = [sender EXCEPT ![m] = "done"]
        /\ UNCHANGED <<workq, processed>>
        /\ \/ (\A w \in Workers : worker[w] # "wait") /\ UNCHANGED worker
           \/ \E w \in Workers : worker[w] = "wait" /\ worker' = [worker EXCEPT ![w] = "lock"]
    BY <1>6 DEF SignalReady
  <2> QED
    BY <2>1 DEF WorkTypes, WorkPlaces, WorkSignal
<1> QED
  BY <1>1, <1>2, <1>3, <1>4, <1>5, <1>6 DEF WorkNext

---------------------------------------------------------------------------
(* Who has the recursive mutex and how often: main from its lock to its    *)
(* unlock, twice while it calls retry itself, or the helper in retry. The  *)
(* helper was made with the time that is left.                             *)
TimeInv ==
    /\ now \in Nat /\ when \in Nat
    /\ tmain \in {"start", "timeout", "retry", "retrying", "unlock", "unlocked", "exit"}
    /\ helper \in {"none", "sleep", "retry", "retrying", "done"}
    /\ mutex \in [by : {"nobody", "main", "helper"}, depth : 0..2]
    /\ mutex.by = "main" <=> tmain \in {"timeout", "retry", "retrying", "unlock"}
    /\ mutex.by = "helper" <=> helper = "retrying"
    /\ mutex.depth = IF mutex.by = "nobody" THEN 0 ELSE IF tmain = "retrying" THEN 2 ELSE 1
    /\ helper # "none" =>
         /\ when > now /\ towait.sec * SECTONSEC + towait.nsec = when - now
         /\ towait.nsec \in 0 .. SECTONSEC - 1

(* A step of the small programs is a step of main and the helper, or none. *)
LEMMA TimeSteps == [SmallNext]_allvars => [TimeNext]_timevars
BY DEF SmallNext, Rest, allvars

(* Nobody has the mutex, and there is no helper.                           *)
LEMMA TimeInitInv == TimeInit => TimeInv
BY TimeAssumption DEF TimeInit, TimeInv

(* timeout.c takes a second from tv_sec when the nanoseconds do not        *)
(* suffice: the difference of two times, in a timespec whose tv_nsec is    *)
(* within a second.                                                        *)
LEMMA ToWaitIs ==
  ASSUME NEW w \in Nat, NEW n \in Nat, Later(AsTimespec(w), AsTimespec(n))
  PROVE  LET d == ToWait(AsTimespec(w), AsTimespec(n))
         IN  w > n /\ d.sec * SECTONSEC + d.nsec = w - n /\ d.nsec \in 0 .. SECTONSEC - 1
<1> DEFINE S == SECTONSEC
           ws == w \div S
           wn == w % S
           ns == n \div S
           nn == n % S
<1>1. S \in Nat /\ S > 0
  BY TimeAssumption
<1>2. /\ ws \in Nat /\ wn \in 0 .. S - 1 /\ w = ws * S + wn
      /\ ns \in Nat /\ nn \in 0 .. S - 1 /\ n = ns * S + nn
  BY <1>1
<1>3. ws > ns \/ (ws = ns /\ wn > nn)
  BY DEF Later, AsTimespec
<1> HIDE DEF S, ws, wn, ns, nn
<1>4. (ws - ns) * S = ws * S - ns * S /\ (ws - ns - 1) * S = ws * S - ns * S - S
  BY <1>1, <1>2
<1>5. w > n
  <2>1. CASE ws = ns
    BY <1>1, <1>2, <1>3, <2>1
  <2>2. CASE ws > ns
    <3>1. (ws - ns - 1) * S >= 0
      BY <1>1, <1>2, <2>2
    <3> QED
      BY <1>1, <1>2, <1>4, <3>1
  <2> QED
    BY <1>3, <2>1, <2>2
<1>6. CASE wn >= nn
  <2>1. ToWait(AsTimespec(w), AsTimespec(n)) = [sec |-> ws - ns, nsec |-> wn - nn]
    BY <1>6 DEF ToWait, AsTimespec, S, ws, wn, ns, nn
  <2> QED
    BY <1>1, <1>2, <1>4, <1>5, <1>6, <2>1 DEF S
<1>7. CASE wn < nn
  <2>1. ToWait(AsTimespec(w), AsTimespec(n)) = [sec |-> ws - ns - 1, nsec |-> S - nn + wn]
    <3>1. ~(wn >= nn)
      BY <1>2, <1>7
    <3> QED
      BY <3>1 DEF ToWait, AsTimespec, S, ws, wn, ns, nn
  <2> QED
    BY <1>1, <1>2, <1>4, <1>5, <1>7, <2>1 DEF S
<1> QED
  BY <1>2, <1>6, <1>7

(* Main, timeout and timeout_helper keep TimeInv.                          *)
LEMMA TimeStep == ASSUME TimeInv, [TimeNext]_timevars PROVE TimeInv'
<1> USE DEF TimeInv
<1>1. CASE UNCHANGED timevars
  BY <1>1 DEF timevars
<1>2. CASE MainLocks
  BY <1>2 DEF MainLocks, MutexLock
<1>3. CASE CallTimeout
  BY <1>3, ToWaitIs DEF CallTimeout
<1>4. CASE RetryHere
  BY <1>4 DEF RetryHere, MutexLock, MutexUnlock
<1>5. CASE RetryLater
  BY <1>5 DEF RetryLater, MutexLock, MutexUnlock
<1>6. CASE MainUnlocks \/ MainExits
  BY <1>6 DEF MainUnlocks, MainExits, MutexUnlock
<1> QED
  BY <1>1, <1>2, <1>3, <1>4, <1>5, <1>6 DEF TimeNext, MainSteps

(* Every enqueued message is in one place and a list nobody looks at has a *)
(* signal on its way (condvar.c); the helper sleeps exactly the time that  *)
(* is left, and retry runs in it only without the lock in main             *)
(* (timeout.c).                                                            *)
THEOREM NothingLostBetweenThreads == SmallSpec => []HandedOver
<1>1. SmallInit => WorkInv /\ TimeInv
  BY WorkInitInv, TimeInitInv DEF SmallInit
<1>2. WorkInv /\ TimeInv /\ [SmallNext]_allvars => (WorkInv /\ TimeInv)'
  BY WorkSteps, WorkStep, TimeSteps, TimeStep
<1>3. WorkInv => WorkNotLost
  BY DEF WorkInv, WorkTypes, WorkPlaces, WorkSignal, NoTwice, OnList, WithWorker, Done, WorkNotLost
<1>4. TimeInv => RetryInTime
  BY DEF TimeInv, RetryInTime
<1>5. WorkInv /\ TimeInv => HandedOver
  BY <1>3, <1>4 DEF HandedOver
<1> QED
  BY <1>1, <1>2, <1>5, PTL DEF SmallSpec

---------------------------------------------------------------------------
(* A set of numbers has a least one: the intervals below its members are   *)
(* finite sets, and proper inclusion of finite sets is well-founded.       *)
LEMMA LeastNumber ==
  ASSUME NEW T \in SUBSET Nat, T # {}
  PROVE  \E n \in T : \A m \in T : n <= m
<1> DEFINE Below(n) == 0 .. n - 1
           X == {Below(n) : n \in T}
<1>1. X \subseteq FiniteSubsetsOf(Nat)
  <2>1. ASSUME NEW n \in T PROVE Below(n) \in FiniteSubsetsOf(Nat)
    BY FS_Interval DEF FiniteSubsetsOf
  <2> QED
    BY <2>1
<1>2. PICK x \in X : \A y \in X : ~ (<<y, x>> \in StrictSubsetOrdering(Nat))
  <2>1. X # {}
    OBVIOUS
  <2>2. IsWellFoundedOn(StrictSubsetOrdering(Nat), FiniteSubsetsOf(Nat))
    BY FS_StrictSubsetOrderingWellFounded
  <2> HIDE DEF X
  <2> QED
    BY <1>1, <2>1, <2>2, WFMin
<1>3. PICK n \in T : x = Below(n)
  OBVIOUS
<1>4. ASSUME NEW m \in T, m < n PROVE FALSE
  <2>1. Below(m) \in X /\ Below(m) \subseteq x /\ Below(m) # x
    BY <1>3, <1>4
  <2>2. Below(m) \in SUBSET Nat /\ x \in SUBSET Nat
    BY <1>3
  <2>3. <<Below(m), x>> \in StrictSubsetOrdering(Nat)
    BY <2>1, <2>2 DEF StrictSubsetOrdering
  <2> QED
    BY <1>2, <2>1, <2>3
<1> QED
  BY <1>4

(* A set of numbers with 0, and with the successor of each of its members, *)
(* has all of them.                                                        *)
LEMMA Induction ==
  ASSUME NEW T \in SUBSET Nat, 0 \in T, \A n \in T : n + 1 \in T
  PROVE  T = Nat
<1> SUFFICES ASSUME Nat \ T # {} PROVE FALSE
  OBVIOUS
<1>1. PICK n \in Nat \ T : \A m \in Nat \ T : n <= m
  BY LeastNumber
<1>2. n # 0 /\ n - 1 \in Nat
  OBVIOUS
<1>3. n - 1 \in T
  BY <1>1, <1>2
<1> QED
  BY <1>2, <1>3

(* A list with no element twice is not longer than the set of its          *)
(* elements.                                                               *)
LEMMA NoMoreThanThereAre ==
  ASSUME NEW S, IsFiniteSet(S), NEW s \in Seq(S), NoTwice(s)
  PROVE  Len(s) <= Cardinality(S)
<1>1. s \in Injection(1..Len(s), S)
  BY Elements DEF Injection, IsInjective, NoTwice
<1>2. Cardinality(1..Len(s)) <= Cardinality(S)
  BY <1>1, FS_Injection
<1>3. Len(s) \in Nat
  BY Elements
<1>4. Cardinality(1..Len(s)) = Len(s)
  BY <1>3, FS_Interval, SMTT(30)
<1> QED
  BY <1>2, <1>4

(* An element put at the end of a list (job_append).                       *)
LEMMA PutAtEnd ==
  ASSUME NEW S, NEW s \in Seq(S), NEW m \in S, m \notin ToSet(s), NoTwice(s)
  PROVE  /\ Append(s, m) \in Seq(S) /\ Len(Append(s, m)) = Len(s) + 1
         /\ Append(s, m)[Len(s) + 1] = m
         /\ \A i \in 1..Len(s) : Append(s, m)[i] = s[i]
         /\ ToSet(Append(s, m)) = ToSet(s) \cup {m} /\ NoTwice(Append(s, m))
<1> DEFINE t == Append(s, m)
<1>1. t \in Seq(S) /\ Len(t) = Len(s) + 1 /\ Len(s) \in Nat
  BY Elements
<1>2. t[Len(s) + 1] = m /\ \A i \in 1..Len(s) : t[i] = s[i]
  OBVIOUS
<1> HIDE DEF t
<1>3. \A i \in 1..Len(t) : i = Len(s) + 1 \/ i \in 1..Len(s)
  BY <1>1
<1>4. Len(s) + 1 \in 1..Len(t) /\ \A i \in 1..Len(s) : i \in 1..Len(t)
  BY <1>1
<1>5. ToSet(t) = ToSet(s) \cup {m}
  <2>1. m \in ToSet(t)
    BY <1>1, <1>2, <1>4, Elements
  <2>2. ASSUME NEW i \in 1..Len(s) PROVE s[i] \in ToSet(t)
    <3>1. t[i] \in ToSet(t)
      BY <1>1, <1>4, Elements
    <3> QED
      BY <1>2, <3>1
  <2>3. \A x \in ToSet(t) : x \in ToSet(s) \cup {m}
    BY <1>1, <1>2, <1>3, Elements
  <2> QED
    BY <2>1, <2>2, <2>3, Elements
<1>6. ASSUME NEW i \in 1..Len(t), NEW j \in 1..Len(t), t[i] = t[j] PROVE i = j
  <2>1. \A k \in 1..Len(s) : s[k] # m
    BY Elements
  <2>2. \A k, l \in 1..Len(s) : s[k] = s[l] => k = l
    BY Elements DEF NoTwice
  <2> QED
    BY <1>2, <1>3, <1>6, <2>1, <2>2
<1>7. NoTwice(t)
  BY <1>1, <1>6, Elements DEF NoTwice
<1> QED
  BY <1>1, <1>2, <1>5, <1>7 DEF t

LEMMA TakenFrom ==
  ASSUME NEW S, NEW s \in Seq(S), NEW i \in 1..Len(s), NoTwice(s)
  PROVE  /\ RemoveAt(s, i) \in Seq(S) /\ Len(RemoveAt(s, i)) = Len(s) - 1
         /\ \A k \in 1..Len(s) - 1 : RemoveAt(s, i)[k] = IF k < i THEN s[k] ELSE s[k + 1]
         /\ ToSet(RemoveAt(s, i)) = ToSet(s) \ {s[i]} /\ NoTwice(RemoveAt(s, i))
<1> DEFINE t == RemoveAt(s, i)
           a == SubSeq(s, 1, i - 1)
           b == SubSeq(s, i + 1, Len(s))
<1>1. Len(s) \in Nat /\ i \in Nat
  BY Elements
<1>2. a \in Seq(S) /\ Len(a) = i - 1 /\ \A k \in 1..i - 1 : a[k] = s[k]
  BY <1>1
<1>3. b \in Seq(S) /\ Len(b) = Len(s) - i /\ \A k \in 1..Len(s) - i : b[k] = s[k + i]
  BY <1>1
<1>4. t = a \o b
  BY DEF RemoveAt
<1> HIDE DEF a, b, t
<1>5. t \in Seq(S) /\ Len(t) = Len(s) - 1
  <2>1. t \in Seq(S) /\ Len(t) = Len(a) + Len(b)
    <3>1. a \in Seq(S) /\ b \in Seq(S)
      BY <1>2, <1>3
    <3>2. a \o b \in Seq(S) /\ Len(a \o b) = Len(a) + Len(b)
      BY <3>1
    <3> QED
      BY <1>4, <3>2
  <2> QED
    BY <1>1, <1>2, <1>3, <2>1
<1>6. \A k \in 1..Len(t) : t[k] = IF k < i THEN a[k] ELSE b[k - Len(a)]
  BY <1>1, <1>2, <1>3, <1>4, <1>5
<1>7. \A k \in 1..Len(t) : t[k] = IF k < i THEN s[k] ELSE s[k + 1]
  <2> SUFFICES ASSUME NEW k \in 1..Len(t) PROVE t[k] = IF k < i THEN s[k] ELSE s[k + 1]
    OBVIOUS
  <2>1. CASE k < i
    BY <1>1, <1>2, <1>5, <1>6, <2>1
  <2>2. CASE ~(k < i)
    <3>1. k - Len(a) \in 1..Len(s) - i /\ k - Len(a) + i = k + 1
      BY <1>1, <1>2, <1>5, <2>2
    <3>2. t[k] = b[k - Len(a)] /\ b[k - Len(a)] = s[k - Len(a) + i]
      BY <1>3, <1>6, <2>2, <3>1
    <3> QED
      BY <2>2, <3>1, <3>2
  <2> QED
    BY <2>1, <2>2
<1>8. \A k, l \in 1..Len(s) : s[k] = s[l] => k = l
  BY Elements DEF NoTwice
<1>9. ToSet(t) = ToSet(s) \ {s[i]}
  <2>1. \A k \in 1..Len(t) : t[k] \in ToSet(s) \ {s[i]}
    <3> SUFFICES ASSUME NEW k \in 1..Len(t) PROVE t[k] \in ToSet(s) \ {s[i]}
      OBVIOUS
    <3>1. k \in 1..Len(s) /\ k + 1 \in 1..Len(s) /\ (k < i => k # i) /\ (~(k < i) => k + 1 # i)
      BY <1>1, <1>5
    <3>2. CASE k < i
      BY <1>7, <1>8, <3>1, <3>2, Elements
    <3>3. CASE ~(k < i)
      BY <1>7, <1>8, <3>1, <3>3, Elements
    <3> QED
      BY <3>2, <3>3
  <2>2. ASSUME NEW k \in 1..Len(s), k # i PROVE s[k] \in ToSet(t)
    <3>1. CASE k < i
      <4>1. k \in 1..Len(t)
        BY <1>1, <1>5, <3>1
      <4>2. t[k] = s[k] /\ t[k] \in ToSet(t)
        BY <1>5, <1>7, <3>1, <4>1, Elements
      <4> QED
        BY <4>2
    <3>2. CASE k > i
      <4>1. k - 1 \in 1..Len(t) /\ ~(k - 1 < i) /\ k - 1 + 1 = k
        BY <1>1, <1>5, <3>2
      <4>2. t[k - 1] = s[k] /\ t[k - 1] \in ToSet(t)
        BY <1>5, <1>7, <4>1, Elements
      <4> QED
        BY <4>2
    <3> QED
      BY <1>1, <2>2, <3>1, <3>2
  <2>3. \A x \in ToSet(t) : x \in ToSet(s) \ {s[i]}
    BY <1>5, <2>1, Elements
  <2>4. \A x \in ToSet(s) \ {s[i]} : x \in ToSet(t)
    BY <2>2, Elements
  <2> QED
    BY <2>3, <2>4
<1>10. ASSUME NEW k \in 1..Len(t), NEW l \in 1..Len(t), t[k] = t[l] PROVE k = l
  <2>1. /\ k \in 1..Len(s) /\ k + 1 \in 1..Len(s)
        /\ l \in 1..Len(s) /\ l + 1 \in 1..Len(s)
    BY <1>1, <1>5
  <2> QED
    BY <1>1, <1>7, <1>8, <1>10, <2>1
<1>11. NoTwice(t)
  BY <1>5, <1>10, Elements DEF NoTwice
<1> QED
  BY <1>5, <1>7, <1>9, <1>11 DEF t

---------------------------------------------------------------------------
(* What the variables hold; no job is in the queue twice, nor one that was *)
(* never queued.                                                           *)
JobTypes ==
    /\ qp \in [head : Jobs \cup {NULL}, tail : Jobs \cup {NULL}]
    /\ next \in [Jobs -> Jobs \cup {NULL}] /\ prev \in [Jobs -> Jobs \cup {NULL}]
    /\ jobs \in Seq(Jobs) /\ NoTwice(jobs)
    /\ fresh \subseteq Jobs /\ ToSet(jobs) \cap fresh = {}
    /\ torn \in {"no", "yes", "crash"}

(* The pointers of the queue. Of a job that was removed nothing is said,   *)
(* nor of j_prev of the head and j_next of the tail.                       *)
Linked ==
    /\ jobs = <<>> => qp.tail = NULL
    /\ jobs # <<>> => qp.head = jobs[1] /\ qp.tail = jobs[Len(jobs)]
    /\ \A i \in 1 .. Len(jobs) - 1 : next[jobs[i]] = jobs[i + 1] /\ prev[jobs[i + 1]] = jobs[i]

(* They are so until a job is inserted in front of one that was removed;   *)
(* and job_find has found what was there.                                  *)
JobLinks == torn = "no" => Linked
JobFound == torn = "no" => (jobfound.asked \in ToSet(jobs) => jobfound.got = jobfound.asked)
JobInv == JobTypes /\ JobLinks /\ JobFound

(* A step of the small programs is a step of the queue, or none.           *)
LEMMA JobSteps == [SmallNext]_allvars => [JobNext]_jobvars
BY DEF SmallNext, Rest, allvars

(* queue_init makes an empty queue.                                        *)
LEMMA JobInitInv == JobInit => JobInv
<1> SUFFICES ASSUME JobInit PROVE JobInv
  OBVIOUS
<1>1. jobs = <<>> /\ Len(jobs) = 0 /\ DOMAIN jobs = {} /\ jobs \in Seq(Jobs)
  BY DEF JobInit
<1>2. ToSet(jobs) = {} /\ NoTwice(jobs)
  BY <1>1 DEF ToSet, NoTwice
<1> QED
  BY <1>1, <1>2 DEF JobInit, JobInv, JobTypes, JobLinks, Linked, JobFound, Nothing

(* The n-th turn of the loop of job_find stands on the job number n + 1.   *)
(* Walk is a recursive function: the sequence of the jobs satisfies its    *)
(* equation, so the equation has a solution, and by induction its values   *)
(* are the jobs.                                                           *)
LEMMA WalkIs ==
  ASSUME JobTypes, Linked, NEW n \in Nat, n < Len(jobs)
  PROVE  Walk(n) = jobs[n + 1]
<1> DEFINE F(w) == [i \in 0..n |-> IF i = 0 THEN qp.head
                                    ELSE IF w[i - 1] = NULL THEN NULL ELSE next[w[i - 1]]]
           g == [i \in 0..n |-> jobs[i + 1]]
           w == CHOOSE f : f = F(f)
<1>1. jobs \in Seq(Jobs) /\ Len(jobs) \in Nat /\ jobs # <<>>
  BY DEF JobTypes
<1>2. \A i \in 0..n : jobs[i + 1] \in Jobs /\ jobs[i + 1] # NULL
  BY <1>1, JobAssumption, Elements
<1>3. g = F(g)
  <2>1. ASSUME NEW i \in 0..n, i # 0 PROVE g[i] = next[g[i - 1]] /\ g[i - 1] # NULL
    <3>1. i - 1 \in 0..n /\ i \in 1..Len(jobs) - 1 /\ i - 1 + 1 = i
      BY <1>1, <2>1
    <3>2. g[i - 1] = jobs[i] /\ g[i] = jobs[i + 1]
      BY <3>1
    <3> QED
      BY <1>2, <3>1, <3>2 DEF Linked
  <2>2. 0 \in 0..n => g[0] = qp.head
    BY <1>1 DEF Linked
  <2> QED
    BY <2>1, <2>2
<1>4. w = F(w)
  BY <1>3
<1>5. Walk(n) = w[n]
  BY DEF Walk
<1> HIDE DEF w
<1> DEFINE T == {i \in Nat : i \in 0..n => w[i] = jobs[i + 1]}
<1>6. 0 \in T
  <2>1. w[0] = qp.head
    BY <1>4
  <2> QED
    BY <1>1, <2>1 DEF Linked
<1>7. ASSUME NEW i \in T PROVE i + 1 \in T
  <2> SUFFICES ASSUME i + 1 \in 0..n PROVE w[i + 1] = jobs[i + 1 + 1]
    OBVIOUS
  <2>1. i \in 0..n /\ i + 1 # 0 /\ i + 1 - 1 = i /\ i + 1 \in 1..Len(jobs) - 1
    BY <1>1
  <2>2. w[i] = jobs[i + 1] /\ w[i] # NULL
    BY <1>2, <2>1
  <2>3. w[i + 1] = next[w[i]]
    BY <1>4, <2>1, <2>2, SMTT(30)
  <2> QED
    BY <2>1, <2>2, <2>3 DEF Linked
<1>8. T \in SUBSET Nat
  OBVIOUS
<1>9. T = Nat
  <2> HIDE DEF T
  <2> QED
    BY <1>6, <1>7, <1>8, Induction
<1> QED
  BY <1>5, <1>9

(* job_insert keeps the pointers right; an empty queue whose q_head is not *)
(* NULL sets torn.                                                         *)
LEMMA InsertStep == ASSUME JobInv, NEW j \in Jobs, JobInsert(j) PROVE JobInv'
<1>1. /\ jobs' = <<j>> \o jobs /\ j \notin ToSet(jobs)
      /\ jobs' \in Seq(Jobs) /\ NoTwice(jobs') /\ ToSet(jobs') = ToSet(jobs) \cup {j}
      /\ jobs' # <<>> /\ Len(jobs') = Len(jobs) + 1 /\ jobs'[1] = j
      /\ \A i \in 1..Len(jobs) : jobs'[i + 1] = jobs[i]
  BY PutInFront DEF JobInv, JobTypes, JobInsert
<1>2. JobTypes'
  <2>1. next' \in [Jobs -> Jobs \cup {NULL}] /\ prev' \in [Jobs -> Jobs \cup {NULL}]
    BY DEF JobInv, JobTypes, JobInsert, Set1
  <2>2. ToSet(jobs') \cap fresh' = {} /\ fresh' \subseteq Jobs
    BY <1>1 DEF JobInv, JobTypes, JobInsert
  <2>3. /\ qp' \in [head : Jobs \cup {NULL}, tail : Jobs \cup {NULL}]
        /\ torn' \in {"no", "yes", "crash"}
    BY DEF JobInv, JobTypes, JobInsert
  <2> QED
    BY <1>1, <2>1, <2>2, <2>3 DEF JobTypes
<1>3. ASSUME torn' = "no" PROVE Linked'
  <2>1. torn = "no" /\ Linked /\ jobs \in Seq(Jobs) /\ Len(jobs) \in Nat /\ (jobs = <<>> => qp.head = NULL)
    BY <1>3 DEF JobInv, JobTypes, JobLinks, JobInsert
  <2>2. \A i \in 1..Len(jobs) : jobs[i] \in Jobs /\ jobs[i] # j
    BY <1>1, <2>1, Elements
  <2>3. qp'.head = j /\ next' = [next EXCEPT ![j] = qp.head]
    BY DEF JobInsert
  <2>4. CASE jobs = <<>>
    <3>1. qp'.tail = j /\ Len(jobs') = 1
      BY <1>1, <2>1, <2>4 DEF JobInsert
    <3> QED
      BY <1>1, <2>3, <3>1 DEF Linked
  <2>5. CASE jobs # <<>>
    <3>1. qp.head = jobs[1] /\ qp.head \in Jobs /\ qp.head # NULL /\ 1 \in 1..Len(jobs)
      BY <2>1, <2>2, <2>5, JobAssumption DEF Linked
    <3>2. prev' = [[prev EXCEPT ![j] = NULL] EXCEPT ![jobs[1]] = j]
      BY <3>1 DEF JobInsert, Set1
    <3>3. qp'.tail = jobs[Len(jobs)] /\ jobs'[Len(jobs')] = jobs[Len(jobs)]
      <4>1. qp'.tail = jobs[Len(jobs)]
        BY <2>1, <2>5, <3>1 DEF JobInsert, Linked
      <4>2. Len(jobs) \in 1..Len(jobs)
        BY <2>1, <3>1
      <4> QED
        BY <1>1, <4>1, <4>2
    <3>4. ASSUME NEW i \in 1..Len(jobs') - 1
          PROVE next'[jobs'[i]] = jobs'[i + 1] /\ prev'[jobs'[i + 1]] = jobs'[i]
      <4>0. next \in [Jobs -> Jobs \cup {NULL}] /\ prev \in [Jobs -> Jobs \cup {NULL}]
        BY DEF JobInv, JobTypes
      <4>1. CASE i = 1
        BY <1>1, <2>2, <2>3, <3>1, <3>2, <4>0, <4>1
      <4>2. CASE i # 1
        <5>1. i - 1 \in 1..Len(jobs) - 1 /\ i - 1 + 1 = i /\ i - 1 \in 1..Len(jobs) /\ i \in 1..Len(jobs)
          BY <1>1, <2>1, <4>2
        <5>2. jobs'[i] = jobs[i - 1] /\ jobs'[i + 1] = jobs[i]
          BY <1>1, <5>1
        <5>3. next[jobs[i - 1]] = jobs[i] /\ prev[jobs[i]] = jobs[i - 1]
          BY <2>1, <5>1 DEF Linked
        <5>4. jobs[i] # jobs[1]
          BY <3>1, <4>2, <5>1, Elements DEF JobInv, JobTypes, NoTwice
        <5> QED
          BY <2>2, <2>3, <3>2, <4>0, <5>1, <5>2, <5>3, <5>4
      <4> QED
        BY <4>1, <4>2
    <3> QED
      BY <1>1, <2>3, <3>3, <3>4 DEF Linked
  <2> QED
    BY <2>4, <2>5
<1>4. JobFound'
  BY <1>1, JobAssumption, Elements DEF JobFound, JobInsert, Nothing
<1> QED
  BY <1>2, <1>3, <1>4 DEF JobInv, JobLinks

(* job_append keeps them right, also after the removal of a tail, whose    *)
(* predecessor still points to it.                                         *)
LEMMA AppendStep == ASSUME JobInv, NEW j \in Jobs, JobAppend(j) PROVE JobInv'
<1>1. /\ jobs' = Append(jobs, j) /\ j \notin ToSet(jobs)
      /\ jobs' \in Seq(Jobs) /\ NoTwice(jobs') /\ ToSet(jobs') = ToSet(jobs) \cup {j}
      /\ Len(jobs') = Len(jobs) + 1 /\ jobs'[Len(jobs) + 1] = j
      /\ \A i \in 1..Len(jobs) : jobs'[i] = jobs[i]
  BY PutAtEnd DEF JobInv, JobTypes, JobAppend
<1>2. JobTypes'
  <2>1. next' \in [Jobs -> Jobs \cup {NULL}] /\ prev' \in [Jobs -> Jobs \cup {NULL}]
    BY DEF JobInv, JobTypes, JobAppend, Set1
  <2>2. ToSet(jobs') \cap fresh' = {} /\ fresh' \subseteq Jobs
    BY <1>1 DEF JobInv, JobTypes, JobAppend
  <2>3. /\ qp' \in [head : Jobs \cup {NULL}, tail : Jobs \cup {NULL}]
        /\ torn' \in {"no", "yes", "crash"}
    BY DEF JobInv, JobTypes, JobAppend
  <2> QED
    BY <1>1, <2>1, <2>2, <2>3 DEF JobTypes
<1>3. ASSUME torn' = "no" PROVE Linked'
  <2>1. torn = "no" /\ Linked /\ jobs \in Seq(Jobs) /\ Len(jobs) \in Nat
    BY <1>3 DEF JobInv, JobTypes, JobLinks, JobAppend
  <2>2. \A i \in 1..Len(jobs) : jobs[i] \in Jobs /\ jobs[i] # j /\ jobs[i] # NULL
    BY <1>1, <2>1, JobAssumption, Elements
  <2>3. qp'.tail = j /\ prev' = [prev EXCEPT ![j] = qp.tail] /\ jobs' # <<>>
    BY <1>1, <2>1 DEF JobAppend
  <2>4. CASE jobs = <<>>
    <3>1. qp'.head = j /\ Len(jobs') = 1
      BY <1>1, <2>1, <2>4 DEF JobAppend, Linked
    <3> QED
      BY <1>1, <2>1, <2>3, <2>4, <3>1 DEF Linked
  <2>5. CASE jobs # <<>>
    <3>1. /\ Len(jobs) \in 1..Len(jobs) /\ 1 \in 1..Len(jobs)
          /\ qp.tail = jobs[Len(jobs)] /\ qp.tail \in Jobs /\ qp.tail # NULL
      BY <2>1, <2>2, <2>5 DEF Linked
    <3>2. next' = [[next EXCEPT ![j] = NULL] EXCEPT ![jobs[Len(jobs)]] = j]
      BY <3>1 DEF JobAppend, Set1
    <3>3. qp'.head = jobs'[1]
      BY <1>1, <2>1, <2>5, <3>1 DEF JobAppend, Linked
    <3>4. ASSUME NEW i \in 1..Len(jobs') - 1
          PROVE next'[jobs'[i]] = jobs'[i + 1] /\ prev'[jobs'[i + 1]] = jobs'[i]
      <4>0. next \in [Jobs -> Jobs \cup {NULL}] /\ prev \in [Jobs -> Jobs \cup {NULL}]
        BY DEF JobInv, JobTypes
      <4>1. CASE i = Len(jobs)
        BY <1>1, <2>2, <2>3, <3>1, <3>2, <4>0, <4>1
      <4>2. CASE i # Len(jobs)
        <5>1. i \in 1..Len(jobs) - 1 /\ i + 1 \in 1..Len(jobs) /\ i \in 1..Len(jobs)
          BY <1>1, <2>1, <4>2
        <5>2. jobs'[i] = jobs[i] /\ jobs'[i + 1] = jobs[i + 1]
          BY <1>1, <5>1
        <5>3. next[jobs[i]] = jobs[i + 1] /\ prev[jobs[i + 1]] = jobs[i]
          BY <2>1, <5>1 DEF Linked
        <5>4. jobs[i] # jobs[Len(jobs)]
          BY <3>1, <4>2, <5>1, Elements DEF JobInv, JobTypes, NoTwice
        <5> QED
          BY <2>2, <2>3, <3>2, <4>0, <5>1, <5>2, <5>3, <5>4
      <4> QED
        BY <4>1, <4>2
    <3> QED
      BY <1>1, <2>3, <3>3, <3>4 DEF Linked
  <2> QED
    BY <2>4, <2>5
<1>4. JobFound'
  BY <1>1, JobAssumption, Elements DEF JobFound, JobAppend, Nothing
<1> QED
  BY <1>2, <1>3, <1>4 DEF JobInv, JobLinks

(* job_remove keeps them right for a head, a tail and a job between two    *)
(* others.                                                                 *)
LEMMA RemoveStep == ASSUME JobInv, NEW j \in Jobs, JobRemove(j) PROVE JobInv'
<1>0. jobs \in Seq(Jobs) /\ Len(jobs) \in Nat /\ NoTwice(jobs) /\ DOMAIN jobs = 1..Len(jobs)
  BY Elements DEF JobInv, JobTypes
<1>1. PICK r \in 1..Len(jobs) : jobs[r] = j /\ jobs' = RemoveAt(jobs, r)
  BY <1>0 DEF JobRemove, TakenOut
<1>2. /\ jobs' \in Seq(Jobs) /\ NoTwice(jobs') /\ ToSet(jobs') = ToSet(jobs) \ {j}
      /\ Len(jobs') = Len(jobs) - 1
      /\ \A k \in 1..Len(jobs') : jobs'[k] = IF k < r THEN jobs[k] ELSE jobs[k + 1]
  <2> DEFINE t == RemoveAt(jobs, r)
  <2>1. /\ t \in Seq(Jobs) /\ NoTwice(t) /\ ToSet(t) = ToSet(jobs) \ {jobs[r]}
        /\ Len(t) = Len(jobs) - 1
        /\ \A k \in 1..Len(jobs) - 1 : t[k] = IF k < r THEN jobs[k] ELSE jobs[k + 1]
    BY <1>0, TakenFrom, ZenonT(30)
  <2> HIDE DEF t
  <2>2. jobs' = t
    BY <1>1 DEF t
  <2> QED
    BY <1>1, <2>1, <2>2
<1>3. JobTypes'
  <2>1. next' \in [Jobs -> Jobs \cup {NULL}] /\ prev' \in [Jobs -> Jobs \cup {NULL}]
    BY DEF JobInv, JobTypes, JobRemove, Set1
  <2>2. ToSet(jobs') \cap fresh' = {} /\ fresh' \subseteq Jobs
    BY <1>2 DEF JobInv, JobTypes, JobRemove
  <2>3. /\ qp' \in [head : Jobs \cup {NULL}, tail : Jobs \cup {NULL}]
        /\ torn' \in {"no", "yes", "crash"}
    BY DEF JobInv, JobTypes, JobRemove
  <2> QED
    BY <1>2, <2>1, <2>2, <2>3 DEF JobTypes
<1>4. ASSUME torn' = "no" PROVE Linked'
  <2>1. torn = "no" /\ Linked /\ jobs # <<>>
    BY <1>0, <1>1, <1>4 DEF JobInv, JobLinks, JobRemove
  <2>2. \A i \in 1..Len(jobs) : jobs[i] \in Jobs /\ jobs[i] # NULL
    BY <1>0, JobAssumption, Elements
  <2>3. \A i, k \in 1..Len(jobs) : jobs[i] = jobs[k] => i = k
    BY <1>0 DEF NoTwice
  <2>4. 1 \in 1..Len(jobs) /\ Len(jobs) \in 1..Len(jobs)
    BY <1>0, <1>1
  <2>5. qp.head = jobs[1] /\ qp.tail = jobs[Len(jobs)]
    BY <2>1 DEF Linked
  <2>6. \A i \in 1..Len(jobs) - 1 : next[jobs[i]] = jobs[i + 1] /\ prev[jobs[i + 1]] = jobs[i]
    BY <2>1 DEF Linked
  <2>7. qp \in [head : Jobs \cup {NULL}, tail : Jobs \cup {NULL}]
    BY DEF JobInv, JobTypes
  <2>8. CASE j = qp.head
    <3>1. r = 1 /\ \A k \in 1..Len(jobs') : jobs'[k] = jobs[k + 1]
      BY <1>1, <1>2, <2>3, <2>4, <2>5, <2>8
    <3>2. /\ qp' = [head |-> next[j], tail |-> IF qp.tail = j THEN NULL ELSE qp.tail]
          /\ next' = next /\ prev' = prev
      BY <2>8 DEF JobRemove
    <3>3. CASE Len(jobs) = 1
      <4>1. jobs' = <<>> /\ Len(jobs') = 0
        BY <1>2, <3>3
      <4>2. qp'.tail = NULL
        BY <1>1, <2>5, <3>1, <3>2, <3>3
      <4> QED
        BY <4>1, <4>2 DEF Linked
    <3>4. CASE Len(jobs) # 1
      <4>1. 1 \in 1..Len(jobs) - 1 /\ 1 \in 1..Len(jobs') /\ jobs' # <<>>
        BY <1>0, <1>2, <2>4, <3>4
      <4>2. qp'.head = jobs'[1]
        BY <1>1, <2>6, <3>1, <3>2, <4>1
      <4>3. qp'.tail = jobs'[Len(jobs')]
        <5>1. Len(jobs') \in 1..Len(jobs') /\ Len(jobs') + 1 = Len(jobs)
          BY <1>0, <1>2, <4>1
        <5>2. qp.tail # j
          BY <1>1, <2>3, <2>4, <2>5, <3>1, <3>4
        <5> QED
          BY <2>5, <3>1, <3>2, <5>1, <5>2
      <4>4. ASSUME NEW i \in 1..Len(jobs') - 1
            PROVE next'[jobs'[i]] = jobs'[i + 1] /\ prev'[jobs'[i + 1]] = jobs'[i]
        <5>1. i \in 1..Len(jobs') /\ i + 1 \in 1..Len(jobs') /\ i + 1 \in 1..Len(jobs) - 1
          BY <1>0, <1>2
        <5> QED
          BY <2>6, <3>1, <3>2, <5>1
      <4> QED
        BY <4>1, <4>2, <4>3, <4>4 DEF Linked
    <3> QED
      BY <3>3, <3>4
  <2>9. CASE j # qp.head /\ j = qp.tail
    <3>1. r = Len(jobs) /\ r # 1 /\ r - 1 \in 1..Len(jobs) - 1 /\ r - 1 + 1 = r
      <4>1. r = Len(jobs) /\ r # 1
        BY <1>1, <2>3, <2>4, <2>5, <2>9
      <4> QED
        BY <1>0, <4>1
    <3>2. \A k \in 1..Len(jobs') : jobs'[k] = jobs[k] /\ k \in 1..Len(jobs) - 1
      BY <1>0, <1>2, <3>1
    <3>3. qp' = [qp EXCEPT !.tail = prev[j]] /\ next' = next /\ prev' = prev
      BY <2>9 DEF JobRemove
    <3>4. Len(jobs') = r - 1 /\ 1 \in 1..Len(jobs') /\ Len(jobs') \in 1..Len(jobs') /\ jobs' # <<>>
      BY <1>0, <1>2, <3>1
    <3>5. qp'.head = jobs'[1] /\ qp'.tail = jobs'[Len(jobs')]
      <4>1. prev[j] = jobs[r - 1]
        BY <1>1, <2>6, <3>1
      <4> QED
        BY <2>5, <2>7, <3>2, <3>3, <3>4, <4>1
    <3>6. ASSUME NEW i \in 1..Len(jobs') - 1
          PROVE next'[jobs'[i]] = jobs'[i + 1] /\ prev'[jobs'[i + 1]] = jobs'[i]
      <4>1. i \in 1..Len(jobs') /\ i + 1 \in 1..Len(jobs')
        BY <1>0, <1>2
      <4> QED
        BY <2>6, <3>2, <3>3, <4>1
    <3> QED
      BY <3>4, <3>5, <3>6 DEF Linked
  <2>10. CASE j # qp.head /\ j # qp.tail
    <3>1. /\ r # 1 /\ r # Len(jobs) /\ r - 1 + 1 = r
          /\ r - 1 \in 1..Len(jobs) - 1 /\ r \in 1..Len(jobs) - 1
          /\ r - 1 \in 1..Len(jobs) /\ r + 1 \in 1..Len(jobs)
      BY <1>0, <1>1, <2>5, <2>10
    <3>2. prev[j] = jobs[r - 1] /\ next[j] = jobs[r + 1]
      BY <1>1, <2>6, <3>1
    <3>3. qp' = qp
      BY <2>10 DEF JobRemove
    <3>4. next' = [next EXCEPT ![jobs[r - 1]] = jobs[r + 1]] /\ prev' = [prev EXCEPT ![jobs[r + 1]] = jobs[r - 1]]
      BY <2>2, <2>10, <3>1, <3>2 DEF JobRemove, Set1
    <3>5. next \in [Jobs -> Jobs \cup {NULL}] /\ prev \in [Jobs -> Jobs \cup {NULL}]
      BY DEF JobInv, JobTypes
    <3>6. qp'.head = jobs'[1] /\ qp'.tail = jobs'[Len(jobs')] /\ jobs' # <<>>
      <4>0. r \in Nat /\ 1 < r /\ r < Len(jobs)
        <5> DEFINE n == Len(jobs)
        <5>1. n \in Nat /\ r \in 1..n /\ r # 1 /\ r # n
          BY <1>0, <3>1
        <5> HIDE DEF n
        <5>2. r \in Nat /\ 1 < r /\ r < n
          BY <5>1
        <5> QED
          BY <5>2 DEF n
      <4>2. Len(jobs') \in Nat /\ Len(jobs') + 1 = Len(jobs)
        BY <1>0, <1>2
      <4>1. /\ 1 \in 1..Len(jobs') /\ 1 < r
            /\ Len(jobs') \in 1..Len(jobs') /\ ~(Len(jobs') < r) /\ Len(jobs') + 1 = Len(jobs)
        <5> DEFINE n == Len(jobs)
                   m == Len(jobs')
        <5>1. r \in Nat /\ 1 < r /\ r < n /\ m \in Nat /\ n \in Nat /\ m + 1 = n
          BY <1>0, <4>0, <4>2
        <5> HIDE DEF n, m
        <5>2. 1 \in 1..m /\ 1 < r /\ m \in 1..m /\ ~(m < r) /\ m + 1 = n
          BY <5>1
        <5> QED
          BY <5>2 DEF n, m
      <4> QED
        BY <1>2, <2>5, <3>3, <4>1
    <3>7. ASSUME NEW i \in 1..Len(jobs') - 1
          PROVE next'[jobs'[i]] = jobs'[i + 1] /\ prev'[jobs'[i + 1]] = jobs'[i]
      <4>0. /\ i \in 1..Len(jobs') /\ i + 1 \in 1..Len(jobs')
            /\ i \in Nat /\ 1 <= i /\ i + 1 < Len(jobs) /\ r \in Nat
        BY <1>0, <1>2
      <4>1. CASE i + 1 < r
        <5>1. /\ jobs'[i] = jobs[i] /\ jobs'[i + 1] = jobs[i + 1]
              /\ i \in 1..Len(jobs) - 1 /\ i \in 1..Len(jobs) /\ i + 1 \in 1..Len(jobs)
              /\ i # r - 1 /\ i + 1 # r + 1
          <6>1. jobs'[i] = jobs[i] /\ jobs'[i + 1] = jobs[i + 1]
            BY <1>2, <4>0, <4>1
          <6> QED
            BY <1>0, <4>0, <4>1, <6>1
        <5> QED
          BY <2>2, <2>3, <2>6, <3>1, <3>4, <3>5, <5>1
      <4>2. CASE i + 1 = r
        <5>1. jobs'[i] = jobs[r - 1] /\ jobs'[i + 1] = jobs[r + 1]
          BY <1>0, <1>2, <4>0, <4>2
        <5> QED
          BY <2>2, <3>1, <3>4, <3>5, <5>1
      <4>3. CASE i + 1 > r
        <5>1. /\ jobs'[i] = jobs[i + 1] /\ jobs'[i + 1] = jobs[i + 1 + 1]
              /\ i + 1 \in 1..Len(jobs) - 1 /\ i + 1 \in 1..Len(jobs) /\ i + 1 + 1 \in 1..Len(jobs)
              /\ i + 1 # r - 1 /\ i + 1 + 1 # r + 1
          <6>1. jobs'[i] = jobs[i + 1] /\ jobs'[i + 1] = jobs[i + 1 + 1]
            BY <1>2, <4>0, <4>3
          <6> QED
            BY <1>0, <4>0, <4>3, <6>1
        <5> QED
          BY <2>2, <2>3, <2>6, <3>1, <3>4, <3>5, <5>1, SMTT(30)
      <4> QED
        BY <3>1, <4>0, <4>1, <4>2, <4>3
    <3> QED
      BY <3>6, <3>7 DEF Linked
  <2> QED
    BY <2>8, <2>9, <2>10
<1>5. JobFound'
  BY <1>2, JobAssumption, Elements DEF JobFound, JobRemove, Nothing
<1> QED
  BY <1>3, <1>4, <1>5 DEF JobInv, JobLinks

(* job_find meets every job of the queue before it has made as many turns  *)
(* as there are jobs.                                                      *)
LEMMA FindStep == ASSUME JobInv, NEW j \in Jobs, JobFind(j) PROVE JobInv'
<1>1. UNCHANGED <<qp, next, prev, jobs, fresh, torn>>
  BY DEF JobFind
<1>2. JobTypes' /\ JobLinks'
  BY <1>1 DEF JobInv, JobTypes, JobLinks, Linked, NoTwice
<1>3. ASSUME torn = "no", j \in ToSet(jobs) PROVE \E n \in 0..Cardinality(Jobs) : Walk(n) = j
  <2>1. jobs \in Seq(Jobs) /\ Len(jobs) \in Nat /\ NoTwice(jobs) /\ JobTypes /\ Linked
    BY <1>3, Elements DEF JobInv, JobTypes, JobLinks
  <2>2. PICK i \in 1..Len(jobs) : j = jobs[i]
    BY <1>3, <2>1, Elements
  <2>3. Len(jobs) <= Cardinality(Jobs) /\ Cardinality(Jobs) \in Nat
    BY <2>1, JobAssumption, NoMoreThanThereAre, FS_CardinalityType
  <2>4. i - 1 \in Nat /\ i - 1 < Len(jobs) /\ i - 1 + 1 = i /\ i - 1 \in 0..Cardinality(Jobs)
    BY <2>1, <2>3
  <2>5. Walk(i - 1) = j
    BY <2>1, <2>2, <2>4, WalkIs
  <2> QED
    BY <2>4, <2>5
<1>4. JobFound'
  BY <1>1, <1>3 DEF JobFound, JobFind
<1> QED
  BY <1>2, <1>4 DEF JobInv

(* Every function of the queue keeps JobInv.                               *)
LEMMA JobStep == ASSUME JobInv, [JobNext]_jobvars PROVE JobInv'
<1>1. CASE UNCHANGED jobvars
  BY <1>1 DEF jobvars, JobInv, JobTypes, JobLinks, Linked, JobFound, NoTwice
<1> QED
  BY <1>1, InsertStep, AppendStep, RemoveStep, FindStep DEF JobNext

(* The queue holds what was put into it and not removed, in its order,     *)
(* with the pointers between neighbours as they should be, and job_find    *)
(* finds every job of it (rwlock.c), as long as no job was inserted in     *)
(* front of a removed one.                                                 *)
THEOREM JobsStayInTheQueue == SmallSpec => []JobsKept
<1>1. SmallInit => JobInv
  BY JobInitInv DEF SmallInit
<1>2. JobInv /\ [SmallNext]_allvars => JobInv'
  BY JobSteps, JobStep
<1>3. JobInv => JobsKept
  <2> SUFFICES ASSUME JobInv, torn = "no" PROVE JobsKept
    BY DEF JobsKept
  <2>1. Linked /\ JobFound /\ jobs \in Seq(Jobs)
    BY DEF JobInv, JobLinks, JobTypes
  <2>2. jobs # <<>> => Head(jobs) = jobs[1] /\ Last(jobs) = jobs[Len(jobs)]
    BY <2>1 DEF Last
  <2> QED
    BY <2>1, <2>2 DEF JobsKept, Linked, JobFound
<1> QED
  BY <1>1, <1>2, <1>3, PTL DEF SmallSpec

---------------------------------------------------------------------------
(* The count of an object is the number of references to it, in each of    *)
(* the three versions and for any number of threads and references.        *)

(* The thread that has read the count has its lock, and the count is still *)
(* what it has read; the one that initialises the object has f_lock.       *)
ObjLocked ==
    \A t \in Threads :
        /\ at[t] \in {"hold", "rele"} => locks[CountLock] = t /\ seen[t] = foo.count
        /\ at[t] = "init" => locks["f"] = t
(* A thread within a call has a reference, until it is to free the object. *)
ObjRefs ==
    \A t \in Threads : at[t] \in {"init", "hold", "rele", "last"} => \E r \in Refs : owner[r] = t
(* What is needed besides: no object is ever on its chain.                 *)
ObjInv == ObjTypeOK /\ fh = "NULL" /\ ObjLocked /\ ObjRefs /\ CountsAreRefs

(* The references held are finite in number, and so few as the count says. *)
LEMMA HeldFinite == ObjTypeOK => IsFiniteSet(Held) /\ Cardinality(Held) \in Nat
<1> SUFFICES ASSUME ObjTypeOK PROVE IsFiniteSet(Held) /\ Cardinality(Held) \in Nat
  OBVIOUS
<1>1. Held \in SUBSET Refs
  BY DEF Held
<1>2. IsFiniteSet(Held)
  BY <1>1, ObjAssumption, FS_Subset
<1> QED
  BY <1>2, FS_CardinalityType

(* A reference that is taken is one more, one that is given up one less. *)
LEMMA TakeRef ==
  ASSUME ObjTypeOK, NEW r \in Refs, NEW t \in Threads, owner[r] = Nobody,
         owner' = [owner EXCEPT ![r] = t]
  PROVE  Held' = Held \cup {r} /\ Cardinality(Held') = Cardinality(Held) + 1
<1>1. Held' = Held \cup {r}
  BY ObjAssumption DEF Held, ObjTypeOK
<1>2. r \notin Held
  BY DEF Held
<1> QED
  BY <1>1, <1>2, HeldFinite, FS_AddElement

LEMMA DropRef ==
  ASSUME ObjTypeOK, NEW r \in Refs, owner[r] # Nobody,
         owner' = [owner EXCEPT ![r] = Nobody]
  PROVE  Held' = Held \ {r} /\ Cardinality(Held') = Cardinality(Held) - 1 /\ r \in Held
<1>1. Held' = Held \ {r}
  BY DEF Held, ObjTypeOK
<1>2. r \in Held
  BY DEF Held
<1> QED
  BY <1>1, <1>2, HeldFinite, FS_RemoveElement

(* A thread that reads the count types what it has read, and lets go of    *)
(* nothing.                                                                *)
LEMMA BeginStep == ASSUME ObjInv, NEW t \in Threads, NEW r \in Refs, NEW a \in {"hold", "rele"},
                          owner[r] = t, Begin(t, a)
                   PROVE  ObjInv'
<1> USE DEF ObjInv
<1>1. CountLock \in {"f", "hash"} /\ CountLock' = CountLock
  BY DEF CountLock, Begin
<1>2. ObjTypeOK'
  BY <1>1 DEF Begin, ObjTypeOK
<1>3. Held' = Held /\ r \in Held
  BY ObjAssumption DEF Begin, Held
<1>4. ObjLocked'
  <2>1. ASSUME NEW u \in Threads, at'[u] \in {"hold", "rele"}
        PROVE  locks'[CountLock] = u /\ seen'[u] = foo.count
    <3>1. u = t
      BY <2>1, ObjAssumption DEF ObjLocked, Begin, ObjTypeOK
    <3> QED
      BY <1>1, <3>1 DEF Begin, ObjTypeOK
  <2>2. ASSUME NEW u \in Threads, at'[u] = "init" PROVE locks'["f"] = u
    <3>1. u # t /\ locks["f"] = u
      BY <2>2 DEF ObjLocked, Begin, ObjTypeOK
    <3> QED
      BY <1>1, <3>1, ObjAssumption DEF Begin, ObjTypeOK
  <2> QED
    BY <1>1, <2>1, <2>2 DEF ObjLocked, Begin
<1>5. ObjRefs'
  BY DEF ObjRefs, Begin, ObjTypeOK
<1>6. CountsAreRefs'
  <2>1. foo.mem = "live" /\ ~segv /\ \A u \in Threads : at[u] # "destroy"
    BY <1>3 DEF CountsAreRefs
  <2>2. \A u \in Threads : at'[u] # "destroy"
    BY <2>1 DEF Begin, ObjTypeOK
  <2> QED
    BY <1>3, <2>1, <2>2 DEF Begin, CountsAreRefs, LastFrees
<1> QED
  BY <1>2, <1>4, <1>5, <1>6 DEF Begin

(* A reference less, by the thread that has the lock of the count.         *)
LEMMA OneLessStep ==
  ASSUME ObjInv, NEW t \in Threads, NEW r \in Refs, owner[r] = t, ~segv,
         OneLess(t, r, foo.count), locks[CountLock] \in {t, Nobody},
         seen' \in [Threads -> Nat], UNCHANGED <<variant, found>>,
         \A u \in Threads \ {t} : seen'[u] = seen[u]
  PROVE  ObjInv'
<1> USE DEF ObjInv
<1>1. CountLock \in {"f", "hash"} /\ owner[r] # Nobody /\ owner' = [owner EXCEPT ![r] = Nobody]
  BY ObjAssumption DEF CountLock, OneLess
<1>2. Held' = Held \ {r} /\ Cardinality(Held') = Cardinality(Held) - 1 /\ r \in Held
  BY <1>1, DropRef
<1>3. foo.mem = "live" /\ \A u \in Threads : at[u] # "destroy"
  BY <1>2 DEF CountsAreRefs
<1>4. Cardinality(Held) \in Nat /\ Cardinality(Held) # 0 /\ foo.count = Cardinality(Held)
  BY <1>2, HeldFinite, FS_EmptySet DEF CountsAreRefs
<1>5. foo' = [foo EXCEPT !.count = @ - 1] /\ foo'.mem = "live" /\ foo'.count = Cardinality(Held')
  BY <1>2, <1>3, <1>4 DEF OneLess, ObjTypeOK
<1>6. locks' = [locks EXCEPT ![CountLock] = Nobody] /\ fh' = "NULL" /\ segv' \in BOOLEAN
  BY DEF OneLess, Unlock, Unchain, ObjTypeOK
<1>7. /\ at' \in [Threads -> {"idle", "init", "hold", "rele", "last", "destroy"}]
      /\ \A u \in Threads \ {t} : at'[u] = at[u]
      /\ at'[t] \in {"idle", "destroy"}
  BY DEF OneLess, Unchain, ObjTypeOK
<1>8. ObjTypeOK'
  <2>1. foo' \in [mem : {"none", "live", "freed"}, count : Nat, next : {"NULL", "fp"}]
    BY <1>4, <1>5 DEF ObjTypeOK
  <2>2. owner' \in [Refs -> Threads \cup {Nobody}] /\ locks' \in [{"f", "hash"} -> Threads \cup {Nobody}]
    BY <1>1, <1>6 DEF ObjTypeOK
  <2> QED
    BY <1>6, <1>7, <2>1, <2>2 DEF ObjTypeOK
<1>9. ObjRefs'
  <2> SUFFICES ASSUME NEW u \in Threads, at'[u] \in {"init", "hold", "rele", "last"}
               PROVE  \E q \in Refs : owner'[q] = u
    BY DEF ObjRefs
  <2>1. u # t /\ at[u] = at'[u]
    BY <1>7
  <2>2. PICK q \in Refs : owner[q] = u
    BY <2>1 DEF ObjRefs
  <2> QED
    BY <1>1, <2>1, <2>2 DEF ObjTypeOK
<1>10. ObjLocked'
  <2>1. ASSUME NEW u \in Threads, at'[u] \in {"hold", "rele"} PROVE FALSE
    <3>1. u # t /\ at[u] = at'[u]
      BY <1>7, <2>1
    <3> QED
      BY <2>1, <3>1, ObjAssumption DEF ObjLocked
  <2>2. ASSUME NEW u \in Threads, at'[u] = "init" PROVE locks'["f"] = u
    <3>1. u # t /\ locks["f"] = u
      BY <1>7, <2>2 DEF ObjLocked
    <3> QED
      BY <1>1, <1>6, <3>1, ObjAssumption DEF ObjTypeOK
  <2> QED
    BY <2>1, <2>2 DEF ObjLocked
<1>11. CountsAreRefs'
  <2>1. CASE foo.count = 1
    <3>1. Cardinality(Held') = 0
      BY <1>2, <1>4, <2>1
    <3>2. Held' = {}
      BY <1>8, <3>1, HeldFinite, <1>2, FS_EmptySet, FS_RemoveElement, FS_Subset
    <3>3. \A u \in Threads \ {t} : at'[u] = "idle"
      <4> SUFFICES ASSUME NEW u \in Threads \ {t}, at'[u] # "idle" PROVE FALSE
        OBVIOUS
      <4>1. at'[u] \in {"init", "hold", "rele", "last"}
        BY <1>3, <1>7
      <4>2. PICK q \in Refs : owner'[q] = u
        BY <1>9, <4>1 DEF ObjRefs
      <4>3. q \in Held'
        BY <4>2, ObjAssumption DEF Held
      <4> QED
        BY <3>2, <4>3
    <3>4. Unchain(t)
      BY <2>1 DEF OneLess
    <3>5. CASE variant = "mutex1"
      <4>1. at'[t] = "destroy" /\ ~segv'
        BY <3>4, <3>5 DEF Unchain, ObjTypeOK
      <4> QED
        BY <1>5, <3>2, <3>3, <4>1, <3>5 DEF CountsAreRefs, LastFrees
    <3>6. CASE variant # "mutex1"
      <4>1. at'[t] = "idle" /\ segv'
        BY <3>4, <3>6 DEF Unchain, ObjTypeOK
      <4> QED
        BY <1>5, <3>2, <3>3, <4>1, <3>6 DEF CountsAreRefs, LastFrees
    <3> QED
      BY <3>5, <3>6
  <2>2. CASE foo.count # 1
    <3>1. Cardinality(Held') # 0
      BY <1>2, <1>4, <2>2
    <3>2. Held' # {}
      BY <3>1, FS_EmptySet
    <3>3. ~segv' /\ \A u \in Threads : at'[u] # "destroy"
      BY <1>3, <1>7, <2>2 DEF OneLess, ObjTypeOK
    <3> QED
      BY <1>5, <3>2, <3>3 DEF CountsAreRefs, LastFrees
  <2> QED
    BY <2>1, <2>2
<1> QED
  BY <1>6, <1>8, <1>9, <1>10, <1>11

LEMMA ObjStep == ASSUME ObjInv, [ObjNext]_objvars PROVE ObjInv'
<1> USE DEF ObjInv
<1>0. CountLock \in {"f", "hash"}
  BY DEF CountLock
<1>1. CASE UNCHANGED objvars
  BY <1>1 DEF objvars, ObjTypeOK, ObjLocked, ObjRefs, CountsAreRefs, LastFrees, Held, CountLock
<1>2. ASSUME NEW t \in Threads, FooInitialised(t) PROVE ObjInv'
  <2>1. /\ UNCHANGED <<variant, foo, fh, owner, seen, found, segv>>
        /\ locks' = [locks EXCEPT !.f = Nobody] /\ at' = [at EXCEPT ![t] = "idle"] /\ at[t] = "init"
    BY <1>2 DEF FooInitialised
  <2>2. Held' = Held /\ CountLock' = CountLock /\ Held # {}
    BY <2>1, ObjAssumption DEF Held, CountLock, ObjRefs
  <2>3. ObjTypeOK' /\ ObjRefs'
    BY <2>1 DEF ObjTypeOK, ObjRefs
  <2>4. ObjLocked'
    <3>1. locks["f"] = t /\ \A u \in Threads \ {t} : at'[u] = at[u] /\ at[u] # "init"
      BY <2>1 DEF ObjTypeOK, ObjLocked
    <3>2. \A u \in Threads : at'[u] # "init" /\ (at'[u] \in {"hold", "rele"} => u # t)
      BY <2>1, <3>1 DEF ObjTypeOK
    <3>3. ASSUME NEW u \in Threads, at'[u] \in {"hold", "rele"}
          PROVE  locks'[CountLock] = u /\ seen[u] = foo.count
      <4>1. u # t /\ locks[CountLock] = u /\ seen[u] = foo.count
        BY <3>1, <3>2, <3>3 DEF ObjLocked
      <4> QED
        BY <1>0, <2>1, <3>1, <4>1 DEF ObjTypeOK
    <3> QED
      BY <2>1, <2>2, <3>2, <3>3 DEF ObjLocked
  <2>5. CountsAreRefs'
    BY <2>1, <2>2 DEF CountsAreRefs, LastFrees, ObjTypeOK
  <2> QED
    BY <2>1, <2>3, <2>4, <2>5
<1>3. ASSUME NEW t \in Threads, FooFree(t) PROVE ObjInv'
  <2>1. /\ UNCHANGED <<variant, fh, locks, owner, seen, found, segv>>
        /\ foo' = [foo EXCEPT !.mem = "freed"] /\ at' = [at EXCEPT ![t] = "idle"]
        /\ at[t] = "destroy" /\ ~segv
    BY <1>3 DEF FooFree
  <2>2. Held' = Held /\ Held = {} /\ foo.mem = "live" /\ CountLock' = CountLock
    BY <2>1 DEF Held, CountsAreRefs, CountLock
  <2>3. variant = "mutex1"
    BY <2>1, <2>2 DEF CountsAreRefs
  <2>4. \A u \in Threads : at'[u] = "idle"
    <3> SUFFICES ASSUME NEW u \in Threads, u # t, at[u] # "idle" PROVE FALSE
      BY <2>1 DEF ObjTypeOK
    <3>1. at[u] # "destroy"
      BY <2>1 DEF CountsAreRefs
    <3>2. \E r \in Refs : owner[r] = u
      BY <3>1 DEF ObjRefs, ObjTypeOK
    <3> QED
      BY <2>2, <3>2, ObjAssumption DEF Held
  <2>5. ObjTypeOK' /\ foo'.count = foo.count /\ foo'.mem = "freed"
    BY <2>1 DEF ObjTypeOK
  <2>6. CountsAreRefs'
    BY <2>1, <2>2, <2>3, <2>4, <2>5 DEF CountsAreRefs, LastFrees
  <2> QED
    BY <2>1, <2>4, <2>5, <2>6 DEF ObjLocked, ObjRefs
<1>4. ASSUME NEW t \in Threads, NEW r \in Refs, FooAlloc(t, r) PROVE ObjInv'
  <2>1. /\ Held = {} /\ owner' = [owner EXCEPT ![r] = t] /\ ~segv /\ ~segv'
        /\ \A u \in Threads : at[u] = "idle"
        /\ UNCHANGED <<variant, seen, found, segv>>
    BY <1>4 DEF FooAlloc, Idle
  <2>2. owner[r] = Nobody /\ Cardinality(Held) = 0
    BY <2>1, FS_EmptySet DEF Held
  <2>3. Held' = Held \cup {r} /\ Cardinality(Held') = Cardinality(Held) + 1
    BY <2>1, <2>2, TakeRef
  <2>4. Cardinality(Held') = 1 /\ Held' # {}
    BY <2>2, <2>3
  <2>5. foo' = [mem |-> "live", count |-> 1, next |-> "NULL"] /\ fh' = "NULL"
    BY <1>4 DEF FooAlloc
  <2>6. /\ at' = [at EXCEPT ![t] = IF variant = "mutex2" THEN "init" ELSE @]
        /\ locks' = [f |-> IF variant = "mutex1" THEN Nobody ELSE t, hash |-> Nobody]
    BY <1>4 DEF FooAlloc
  <2>7. locks' \in [{"f", "hash"} -> Threads \cup {Nobody}]
    BY <2>6
  <2>8. ObjTypeOK'
    BY <2>1, <2>5, <2>6, <2>7 DEF ObjTypeOK
  <2>9. /\ \A u \in Threads : at'[u] \in {"idle", "init"}
        /\ \A u \in Threads : at'[u] = "init" => u = t /\ locks'["f"] = t
    BY <2>1, <2>6 DEF ObjTypeOK
  <2>10. owner'[r] = t
    BY <2>1 DEF ObjTypeOK
  <2>11. CountsAreRefs'
    BY <2>1, <2>4, <2>5, <2>9 DEF CountsAreRefs, LastFrees
  <2> QED
    BY <2>5, <2>8, <2>9, <2>10, <2>11 DEF ObjLocked, ObjRefs
<1>5. ASSUME NEW t \in Threads, NEW r \in Refs, FooHold(t, r) PROVE ObjInv'
  BY <1>5, BeginStep DEF FooHold
<1>6. ASSUME NEW t \in Threads, NEW r \in Refs, FooHeld(t, r) PROVE ObjInv'
  <2>1. /\ ~segv /\ at[t] = "hold" /\ owner[r] = Nobody
        /\ foo' = [foo EXCEPT !.count = foo.count + 1]
        /\ owner' = [owner EXCEPT ![r] = t] /\ locks' = [locks EXCEPT ![CountLock] = Nobody]
        /\ at' = [at EXCEPT ![t] = "idle"] /\ seen' = [seen EXCEPT ![t] = 0]
        /\ UNCHANGED <<variant, fh, found, segv>>
    BY <1>6 DEF FooHeld, Unlock, ObjLocked
  <2>2. Held' = Held \cup {r} /\ Cardinality(Held') = Cardinality(Held) + 1
    BY <2>1, TakeRef
  <2>3. foo.mem = "live" /\ Held # {} /\ locks[CountLock] = t
    BY <2>1, ObjAssumption DEF ObjRefs, ObjLocked, CountsAreRefs, Held
  <2>4. foo'.count = Cardinality(Held') /\ foo'.mem = "live" /\ Held' # {}
    BY <2>1, <2>2, <2>3 DEF CountsAreRefs, ObjTypeOK
  <2>5. ObjTypeOK'
    BY <1>0, <2>1 DEF ObjTypeOK
  <2>6. ObjRefs'
    <3> SUFFICES ASSUME NEW u \in Threads, at'[u] \in {"init", "hold", "rele", "last"}
                 PROVE  \E q \in Refs : owner'[q] = u
      BY DEF ObjRefs
    <3>1. u # t /\ at[u] = at'[u]
      BY <2>1 DEF ObjTypeOK
    <3>2. PICK q \in Refs : owner[q] = u
      BY <3>1 DEF ObjRefs
    <3> QED
      BY <2>1, <3>2, ObjAssumption DEF ObjTypeOK
  <2>7. ObjLocked'
    <3>1. \A u \in Threads : at'[u] \in {"hold", "rele", "init"} => u # t /\ at[u] = at'[u]
      BY <2>1 DEF ObjTypeOK
    <3>2. \A u \in Threads : at'[u] \notin {"hold", "rele"}
      BY <2>3, <3>1, ObjAssumption DEF ObjLocked
    <3>3. ASSUME NEW u \in Threads, at'[u] = "init" PROVE locks'["f"] = u
      <4>1. u # t /\ locks["f"] = u
        BY <3>1, <3>3 DEF ObjLocked
      <4> QED
        BY <1>0, <2>1, <2>3, <4>1 DEF ObjTypeOK
    <3> QED
      BY <3>2, <3>3 DEF ObjLocked
  <2>8. CountsAreRefs'
    BY <2>1, <2>3, <2>4 DEF CountsAreRefs, LastFrees, ObjTypeOK
  <2> QED
    BY <2>1, <2>5, <2>6, <2>7, <2>8
<1>7. ASSUME NEW t \in Threads, NEW r \in Refs, FooFind(t, r) PROVE ObjInv'
  <2>1. UNCHANGED <<variant, fh, locks, at, seen, segv, foo, owner>> /\ found' = "NULL"
    BY <1>7 DEF FooFind
  <2> QED
    BY <2>1 DEF ObjTypeOK, ObjLocked, ObjRefs, CountsAreRefs, LastFrees, Held, CountLock
<1>8. ASSUME NEW t \in Threads, NEW r \in Refs, FooRele(t, r) PROVE ObjInv'
  BY <1>8, BeginStep DEF FooRele
<1>9. ASSUME NEW t \in Threads, NEW r \in Refs, FooReleased(t, r) PROVE ObjInv'
  <2>1. /\ ~segv /\ owner[r] = t /\ at[t] = "rele" /\ UNCHANGED <<variant, found>>
        /\ seen' = [seen EXCEPT ![t] = 0] /\ locks[CountLock] = t /\ seen[t] = foo.count
    BY <1>9 DEF FooReleased, ObjLocked
  <2>2. CASE variant = "mutex2" /\ seen[t] = 1
    <3>1. /\ UNCHANGED <<foo, owner, fh, segv>> /\ at' = [at EXCEPT ![t] = "last"]
          /\ locks' = [locks EXCEPT ![CountLock] = Nobody]
      BY <1>9, <2>2 DEF FooReleased, Unlock
    <3>2. Held' = Held /\ Held # {}
      BY <2>1, <3>1, ObjAssumption DEF Held
    <3>3. ObjTypeOK' /\ ObjRefs'
      BY <1>0, <2>1, <3>1 DEF ObjTypeOK, ObjRefs
    <3>4. ObjLocked'
      BY <2>1, <3>1 DEF ObjLocked, ObjTypeOK
    <3>5. CountsAreRefs'
      BY <2>1, <3>1, <3>2 DEF CountsAreRefs, LastFrees, ObjTypeOK
    <3> QED
      BY <3>1, <3>3, <3>4, <3>5
  <2>3. CASE ~(variant = "mutex2" /\ seen[t] = 1)
    <3>1. OneLess(t, r, foo.count)
      BY <1>9, <2>1, <2>3 DEF FooReleased
    <3>2. seen' \in [Threads -> Nat] /\ \A u \in Threads \ {t} : seen'[u] = seen[u]
      BY <2>1 DEF ObjTypeOK
    <3> QED
      BY <2>1, <3>1, <3>2, OneLessStep
  <2> QED
    BY <2>2, <2>3
<1>10. ASSUME NEW t \in Threads, NEW r \in Refs, FooLast(t, r) PROVE ObjInv'
  <2>1. /\ ~segv /\ owner[r] = t /\ UNCHANGED <<variant, seen, found>>
        /\ OneLess(t, r, foo.count) /\ locks[CountLock] = Nobody
    BY <1>10 DEF FooLast, CountLock
  <2>2. seen' \in [Threads -> Nat]
    BY <2>1 DEF ObjTypeOK
  <2> QED
    BY <2>1, <2>2, OneLessStep
<1>11. ASSUME NEW t \in Threads, NEW u \in Threads \ {t}, NEW r \in Refs, Pass(t, u, r)
      PROVE  ObjInv'
  <2>1. /\ UNCHANGED <<variant, foo, fh, locks, at, seen, found, segv>>
        /\ owner[r] = t /\ owner' = [owner EXCEPT ![r] = u] /\ at[t] = "idle"
    BY <1>11 DEF Pass, Idle
  <2>2. Held' = Held
    BY <2>1, ObjAssumption DEF Held, ObjTypeOK
  <2>3. ObjRefs'
    BY <2>1 DEF ObjRefs, ObjTypeOK
  <2>4. ObjTypeOK' /\ ObjLocked'
    BY <2>1 DEF ObjTypeOK, ObjLocked, CountLock
  <2> QED
    BY <2>1, <2>2, <2>3, <2>4 DEF CountsAreRefs, LastFrees
<1> QED
  BY <1>1, <1>2, <1>3, <1>4, <1>5, <1>6, <1>7, <1>8, <1>9, <1>10, <1>11 DEF ObjNext

(* The count is the number of references though it is read in one step and *)
(* written in another, and a thread within a call finds the object in      *)
(* memory. In mutex1 the object is freed when its last reference is given  *)
(* up; in mutex2 and mutex3, which put no object on its chain, it never    *)
(* is, and that release follows a null pointer (foo_alloc, foo_hold,       *)
(* foo_rele).                                                              *)
THEOREM CountIsHolders == ObjSpec => []CountsAreRefs
<1>1. ObjInit => ObjInv
  <2> SUFFICES ASSUME ObjInit PROVE ObjInv
    OBVIOUS
  <2>1. Held = {}
    BY DEF ObjInit, Held
  <2>2. Cardinality(Held) = 0
    BY <2>1, FS_EmptySet
  <2>3. seen \in [Threads -> Nat] /\ locks \in [{"f", "hash"} -> Threads \cup {Nobody}]
    BY DEF ObjInit
  <2>4. ObjTypeOK
    BY <2>3 DEF ObjInit, ObjTypeOK
  <2> QED
    BY <2>1, <2>2, <2>4 DEF ObjInit, ObjInv, ObjLocked, ObjRefs, CountsAreRefs, LastFrees
<1>2. ObjInv /\ [ObjNext]_objvars => ObjInv'
  BY ObjStep
<1>3. ObjInv => CountsAreRefs
  BY DEF ObjInv
<1> QED
  BY <1>1, <1>2, <1>3, PTL DEF ObjSpec
=============================================================================
