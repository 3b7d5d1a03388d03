------------------------------- MODULE DbOpen -------------------------------
(* db_open of db/db.c: processes that open the same database, some of which    *)
(* create it, while others that have opened it already store records.  The       *)
(* calls on an open database are the module Db; here a store is one step.          *)
EXTENDS FiniteSets, Naturals

CONSTANTS
    Openers,    \* the processes
    NoOpener

ASSUME OpenAssumption == IsFiniteSet(Openers) /\ NoOpener \notin Openers

VARIABLES
    idxfile,    \* "absent", "empty" or "header": the pointers of the chains
    linked,     \* the processes whose record a chain leads to
    datrecs,    \* those whose data record is in the data file
    openlock,   \* who has the whole index file write locked
    opener      \* process -> how it opens and where it is

openvars == <<idxfile, linked, datrecs, openlock, opener>>

OpenModes == {"create", "attach"}    \* O_CREAT | O_TRUNC, or neither

DbOpenInit ==
    /\ idxfile \in {"absent", "header"} /\ linked = {} /\ datrecs = {}
    /\ openlock = NoOpener
    /\ opener \in [Openers -> [mode : OpenModes, at : {"start"}, idxfd : {"none"}, stored : {FALSE}]]

OpenerGoes(o, a, b) == opener[o].at = a /\ opener' = [opener EXCEPT ![o].at = b]

(* open of the index file: O_TRUNC empties it here, before any lock.  When it fails, *)
(* db->idxfd is left for later, and db_open goes on to the data file.                   *)
OpenIdx(o) ==
    /\ opener[o].at = "start"
    /\ \/ /\ opener' = [opener EXCEPT ![o].at = "dat", ![o].idxfd = "open"]
          /\ IF opener[o].mode = "create"
             THEN idxfile' = "empty" /\ linked' = {}
             ELSE idxfile # "absent" /\ UNCHANGED <<idxfile, linked>>
       \/ OpenerGoes(o, "start", "dat") /\ UNCHANGED <<idxfile, linked>>
    /\ UNCHANGED <<datrecs, openlock>>

(* open of the data file, which O_TRUNC empties, whatever became of the index file.  *)
(* When either has failed, db_open returns NULL.                                        *)
OpenDat(o) ==
    /\ \/ OpenerGoes(o, "dat", "failed") /\ UNCHANGED datrecs
       \/ /\ datrecs' = IF opener[o].mode = "create" THEN {} ELSE datrecs
          /\ OpenerGoes(o, "dat", IF opener[o].idxfd = "none" THEN "failed"
                                 ELSE IF opener[o].mode = "create" THEN "lock" ELSE "open")
    /\ UNCHANGED <<idxfile, linked, openlock>>

OpenLockNone(o) ==
    /\ OpenerGoes(o, "lock", "stat")
    /\ UNCHANGED <<idxfile, linked, datrecs, openlock>>

OpenLock(o) ==
    /\ openlock = NoOpener /\ OpenerGoes(o, "lock", "stat")
    /\ openlock' = o
    /\ UNCHANGED <<idxfile, linked, datrecs>>

OpenStat(o) ==
    /\ OpenerGoes(o, "stat", IF idxfile = "empty" THEN "init" ELSE "unlock")
    /\ UNCHANGED <<idxfile, linked, datrecs, openlock>>

(* Written at the start of the file: every chain is empty afterwards. *)
OpenWrite(o) ==
    /\ OpenerGoes(o, "init", "unlock")
    /\ idxfile' = "header" /\ linked' = {}
    /\ UNCHANGED <<datrecs, openlock>>

OpenUnlock(o) ==
    /\ OpenerGoes(o, "unlock", "open")
    /\ openlock' = IF openlock = o THEN NoOpener ELSE openlock
    /\ UNCHANGED <<idxfile, linked, datrecs>>

(* A store through the handle; without the pointers it ends in err_dump.  It    *)
(* locks a chain, a byte of the index file, and waits for the lock of an opener.   *)
StoreOne(o) ==
    /\ openlock \in {NoOpener, o}
    /\ \/ /\ idxfile = "header" /\ ~opener[o].stored /\ opener[o].at = "open"
          /\ linked' = linked \cup {o} /\ datrecs' = datrecs \cup {o}
          /\ opener' = [opener EXCEPT ![o].stored = TRUE]
       \/ /\ idxfile # "header" /\ OpenerGoes(o, "open", "dumped")
          /\ UNCHANGED <<linked, datrecs>>
    /\ UNCHANGED <<idxfile, openlock>>

(* The process is killed, and its lock is free. *)
OpenerDies(o) ==
    /\ OpenerGoes(o, opener[o].at, "dead") /\ opener[o].at \in {"dat", "lock", "stat", "init", "unlock"}
    /\ openlock' = IF openlock = o THEN NoOpener ELSE openlock
    /\ UNCHANGED <<idxfile, linked, datrecs>>

DbOpenNext ==
    \E o \in Openers :
        \/ OpenIdx(o) \/ OpenDat(o) \/ OpenLock(o) \/ OpenStat(o) \/ OpenWrite(o)
        \/ OpenUnlock(o) \/ StoreOne(o) \/ OpenerDies(o)

---------------------------------------------------------------------------

(* A record that was stored is unlinked only by a process that opens with          *)
(* O_TRUNC: the initialisation that comes after, under the lock, never finds a        *)
(* record to wipe out (db.c:150, "stat it, check its size, and initialize it,            *)
(* atomically").                                                                            *)
InitWipesNothing ==
    \A o \in Openers : opener[o].at = "init" => linked = {} /\ idxfile = "empty"

(* A process that created the database and has its handle finds the pointers, unless    *)
(* another has emptied the file and is still to initialise it, or died before.             *)
CreatorsFindHeader ==
    \A o \in Openers : opener[o].mode = "create" /\ opener[o].at = "open" /\ idxfile # "header" =>
        \E q \in Openers \ {o} :
            /\ opener[q].mode = "create" /\ opener[q].idxfd = "open"
            /\ opener[q].at \in {"dat", "lock", "stat", "init", "failed", "dead"}

(* A creator whose open of the index file has failed: the data file may be empty all    *)
(* the same (db.c:128-130), and every record that a chain leads to is without its data.    *)
EmptiesDataOnly(o) ==
    opener[o].mode = "create" /\ opener[o].idxfd = "none" /\ opener[o].at = "failed"

(* As long as one process at most creates the database, it never empties the data file   *)
(* of a record that a chain leads to, unless its own open of the index file has failed.     *)
DataKept ==
    \/ Cardinality({o \in Openers : opener[o].mode = "create"}) > 1
    \/ \E o \in Openers : EmptiesDataOnly(o)
    \/ linked \subseteq datrecs

OpensHarmless == InitWipesNothing /\ CreatorsFindHeader /\ DataKept
=============================================================================
