----------------------------- MODULE DaemonLock -----------------------------
(* Daemons that may be started more than once: daemonize of lib/daemonize.c,     *)
(* then already_running of daemons/single.c with its lock file.  A record lock     *)
(* belongs to a process: it is not inherited over fork, and it is gone when the      *)
(* process closes any descriptor of the file.                                           *)
EXTENDS Naturals, Sequences

CONSTANTS
    Starts,     \* starts of the command
    MaxDeaths,  \* bound: daemons that are killed
    NoHolder

ASSUME DaemonAssumption == NoHolder \notin Starts \X Nat

VARIABLES
    daemonof,   \* start -> the process that runs it, and where it is
    lockholder, \* the process that has the lock on the file
    pidfile,    \* the file: the pids of which it has bytes, the first one first
    deaths

daemonvars == <<daemonof, lockholder, pidfile, deaths>>

(* A process of a start is named by how many forks came before it. *)
Pid(s) == <<s, daemonof[s].gen>>

(* What main of reread.c does before it handles signals.                             *)
DaemonBeforeFork == <<"open", "lock", "truncate", "write", "fork", "fork", "closeall">>
Daemonize == <<"fork", "fork", "closeall", "open", "lock", "truncate", "write">>

DaemonInit ==
    /\ daemonof = [s \in Starts |-> [gen |-> 0, pc |-> 1, end |-> "no"]]
    /\ lockholder = NoHolder /\ pidfile = <<>> /\ deaths = 0

DaemonAt(s, op) ==
    /\ daemonof[s].end = "no" /\ daemonof[s].pc <= Len(Daemonize)
    /\ Daemonize[daemonof[s].pc] = op

DaemonGoesOn(s) == daemonof' = [daemonof EXCEPT ![s].pc = @ + 1]

Unlocked(s) == lockholder' = IF lockholder = Pid(s) THEN NoHolder ELSE lockholder

(* The parent exits, and with it goes what it has locked. *)
ForkAndExit(s) ==
    /\ DaemonAt(s, "fork")
    /\ daemonof' = [daemonof EXCEPT ![s].pc = @ + 1, ![s].gen = @ + 1]
    /\ Unlocked(s)
    /\ UNCHANGED <<pidfile, deaths>>

CloseAll(s) ==
    /\ DaemonAt(s, "closeall") /\ DaemonGoesOn(s) /\ Unlocked(s)
    /\ UNCHANGED <<pidfile, deaths>>

OpenLockFile(s) ==
    /\ DaemonAt(s, "open") /\ DaemonGoesOn(s)
    /\ UNCHANGED <<lockholder, pidfile, deaths>>

(* lockfile: F_SETLK does not wait; "daemon already running". *)
Lockfile(s) ==
    /\ DaemonAt(s, "lock")
    /\ \/ lockholder = NoHolder /\ lockholder' = Pid(s) /\ DaemonGoesOn(s)
       \/ /\ lockholder # NoHolder /\ UNCHANGED lockholder
          /\ daemonof' = [daemonof EXCEPT ![s].end = "refused"]
    /\ UNCHANGED <<pidfile, deaths>>

Ftruncate(s) ==
    /\ DaemonAt(s, "truncate") /\ DaemonGoesOn(s)
    /\ pidfile' = <<>>
    /\ UNCHANGED <<lockholder, deaths>>

(* What was there is overwritten from the start, and its end stays. *)
WritePid(s) ==
    /\ DaemonAt(s, "write") /\ DaemonGoesOn(s)
    /\ \E covered \in 0..Len(pidfile) :
         pidfile' = <<Pid(s)>> \o SubSeq(pidfile, covered + 1, Len(pidfile))
    /\ UNCHANGED <<lockholder, deaths>>

DaemonKilled(s) ==
    /\ daemonof[s].end = "no" /\ deaths < MaxDeaths
    /\ daemonof' = [daemonof EXCEPT ![s].end = "killed"]
    /\ Unlocked(s) /\ deaths' = deaths + 1
    /\ UNCHANGED pidfile

DaemonNext ==
    \E s \in Starts : \/ ForkAndExit(s) \/ CloseAll(s) \/ OpenLockFile(s) \/ Lockfile(s)
                      \/ Ftruncate(s) \/ WritePid(s) \/ DaemonKilled(s)

---------------------------------------------------------------------------

RunsAsDaemon(s) == daemonof[s].end = "no" /\ daemonof[s].pc > Len(Daemonize)

(* Of daemons that are started at the same time, are killed and started again, at    *)
(* most one runs, and the lock file holds the pid of that process and nothing of an     *)
(* earlier one (reread.c:69, "Make sure only one copy of the daemon is running").          *)
OneDaemon ==
    /\ \A s, t \in Starts : RunsAsDaemon(s) /\ RunsAsDaemon(t) => s = t
    /\ \A s \in Starts : RunsAsDaemon(s) => pidfile = <<Pid(s)>>
=============================================================================
