------------------------------ MODULE Timeout ------------------------------
(* threadctl/timeout.c: main asks, with the lock held, for retry to be called at   *)
(* a given time; timeout makes a thread that waits and calls it (detach.c), or        *)
(* calls it itself, when the time has come or there is no memory or no thread.          *)
EXTENDS Naturals

CONSTANTS
    Times,      \* points in time, in the small unit of tv_nsec
    SECTONSEC   \* how many of these make a second

ASSUME TimeAssumption == Times \subseteq Nat /\ SECTONSEC \in Nat \ {0}

VARIABLES
    now, when,  \* the time timeout reads, and the time it is given
    tmain,      \* main: where it is
    helper,     \* timeout_helper: where it is
    towait,     \* to_wait of its to_info
    mutex       \* the recursive mutex: who has it and how often

timevars == <<now, when, tmain, helper, towait, mutex>>

AsTimespec(t)  == [sec |-> t \div SECTONSEC, nsec |-> t % SECTONSEC]
Later(a, b) == a.sec > b.sec \/ (a.sec = b.sec /\ a.nsec > b.nsec)

TimeInit ==
    /\ now \in Times /\ when \in Times
    /\ tmain = "start" /\ helper = "none"
    /\ towait = [sec |-> 0, nsec |-> 0]
    /\ mutex = [by |-> "nobody", depth |-> 0]

(* The difference of the two times, as timeout computes it. *)
ToWaitNoBorrow(w, n) == [sec |-> w.sec - n.sec,
                         nsec |-> IF w.nsec >= n.nsec THEN w.nsec - n.nsec
                                  ELSE SECTONSEC - n.nsec + w.nsec]
ToWait(w, n) ==
    IF w.nsec >= n.nsec
    THEN [sec |-> w.sec - n.sec, nsec |-> w.nsec - n.nsec]
    ELSE [sec |-> w.sec - n.sec - 1, nsec |-> SECTONSEC - n.nsec + w.nsec]

(* pthread_mutex_lock and unlock of a mutex of the recursive kind. *)
MutexLock(who) ==
    /\ mutex.by \in {"nobody", who}
    /\ mutex' = [by |-> who, depth |-> mutex.depth + 1]

MutexUnlock == mutex' = IF mutex.depth = 1 THEN [by |-> "nobody", depth |-> 0]
                   ELSE [mutex EXCEPT !.depth = @ - 1]

MainLocks ==
    /\ tmain = "start" /\ MutexLock("main")
    /\ \/ tmain' = "timeout"
       \/ tmain' = "unlock"
    /\ UNCHANGED <<now, when, helper, towait>>

(* timeout as far as makethread, whose error sends it on to the call.  *)
CallTimeout ==
    /\ tmain = "timeout"
    /\ \/ /\ Later(AsTimespec(when), AsTimespec(now))
          /\ helper' = "sleep" /\ towait' = ToWait(AsTimespec(when), AsTimespec(now))
          /\ tmain' = "unlock"
       \/ tmain' = "retry" /\ UNCHANGED <<helper, towait>>
    /\ UNCHANGED <<now, when, mutex>>

RetryHere ==
    /\ \/ tmain = "retry" /\ MutexLock("main") /\ tmain' = "retrying"
       \/ tmain = "retrying" /\ MutexUnlock /\ tmain' = "unlock"
    /\ UNCHANGED <<now, when, helper, towait>>

(* timeout_helper: nanosleep, then retry. *)
RetryLater ==
    /\ tmain # "exit"
    /\ \/ helper = "sleep" /\ helper' = "retry" /\ UNCHANGED mutex
       \/ helper = "retry" /\ MutexLock("helper") /\ helper' = "retrying"
       \/ helper = "retrying" /\ MutexUnlock /\ helper' = "done"
    /\ UNCHANGED <<now, when, tmain, towait>>

MainUnlocks ==
    /\ tmain = "unlock" /\ MutexUnlock /\ tmain' = "unlocked"
    /\ UNCHANGED <<now, when, helper, towait>>

(* exit takes the helper with it, whatever it was about to do. *)
MainExits ==
    /\ tmain = "unlocked" /\ tmain' = "exit"
    /\ UNCHANGED <<now, when, helper, towait, mutex>>

MainSteps == MainLocks \/ CallTimeout \/ RetryHere \/ MainUnlocks \/ MainExits
TimeNext  == MainSteps \/ RetryLater
TimeSpec  == TimeInit /\ [][TimeNext]_timevars /\ WF_timevars(MainSteps)

---------------------------------------------------------------------------

(* The helper waits for exactly the time that is left, in a timespec that            *)
(* nanosleep accepts, and retry never runs in the helper while main has the lock,      *)
(* while main may call it itself with the lock held.                                      *)
RetryInTime ==
    /\ helper # "none" =>
         /\ when > now /\ towait.sec * SECTONSEC + towait.nsec = when - now
         /\ towait.nsec \in 0 .. SECTONSEC - 1
    /\ helper = "retrying" => tmain \in {"start", "unlocked", "exit"}
    /\ mutex.by = "main" <=> tmain \in {"timeout", "retry", "retrying", "unlock"}
=============================================================================
