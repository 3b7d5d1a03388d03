------------------------------ MODULE SigThread ------------------------------
(* threadctl/suspend.c: a thread takes the signals with sigwait and tells main     *)
(* about SIGQUIT by a flag and a condition variable.                                  *)
EXTENDS Naturals

CONSTANTS MaxSignals    \* bound: signals the user sends

ASSUME SigThreadAssumption == MaxSignals \in Nat

VARIABLES
    smain,      \* main: where it is
    sthread,    \* the thread: where it is
    quitflag,
    pending,    \* signals of the process that no thread has taken
    blocked,    \* both signals are blocked in main
    sentsigs    \* how many the user has sent

sthvars == <<smain, sthread, quitflag, pending, blocked, sentsigs>>

StInit ==
    /\ smain = "start" /\ sthread = "none" /\ quitflag = 0
    /\ pending = {} /\ blocked = FALSE /\ sentsigs = 0

StRunning == smain \notin {"exit", "killed"}

(* A signal that no thread blocks or waits for ends the process: the two keep     *)
(* their default action.                                                              *)
StSignal ==
    /\ StRunning /\ sentsigs < MaxSignals
    /\ \E s \in {"INT", "QUIT"} : pending' = pending \cup {s}
    /\ sentsigs' = sentsigs + 1
    /\ UNCHANGED <<smain, sthread, quitflag, blocked>>

StKilled ==
    /\ StRunning /\ ~blocked /\ pending # {}
    /\ smain' = "killed" /\ pending' = {}
    /\ UNCHANGED <<sthread, quitflag, blocked, sentsigs>>

MainBlocks ==
    /\ smain = "start" /\ pending = {}
    /\ blocked' = TRUE /\ smain' = "create"
    /\ UNCHANGED <<sthread, quitflag, pending, sentsigs>>

MainCreates ==
    /\ smain = "create" /\ sthread' = "sigwait" /\ smain' = "lock"
    /\ UNCHANGED <<quitflag, pending, blocked, sentsigs>>

(* With the lock: the flag is looked at, also after each wait. *)
MainWaits ==
    /\ smain = "lock"
    /\ smain' = IF quitflag = 0 THEN "wait" ELSE "unlocked"
    /\ UNCHANGED <<sthread, quitflag, pending, blocked, sentsigs>>

MainWakes ==
    /\ smain = "wait" /\ smain' = "lock"
    /\ UNCHANGED <<sthread, quitflag, pending, blocked, sentsigs>>

MainResets ==
    /\ \/ smain = "unlocked" /\ smain' = "setmask" /\ quitflag' = 0 /\ UNCHANGED blocked
       \/ smain = "setmask" /\ smain' = "unblocked" /\ blocked' = FALSE /\ UNCHANGED quitflag
    /\ UNCHANGED <<sthread, pending, sentsigs>>

StExit ==
    /\ smain = "unblocked" /\ pending = {} /\ smain' = "exit"
    /\ UNCHANGED <<sthread, quitflag, pending, blocked, sentsigs>>

(* sigwait, and the switch on what it returned. *)
ThreadTakes ==
    /\ StRunning /\ sthread = "sigwait"
    /\ \E s \in pending :
         /\ pending' = pending \ {s}
         /\ sthread' = IF s = "QUIT" THEN "quit" ELSE "sigwait"
    /\ UNCHANGED <<smain, quitflag, blocked, sentsigs>>

(* The flag is set when somebody already waits, or nobody is told. *)
ThreadTellsNobody ==
    /\ StRunning
    /\ \/ sthread = "quit" /\ quitflag' = 1 /\ sthread' = "ended" /\ UNCHANGED smain
       \/ sthread = "signal" /\ sthread' = "ended" /\ UNCHANGED <<quitflag, smain>>
    /\ UNCHANGED <<pending, blocked, sentsigs>>

ThreadTells ==
    /\ StRunning
    /\ \/ sthread = "quit" /\ quitflag' = 1 /\ sthread' = "signal" /\ UNCHANGED smain
       \/ /\ sthread = "signal" /\ sthread' = "ended" /\ UNCHANGED quitflag
          /\ smain' = IF smain = "wait" THEN "lock" ELSE smain
    /\ UNCHANGED <<pending, blocked, sentsigs>>

StSteps == MainBlocks \/ MainCreates \/ MainWaits \/ MainResets \/ StExit
StNext  == StSteps \/ ThreadTakes \/ ThreadTells \/ MainWakes \/ StSignal \/ StKilled

StFairness == /\ WF_sthvars(StSteps \/ StKilled) /\ WF_sthvars(ThreadTells)
              /\ WF_sthvars(ThreadTakes)

StSpec == StInit /\ [][StNext]_sthvars /\ StFairness

---------------------------------------------------------------------------

(* A SIGQUIT that comes after both signals are blocked ends the program, by its own  *)
(* exit or, if another signal comes after the mask is reset, by that one: main is        *)
(* never left asleep with the flag set.                                                    *)
QuitEnds == (blocked /\ "QUIT" \in pending) ~> ~StRunning
=============================================================================
