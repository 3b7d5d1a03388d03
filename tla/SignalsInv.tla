----------------------------- MODULE SignalsInv -----------------------------
(* What the programs of Signals promise. *)
EXTENDS Signals

(* sleep1, read1 and child may miss the signal they wait for, as their comments   *)
(* say.  So may the two processes of devzero, which wait for each other more than     *)
(* once: the first wait unblocks SIGUSR1 and SIGUSR2 (lib/tellwait.c:78), and the next   *)
(* one may be told between its test of the flag and sigsuspend.                             *)
MayMiss == {"tsleep1", "read1", "child", "devzero"}

(* Something can still wake the sleeper: the flag that its handler sets is not     *)
(* set yet, its alarm is still to ring or to be taken.                                *)
WillWake(m) ==
    /\ Top(m).code \in {"waitfor", "suspend2"}
       => m.var["flag"] = "0"
    /\ Top(m).code \in {"sleep", "sleep1", "sleep2", "read1", "read2"}
       => m.alarm \/ "ALRM" \in Deliverable(m)

(* No process goes to sleep for a signal that it has taken already: between its     *)
(* test, or its alarm, and its sleep no handler runs that it would not notice          *)
(* (lib/sleep.c, sleep2.c, read2.c, suspend2.c, lib/tellwait.c).                          *)
NoVainSleep == prog \notin MayMiss => \A p \in Procs : proc[p].asleep => WillWake(proc[p])

(* A function that changes masks and actions gives its caller back what it had:     *)
(* sleep() the mask and SIGALRM, whatever woke it; system() the mask, SIGINT and        *)
(* SIGQUIT, and the status is that of the command even if a handler of the caller         *)
(* waits for every child; the siglongjmp of mask.c and the last sigprocmask of                *)
(* suspend1, suspend2 and the waits of tellwait leave no signal blocked.                         *)
CallsLeaveNoTrace ==
    LET m    == proc["P"]
        ends == m.run = "on" /\ Len(m.stack) = 1 /\ At(m, "exit")
    IN  /\ ends /\ prog \in {"critical", "suspend1", "suspend2", "mask"}
           => /\ m.mask = m.old["main"]
              /\ prog = "critical" => m.disp["ALRM"] = "DFL"
        /\ ends /\ prog \in {"systest2_signals", "reaping"}
           => /\ m.mask = {} /\ m.disp["INT"] = "noop" /\ m.disp["QUIT"] = "DFL"
              /\ m.var["status"] = proc["C"].how
        /\ ends /\ prog \in {"tellwait2", "deadlock", "devzero"} => m.mask = {}

(* The signals a process may die of where it stands: any that it has not yet had     *)
(* the time to catch or to block, SIGINT in critical, SIGQUIT there once it was           *)
(* caught, SIGQUIT outside of system(), both in the version without signal handling,         *)
(* SIGALRM when sleep() puts the old action back (see SleepHarmless), SIGABRT in abort.        *)
Setup == [critical |-> 1, tsleep2 |-> 1, suspend1 |-> 1, suspend2 |-> 2, mask |-> 1,
          sigtstp |-> 0, systest1 |-> 4, systest2 |-> 1, systest2_signals |-> 1,
          reaping |-> 1, reread |-> 2, reread2 |-> 2]

InSystem(m) == Len(m.stack) > 1 /\ m.stack[2].code = "system" /\ m.stack[2].pc \in 3..7

MayDie(p, s) ==
    LET m == proc[p] IN
    \/ p = "P" /\ prog \in DOMAIN Setup /\ m.stack[1].pc <= Setup[prog]
    \/ p = "C" /\ prog \in {"systest1", "systest2", "systest2_signals", "reaping"}
    \/ prog = "critical" /\ (s = "INT" \/ (s = "QUIT" /\ m.var["caught"] = "1"))
    \/ prog \in {"systest2", "systest2_signals", "reaping"} /\ s = "QUIT" /\ ~InSystem(m)
    \/ s = "ALRM" /\ Top(m).code = "sleep"
    \/ s = "ABRT" /\ prog = "aborts"

(* A program dies of a signal only where its text means it to; abort() always kills, *)
(* and by SIGABRT, whatever the caller did with that signal; a longjmp never goes         *)
(* back to where no setjmp was; a daemon that reads its configuration again is never        *)
(* killed by the SIGHUP that asks it to.                                                         *)
MeantDeaths ==
    [][\A p \in Procs :
         proc[p].run = "on" /\ proc'[p].run = "zombie" =>
            IF proc'[p].how \in Sigs THEN MayDie(p, proc'[p].how)
            ELSE prog # "aborts" /\ proc'[p].how # "crash"]_sigvars

(* The alarm of a sleep never kills the sleeper ("reset mask which unblocks              *)
(* SIGALRM", lib/sleep.c:38): another signal may wake it just before its alarm rings.      *)
SleepHarmless == \A p \in Procs : proc[p].how # "ALRM"

(* Two processes that tell and wait take their turns: the child's line comes first     *)
(* in tellwait2, no update of devzero finds the other's missing, the child of mandatory    *)
(* tests the lock only while its parent holds it, and of the two of deadlock the kernel      *)
(* refuses exactly one, and the other gets both locks.                                           *)
TurnsKept ==
    /\ world.out \in {<<>>, <<"C">>, <<"C", "P">>}
    /\ \A p \in Procs : proc[p].how # "unexpected" /\ proc[p].var["got"] # "1"
    /\ prog = "deadlock" /\ (\A p \in Procs : proc[p].how # "none")
       => {proc[p].how : p \in Procs} = {"EDEADLK", "exit"}

(* These programs end, whatever signals come in between: their alarms ring, their         *)
(* children are waited for, their messages are heard.                                         *)
Terminating == {"critical", "tsleep2", "read2", "aborts", "systest1", "systest2", "systest2_signals",
                "reaping",
                "tellwait2", "deadlock", "mandatory", "devzero_pipe"}
=============================================================================
