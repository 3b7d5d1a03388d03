--------------------------- MODULE SmallPrograms ---------------------------
(* One of the small programs runs: one that lives on signals, one of the three   *)
(* objects with a count, the job queue, the work queue, the timeout, the thread    *)
(* that takes the signals, processes that open a database, a daemon that is started  *)
(* several times, commands behind pipes, the loop of pty.  They have nothing in common *)
(* but the library.                                                                       *)
EXTENDS SignalsInv, Objects, JobQueue, WorkQueue, Timeout, SigThread, DbOpen, DaemonLock,
        Popen, PtyLoop

VARIABLE which

Kinds == {"signals", "objects", "jobs", "work", "timeout", "sigthread",
          "dbopen", "daemon", "popen", "pty"}

allvars == <<which, sigvars, objvars, jobvars, workvars, timevars, sthvars,
             openvars, daemonvars, popenvars, ptyvars>>

SmallInit ==
    /\ which \in Kinds
    /\ SigInit /\ (which = "signals" \/ prog = "child")
    /\ ObjInit /\ (which = "objects" \/ variant = "mutex1")
    /\ TimeInit /\ (which = "timeout" \/ (now = 0 /\ when = 0))
    /\ JobInit /\ WorkInit /\ StInit /\ DaemonInit /\ PopenInit
    /\ PtyInit /\ (which = "pty" \/ ptyflags.ignoreeof)
    /\ DbOpenInit
    /\ which = "dbopen" \/ (idxfile = "header" /\ \A o \in Openers : opener[o].mode = "attach")

Rest(k) ==
    /\ UNCHANGED which
    /\ k # "signals"   => UNCHANGED sigvars
    /\ k # "objects"   => UNCHANGED objvars
    /\ k # "jobs"      => UNCHANGED jobvars
    /\ k # "work"      => UNCHANGED workvars
    /\ k # "timeout"   => UNCHANGED timevars
    /\ k # "sigthread" => UNCHANGED sthvars
    /\ k # "dbopen"    => UNCHANGED openvars
    /\ k # "daemon"    => UNCHANGED daemonvars
    /\ k # "popen"     => UNCHANGED popenvars
    /\ k # "pty"       => UNCHANGED ptyvars

SmallNext ==
    \/ which = "signals"   /\ SigNext  /\ Rest("signals")
    \/ which = "objects"   /\ ObjNext  /\ Rest("objects")
    \/ which = "jobs"      /\ JobNext  /\ Rest("jobs")
    \/ which = "work"      /\ WorkNext /\ Rest("work")
    \/ which = "timeout"   /\ TimeNext /\ Rest("timeout")
    \/ which = "sigthread" /\ StNext   /\ Rest("sigthread")
    \/ which = "dbopen"    /\ DbOpenNext /\ Rest("dbopen")
    \/ which = "daemon"    /\ DaemonNext /\ Rest("daemon")
    \/ which = "popen"     /\ PopenNext  /\ Rest("popen")
    \/ which = "pty"       /\ PtyNext    /\ Rest("pty")

(* The fairness of the program that runs. *)
SmallFairness ==
    /\ \A p \in Procs : WF_allvars(which = "signals" /\ Runs(p) /\ Rest("signals"))
    /\ \A w \in Workers :
         WF_allvars(which = "work" /\ (TakeMsg(w) \/ ProcessMsg(w)) /\ Rest("work"))
    /\ \A m \in Msgs : WF_allvars(which = "work" /\ SignalReady(m) /\ Rest("work"))
    /\ WF_allvars(which = "timeout" /\ MainSteps /\ Rest("timeout"))
    /\ WF_allvars(which = "sigthread" /\ (StSteps \/ StKilled) /\ Rest("sigthread"))
    /\ WF_allvars(which = "sigthread" /\ ThreadTakes /\ Rest("sigthread"))
    /\ WF_allvars(which = "sigthread" /\ ThreadTells /\ Rest("sigthread"))
    /\ WF_allvars(which = "popen" /\ Waited /\ Rest("popen"))
    /\ \A c \in Commands : WF_allvars(which = "popen" /\ (Shell(c) \/ PipeIsClosed(c)) /\ Rest("popen"))
    /\ WF_allvars(which = "pty" /\ PtyParent /\ Rest("pty"))
    /\ WF_allvars(which = "pty" /\ PtyChild /\ Rest("pty"))

SmallSpec == SmallInit /\ [][SmallNext]_allvars /\ SmallFairness

---------------------------------------------------------------------------

(* What threads hand to each other through memory: no message of condvar.c is lost  *)
(* or taken twice, and timeout.c retries in time, alone, and with its own lock.         *)
HandedOver == WorkNotLost /\ RetryInTime

(* Every program of Terminating ends, whatever signals come in between (lib/sleep.c,   *)
(* lib/tellwait.c, signals/system.c and the others), pclose does not wait for ever, and     *)
(* neither of the two of pty (lib/popen.c:77, pty/loop.c:73).                                  *)
ProgramsTerminate ==
    /\ which = "signals" /\ prog \in Terminating ~> proc["P"].run = "zombie"
    /\ PcloseReturns
    /\ PtyLoopEnds

(* Every message is processed, the program with the timeout gets to its end, and the one  *)
(* that sleeps until SIGQUIT ends when it comes.                                              *)
ThreadsEnd ==
    /\ MsgsProcessed
    /\ which = "timeout" /\ tmain = "start" ~> tmain = "exit"
    /\ QuitEnds
=============================================================================
