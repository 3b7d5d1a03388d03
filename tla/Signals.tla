------------------------------ MODULE Signals ------------------------------
(* Programs that live on signals: the functions of lib/ and signals/ that     *)
(* other programs call (sleep, sleep1, sleep2, abort, system, TELL_WAIT and     *)
(* the rest of lib/tellwait.c) and the programs that use them.  Each program     *)
(* is the sequence of its system calls and of its tests and assignments of       *)
(* flags; `prog' runs as process "P", and "C" is the child it may fork.  The      *)
(* actions are what the kernel does for one such call, and for one signal.        *)
EXTENDS Naturals, Sequences, FiniteSets

CONSTANTS
    Programs,   \* the programs to look at
    MaxSends,   \* bound: signals the user sends
    Rounds      \* bound: NLOOPS of devzero

ASSUME SigAssumption == MaxSends \in Nat /\ Rounds \in Nat

VARIABLES
    prog,    \* the program
    proc,    \* the two processes
    world    \* record locks, shared memory, signals the user has sent

sigvars == <<prog, proc, world>>

Sigs  == {"ALRM", "INT", "QUIT", "USR1", "USR2", "CHLD", "TSTP", "HUP", "TERM", "ABRT"}
Procs == {"P", "C"}
Other(p) == IF p = "P" THEN "C" ELSE "P"

---------------------------------------------------------------------------
(* Calls.  A mask is saved under a name, as the variable it is saved in.        *)
Catch(s, h)      == [op |-> "catch", sig |-> s, to |-> h]
Reset(s)         == [op |-> "reset", sig |-> s]
Block(S, name)   == [op |-> "mask", how |-> "block", set |-> S, name |-> name]
Unblock(S)       == [op |-> "mask", how |-> "unblock", set |-> S, name |-> "none"]
SetMask(name)    == [op |-> "mask", how |-> "old", set |-> {}, name |-> name]
MaskAllBut(S)    == [op |-> "mask", how |-> "set", set |-> Sigs \ S, name |-> "none"]
Suspend(S)       == [op |-> "suspend", name |-> "none", set |-> S]
SuspendOld(n, S) == [op |-> "suspend", name |-> n, set |-> S]
Pause            == [op |-> "pause"]
Read             == [op |-> "read"]
SigWait          == [op |-> "sigwait"]
Alarm(b)         == [op |-> "alarm", on |-> b]
Kill(who, s)     == [op |-> "kill", who |-> who, sig |-> s]
Assign(v, x)     == [op |-> "assign", var |-> v, val |-> x]
IfGoto(v, x, l)  == [op |-> "if", var |-> v, val |-> x, label |-> l]
Goto(l)          == [op |-> "if", var |-> "zero", val |-> "0", label |-> l]
IfDisp(s, h, l)  == [op |-> "ifdisp", sig |-> s, val |-> h, label |-> l]
IfOld(s, h, l)   == [op |-> "ifold", sig |-> s, val |-> h, label |-> l]
SetJmp           == [op |-> "setjmp"]
LongJmp(m)       == [op |-> "longjmp", masks |-> m]
Call(code)       == [op |-> "call", code |-> code]
Fork(code)       == [op |-> "fork", code |-> code]
WaitPid(v)       == [op |-> "wait", var |-> v]
Exec             == [op |-> "exec"]
Exit             == [op |-> "exit"]
Lock(b)          == [op |-> "lock", byte |-> b]
TryLock(b)       == [op |-> "trylock", byte |-> b]
Bump             == [op |-> "bump"]
PrintLine        == [op |-> "print"]
PipeTellParent   == [op |-> "tell", pipe |-> 2]
PipeTellChild    == [op |-> "tell", pipe |-> 1]
PipeWaitParent   == [op |-> "await", pipe |-> 1]
PipeWaitChild    == [op |-> "await", pipe |-> 2]

---------------------------------------------------------------------------
(* Handlers.  "noop" stands for each one that only returns or prints.           *)
SigUsr   == <<Assign("flag", "1")>>
SigQuit2 == <<Assign("flag", "1")>>
SigInt   == <<Assign("busy", "1"), Assign("busy", "0")>>
Jump     == <<LongJmp({"kept", "restored"})>>
SigQuit  == <<Assign("caught", "1"), Catch("QUIT", "DFL")>>
SigUsr1Always == <<Alarm(TRUE), Assign("canjump", "0"), LongJmp({"restored"})>>
SigUsr1  == <<IfGoto("canjump", "0", 5), Alarm(TRUE), Assign("canjump", "0"),
              LongJmp({"restored"})>>
SigTstp  == <<Unblock({"TSTP"}), Catch("TSTP", "DFL"), Kill("self", "TSTP"),
              Catch("TSTP", "sig_tstp")>>
SigCld   == <<Catch("CHLD", "sig_cld"), WaitPid("handler")>>
SigTerm  == <<Exit>>
SigHup   == <<Assign("busy", "1"), Assign("busy", "0")>>

(* The functions that programs call. *)
SleepOldMask == <<Catch("ALRM", "noop"), Block({"ALRM"}, "sleep"), Alarm(TRUE),
                  SuspendOld("sleep", {}), Alarm(FALSE), Reset("ALRM"), SetMask("sleep")>>
Sleep   == <<Catch("ALRM", "noop"), Block({"ALRM"}, "sleep"), Alarm(TRUE),
             SuspendOld("sleep", {"ALRM"}), Alarm(FALSE), Reset("ALRM"), SetMask("sleep")>>
Sleep1  == <<Catch("ALRM", "noop"), Alarm(TRUE), Pause, Alarm(FALSE)>>
Sleep2  == <<Catch("ALRM", "jump"), SetJmp, IfGoto("jumped", "1", 6), Alarm(TRUE),
             Pause, Alarm(FALSE)>>
Abort   == <<IfDisp("ABRT", "IGN", 3), Goto(4), Catch("ABRT", "DFL"),
             MaskAllBut({"ABRT"}), Kill("self", "ABRT"), Catch("ABRT", "DFL"),
             MaskAllBut({"ABRT"}), Kill("self", "ABRT"), Exit>>
SystemUnblocked == <<Catch("INT", "IGN"), Catch("QUIT", "IGN"), Block({}, "sys"),
                     Fork("command"), WaitPid("status"), Reset("INT"), Reset("QUIT"), SetMask("sys")>>
System  == <<Catch("INT", "IGN"), Catch("QUIT", "IGN"), Block({"CHLD"}, "sys"),
             Fork("command"), WaitPid("status"), Reset("INT"), Reset("QUIT"), SetMask("sys")>>
Command == <<Reset("INT"), Reset("QUIT"), SetMask("sys"), Exec, Exit>>
System0 == <<Fork("command0"), WaitPid("status")>>
Command0 == <<Exec, Exit>>

(* lib/tellwait.c: TELL_PARENT and TELL_CHILD are Tell, the two waits are one.    *)
TellWaitUnblocked == <<Catch("USR1", "sig_usr"), Catch("USR2", "sig_usr"), Block({}, "tw")>>
TellWait == <<Catch("USR1", "sig_usr"), Catch("USR2", "sig_usr"),
              Block({"USR1", "USR2"}, "tw")>>
TellParent(who) == Kill(who, "USR2")
TellChild       == Kill("C", "USR1")
WaitFor  == <<IfGoto("flag", "1", 4), Suspend({}), Goto(1), Assign("flag", "0"), SetMask("tw")>>

(* The programs, each with the code of the child it forks.                         *)
Critical  == <<Catch("QUIT", "sig_quit"), Block({"QUIT"}, "main"), Call("sleep"),
               SetMask("main"), Call("sleep"), Exit>>
Tsleep1   == <<Call("sleep1"), Exit>>
Tsleep2   == <<Catch("INT", "sig_int"), Call("sleep2"), Exit>>
Read1     == <<Catch("ALRM", "noop"), Alarm(TRUE), Read, Alarm(FALSE), Exit>>
Read2     == <<Catch("ALRM", "jump"), SetJmp, IfGoto("jumped", "1", 7), Alarm(TRUE),
               Read, Alarm(FALSE), Exit>>
Mask      == <<Catch("USR1", "sig_usr1"), Catch("ALRM", "noop"), SetJmp,
               IfGoto("jumped", "1", 8), Assign("canjump", "1"), Pause, Goto(6), Exit>>
Suspend1  == <<Catch("INT", "noop"), Block({"INT"}, "main"), Suspend({"USR1"}),
               SetMask("main"), Exit>>
Suspend2  == <<Catch("INT", "noop"), Catch("QUIT", "sig_quit2"), Block({"QUIT"}, "main"),
               IfGoto("flag", "1", 7), Suspend({}), Goto(4), Assign("flag", "0"),
               SetMask("main"), Exit>>
Sigtstp   == <<Catch("TSTP", "IGN"), IfOld("TSTP", "DFL", 4), Goto(5),
               Catch("TSTP", "sig_tstp"), Read, Goto(5)>>
Aborts    == <<Call("abort")>>
Systest1  == <<Call("system0"), Call("system0"), Call("system0"), Exit>>
Systest2(version) == <<Catch("INT", "noop"), Catch("CHLD", "noop"), Call(version), Exit>>
Child     == <<Catch("CHLD", "sig_cld"), Fork("childchild"), Pause, Exit>>
ChildChild == <<Call("sleep"), Exit>>
Tellwait2 == <<Call("tellwait"), Fork("tw2child"), Call("waitfor"), PrintLine, Exit>>
Tellwait2Child == <<PrintLine, TellParent("group"), Exit>>
Deadlock  == <<Call("tellwait"), Fork("dlchild"), Lock(1), TellChild,
               Call("waitfor"), Lock(0), Exit>>
DeadlockChild == <<Lock(0), TellParent("P"), Call("waitfor"), Lock(1), Exit>>
MandatoryTellsFirst == <<Call("tellwait"), Fork("mdchild"), TellChild, Lock(0),
                         WaitPid("status"), Exit>>
Mandatory == <<Call("tellwait"), Fork("mdchild"), Lock(0), TellChild, WaitPid("status"), Exit>>
MandatoryChild == <<Call("waitfor"), TryLock(0), Exit>>
Devzero   == <<Call("tellwait"), Fork("dzchild"), Bump, TellChild,
               Call("waitfor"), IfGoto("more", "1", 3), Exit>>
DevzeroChild == <<Call("waitfor"), Bump, TellParent("P"), IfGoto("more", "1", 1), Exit>>

(* The same program linked with ipc/tellwait.c, which speaks through two pipes.     *)
DevzeroPipe == <<Fork("dzpchild"), Bump, PipeTellChild, PipeWaitChild,
                 IfGoto("more", "1", 2), Exit>>
DevzeroPipeChild == <<PipeWaitParent, Bump, PipeTellParent, IfGoto("more", "1", 1), Exit>>

(* Two daemons: daemonize has set SIGHUP to be ignored, and what the source leaves  *)
(* out as the rest of the daemon is a wait.                                            *)
Reread  == <<Catch("HUP", "DFL"), MaskAllBut({}), SigWait, IfGoto("signo", "TERM", 6),
             Goto(3), Exit>>
Reread2 == <<Catch("TERM", "sigterm"), Catch("HUP", "sighup"), Pause, Goto(3)>>

(* Systest2 with the handler of Child, which waits for whatever child has ended:      *)
(* the kind of caller that system() blocks SIGCHLD for.                                  *)
Reaping == <<Catch("INT", "noop"), Catch("CHLD", "sig_cld"), Call("system"), Exit>>

Main ==
  [critical |-> Critical, tsleep1 |-> Tsleep1, tsleep2 |-> Tsleep2, read1 |-> Read1,
   read2 |-> Read2, mask |-> Mask, suspend1 |-> Suspend1, suspend2 |-> Suspend2,
   sigtstp |-> Sigtstp, aborts |-> Aborts, systest1 |-> Systest1,
   systest2 |-> Systest2("system0"), systest2_signals |-> Systest2("system"),
   reaping |-> Reaping, child |-> Child, tellwait2 |-> Tellwait2, deadlock |-> Deadlock,
   mandatory |-> Mandatory, devzero |-> Devzero, devzero_pipe |-> DevzeroPipe, reread |-> Reread, reread2 |-> Reread2]

Functions ==
  [noop |-> <<>>, sig_usr |-> SigUsr, sig_quit2 |-> SigQuit2, sig_int |-> SigInt,
   jump |-> Jump, sig_quit |-> SigQuit, sig_usr1 |-> SigUsr1, sig_tstp |-> SigTstp,
   sig_cld |-> SigCld, sigterm |-> SigTerm, sighup |-> SigHup, sleep |-> Sleep,
   sleep1 |-> Sleep1, sleep2 |-> Sleep2, abort |-> Abort, system |-> System,
   system0 |-> System0, tellwait |-> TellWait, waitfor |-> WaitFor, command |-> Command,
   command0 |-> Command0, childchild |-> ChildChild, tw2child |-> Tellwait2Child,
   dlchild |-> DeadlockChild, mdchild |-> MandatoryChild, dzchild |-> DevzeroChild,
   dzpchild |-> DevzeroPipeChild]

Body(f) == IF f.code \in DOMAIN Main THEN Main[f.code] ELSE Functions[f.code]

(* The mask a handler adds to that of its signal. *)
HandlerMask(h) == IF h = "sigterm" THEN {"HUP"} ELSE IF h = "sighup" THEN {"TERM"} ELSE {}

---------------------------------------------------------------------------

Frame(code) == [code |-> code, pc |-> 1, handler |-> FALSE, mask |-> {}]

Vars   == {"zero", "flag", "caught", "canjump", "busy", "jumped", "signo", "more", "got", "status", "handler"}
Saved  == {"none", "sleep", "sys", "tw", "main"}
NoJump == [depth |-> 0, pc |-> 0, mask |-> {}]

Fresh(disp, mask) ==
    [run |-> "on", how |-> "none", stack |-> <<Frame(prog)>>, asleep |-> FALSE,
     mask |-> mask, back |-> {}, pend |-> {}, disp |-> disp, oldh |-> [s \in Sigs |-> "DFL"],
     old |-> [n \in Saved |-> {}], var |-> [v \in Vars |-> "0"], i |-> 0,
     jmp |-> NoJump, alarm |-> FALSE]

(* What a program may inherit: SIGABRT or SIGTSTP ignored, SIGABRT caught or       *)
(* blocked, SIGALRM blocked.  A daemon ignores SIGHUP.                               *)
SigInit ==
    /\ prog \in Programs
    /\ \E tstp \in {"DFL", "IGN"}, abrt \in {"DFL", "IGN", "noop"}, mask \in SUBSET {"ABRT", "ALRM"} :
         /\ prog # "sigtstp" => tstp = "DFL"
         /\ prog # "aborts" => abrt = "DFL" /\ "ABRT" \notin mask
         /\ prog # "critical" => "ALRM" \notin mask
         /\ proc = [p \in Procs |->
              LET d == [s \in Sigs |-> CASE s = "TSTP" -> tstp [] s = "ABRT" -> abrt
                                         [] s = "HUP" /\ prog \in {"reread", "reread2"} -> "IGN"
                                         [] OTHER -> "DFL"]
              IN  IF p = "P" THEN Fresh(d, mask) ELSE [Fresh(d, mask) EXCEPT !.run = "none"]]
    /\ world = [locks |-> [b \in {0, 1} |-> "free"], ctr |-> 0, out |-> <<>>, pipes |-> [i \in {1, 2} |-> 0],
                 sent |-> 0]

Top(m)   == m.stack[Len(m.stack)]
AtEnd(m) == Top(m).pc > Len(Body(Top(m)))
Instr(m) == Body(Top(m))[Top(m).pc]
At(m, o) == ~AtEnd(m) /\ Instr(m).op = o

Jump1(m, l) == [m EXCEPT !.stack[Len(m.stack)].pc = l]
Step1(m)    == Jump1(m, Top(m).pc + 1)

Alive(p)       == proc[p].run \in {"on", "stopped"}
Deliverable(m) == m.pend \ m.mask
Ready(p)       == proc[p].run = "on" /\ Deliverable(proc[p]) = {} /\ ~proc[p].asleep

(* A process runs its next call of kind o when no signal has to be taken first. *)
Calls(p, o) == Ready(p) /\ At(proc[p], o)
Set(p, m)   == proc' = [proc EXCEPT ![p] = m] /\ UNCHANGED <<prog, world>>

Posted(pr, q, s) == IF pr[q].run \in {"on", "stopped"}
                    THEN [pr EXCEPT ![q].pend = @ \cup {s}] ELSE pr

(* The end of a process: its locks are free, and the parent is told. *)
Ends(p, how) ==
    /\ proc' = LET gone == [proc EXCEPT ![p].run = "zombie", ![p].how = how, ![p].asleep = FALSE,
                                        ![p].alarm = FALSE, ![p].pend = {}]
               IN  IF p = "C" THEN Posted(gone, "P", "CHLD") ELSE gone
    /\ world' = [world EXCEPT !.locks = [b \in {0, 1} |-> IF @[b] = p THEN "free" ELSE @[b]]]
    /\ UNCHANGED prog

DoCatch(p) ==
    /\ Calls(p, "catch")
    /\ LET m == proc[p] i == Instr(m) IN
       Set(p, Step1([m EXCEPT !.oldh[i.sig] = m.disp[i.sig], !.disp[i.sig] = i.to]))

DoReset(p) ==
    /\ Calls(p, "reset")
    /\ LET m == proc[p] i == Instr(m) IN
       Set(p, Step1([m EXCEPT !.disp[i.sig] = m.oldh[i.sig]]))

DoMask(p) ==
    /\ Calls(p, "mask")
    /\ LET m == proc[p] i == Instr(m)
           new == CASE i.how = "block" -> m.mask \cup i.set [] i.how = "unblock" -> m.mask \ i.set
                    [] i.how = "set" -> i.set [] OTHER -> m.old[i.name]
       IN  Set(p, Step1([m EXCEPT !.mask = new,
                                  !.old[i.name] = IF i.how = "block" THEN m.mask ELSE @]))

(* pause, read and sigsuspend; the last puts its mask in place for the wait. *)
DoSleep(p) ==
    /\ Ready(p) /\ \E o \in {"pause", "read", "suspend"} : At(proc[p], o)
    /\ LET m == proc[p] i == Instr(m) IN
       Set(p, [m EXCEPT !.asleep = TRUE, !.back = m.mask,
                        !.mask = IF i.op # "suspend" THEN @
                                 ELSE IF i.name = "none" THEN i.set ELSE m.old[i.name] \ i.set])

DoAlarm(p) ==
    /\ Calls(p, "alarm")
    /\ Set(p, Step1([proc[p] EXCEPT !.alarm = Instr(proc[p]).on]))

DoKill(p) ==
    /\ Calls(p, "kill")
    /\ LET i  == Instr(proc[p])
           pr == [proc EXCEPT ![p] = Step1(@)]
       IN  proc' = CASE i.who = "self" -> Posted(pr, p, i.sig)
                     [] i.who = "group" -> Posted(Posted(pr, "P", i.sig), "C", i.sig)
                     [] OTHER -> Posted(pr, i.who, i.sig)
    /\ UNCHANGED <<prog, world>>

DoLocal(p) ==
    /\ Ready(p) /\ ~AtEnd(proc[p])
    /\ LET m == proc[p] i == Instr(m) IN
       \/ i.op = "assign" /\ Set(p, Step1([m EXCEPT !.var[i.var] = i.val]))
       \/ i.op = "if" /\ Set(p, IF m.var[i.var] = i.val THEN Jump1(m, i.label) ELSE Step1(m))
       \/ i.op = "ifdisp" /\ Set(p, IF m.disp[i.sig] = i.val THEN Jump1(m, i.label) ELSE Step1(m))
       \/ i.op = "ifold" /\ Set(p, IF m.oldh[i.sig] = i.val THEN Jump1(m, i.label) ELSE Step1(m))
       \/ i.op = "call" /\ Set(p, [Step1(m) EXCEPT !.stack = Append(@, Frame(i.code))])
       \/ i.op = "setjmp" /\ Set(p, [Step1(m) EXCEPT
                 !.jmp = [depth |-> Len(m.stack), pc |-> Top(m).pc + 1, mask |-> m.mask]])

(* longjmp keeps the mask of the handler or restores it, siglongjmp restores it. *)
DoLongJmp(p) ==
    /\ Calls(p, "longjmp")
    /\ LET m == proc[p] IN
       IF m.jmp.depth = 0 \/ m.jmp.depth > Len(m.stack) THEN Ends(p, "crash")
       ELSE \E mask \in Instr(m).masks :
              Set(p, [m EXCEPT !.stack = [SubSeq(@, 1, m.jmp.depth) EXCEPT ![m.jmp.depth].pc = m.jmp.pc],
                               !.var["jumped"] = "1",
                               !.mask = IF mask = "restored" THEN m.jmp.mask ELSE @])

DoFork(p) ==
    /\ Calls(p, "fork")
    /\ proc' = [proc EXCEPT ![p] = Step1(@),
                  !["C"] = [proc[p] EXCEPT !.stack = <<Frame(Instr(proc[p]).code)>>,
                                           !.pend = {}, !.alarm = FALSE, !.i = 1]]
    /\ UNCHANGED <<prog, world>>

(* waitpid, called again when a handler interrupts it.  "lost" is -1: no child. *)
DoWait(p) ==
    /\ Calls(p, "wait")
    /\ \/ /\ proc["C"].run = "zombie"
          /\ proc' = [proc EXCEPT ![p] = Step1([@ EXCEPT !.var[Instr(@).var] = proc["C"].how]),
                                  !["C"].run = "reaped"]
       \/ /\ proc["C"].run \in {"none", "reaped"}
          /\ proc' = [proc EXCEPT ![p] = Step1([@ EXCEPT !.var[Instr(@).var] = "lost"])]
    /\ UNCHANGED <<prog, world>>

DoExec(p) ==
    /\ Calls(p, "exec")
    /\ Set(p, Step1([proc[p] EXCEPT !.disp = [s \in Sigs |-> IF @[s] = "IGN" THEN "IGN" ELSE "DFL"]]))

DoExit(p) == Calls(p, "exit") /\ Ends(p, "exit")

(* F_SETLKW: granted, refused to the one who would close a circle, or waits. *)
DoLock(p) ==
    /\ Calls(p, "lock")
    /\ LET b == Instr(proc[p]).byte
           o == Other(p)
       IN  \/ /\ world.locks[b] \in {"free", p}
              /\ proc' = [proc EXCEPT ![p] = Step1(@)]
              /\ world' = [world EXCEPT !.locks[b] = p]
              /\ UNCHANGED prog
           \/ /\ world.locks[b] = o /\ proc[o].run = "on" /\ At(proc[o], "lock")
              /\ world.locks[Instr(proc[o]).byte] = p
              /\ Ends(p, "EDEADLK")

DoTryLock(p) ==
    /\ Calls(p, "trylock")
    /\ Set(p, Step1([proc[p] EXCEPT !.var["got"] =
                       IF world.locks[Instr(proc[p]).byte] \in {"free", p} THEN "1" ELSE "2"]))

(* update of devzero, and the comparison after it. *)
DoBump(p) ==
    /\ Calls(p, "bump")
    /\ IF world.ctr # proc[p].i THEN Ends(p, "unexpected")
       ELSE LET next == proc[p].i + 2
                last == IF p = "P" THEN Rounds ELSE Rounds + 1
            IN  /\ proc' = [proc EXCEPT ![p] = Step1([@ EXCEPT !.i = next,
                                !.var["more"] = IF next < last THEN "1" ELSE "0"])]
                /\ world' = [world EXCEPT !.ctr = @ + 1]
                /\ UNCHANGED prog

DoPrint(p) ==
    /\ Calls(p, "print")
    /\ proc' = [proc EXCEPT ![p] = Step1(@)]
    /\ world' = [world EXCEPT !.out = Append(@, p)]
    /\ UNCHANGED prog

(* The tells of ipc/tellwait.c write one character, its waits read one. *)
DoTell(p) ==
    /\ Calls(p, "tell")
    /\ proc' = [proc EXCEPT ![p] = Step1(@)]
    /\ world' = [world EXCEPT !.pipes[Instr(proc[p]).pipe] = @ + 1]
    /\ UNCHANGED prog

DoAwait(p) ==
    /\ Calls(p, "await")
    /\ world.pipes[Instr(proc[p]).pipe] > 0
    /\ proc' = [proc EXCEPT ![p] = Step1(@)]
    /\ world' = [world EXCEPT !.pipes[Instr(proc[p]).pipe] = @ - 1]
    /\ UNCHANGED prog

DoSigWait(p) ==
    /\ proc[p].run = "on" /\ At(proc[p], "sigwait")
    /\ \E s \in proc[p].pend :
         Set(p, Step1([proc[p] EXCEPT !.pend = @ \ {s}, !.var["signo"] = s]))

(* The end of a function, or of a handler, which puts the mask back. *)
DoReturn(p) ==
    /\ Ready(p) /\ AtEnd(proc[p])
    /\ LET m == proc[p]
           f == Top(m)
       IN  Set(p, [m EXCEPT !.stack = SubSeq(@, 1, Len(@) - 1),
                            !.mask = IF f.handler THEN f.mask ELSE @])

---------------------------------------------------------------------------
(* Signals. *)

(* signal() of lib/signal.c: every call but the ones SIGALRM interrupts restarts. *)
Interrupts(m, s) == ~At(m, "read") \/ s = "ALRM"

Deliver(p) ==
    /\ proc[p].run = "on"
    /\ \E s \in Deliverable(proc[p]) :
       LET m   == [proc[p] EXCEPT !.pend = @ \ {s}]
           h   == m.disp[s]
           was == IF m.asleep THEN m.back ELSE m.mask
           at  == IF m.asleep /\ Interrupts(m, s) THEN Step1(m) ELSE m
       IN  CASE (h = "IGN") \/ (h = "DFL" /\ s = "CHLD") -> Set(p, m)
             [] h = "DFL" /\ s = "TSTP" -> Set(p, [m EXCEPT !.run = "stopped"])
             [] h = "DFL" /\ s \notin {"CHLD", "TSTP"} -> Ends(p, s)
             [] OTHER -> Set(p, [at EXCEPT
                  !.stack = Append(@, [Frame(h) EXCEPT !.handler = TRUE, !.mask = was]),
                  !.mask = was \cup {s} \cup HandlerMask(h), !.asleep = FALSE])

AlarmRings(p) ==
    /\ proc[p].alarm /\ Alive(p)
    /\ Set(p, [proc[p] EXCEPT !.alarm = FALSE, !.pend = @ \cup {"ALRM"}])

(* What the user may send, to the process or from the terminal to the group. *)
UserSignals ==
    CASE prog \in {"critical", "systest1", "systest2", "systest2_signals", "reaping"}
           -> {"QUIT", "INT"}
      [] prog = "suspend2" -> {"QUIT", "INT"}
      [] prog \in {"tsleep2", "suspend1"} -> {"INT"}
      [] prog = "mask" -> {"USR1"}
      [] prog = "sigtstp" -> {"TSTP"}
      [] prog \in {"reread", "reread2"} -> {"HUP", "TERM"}
      [] OTHER -> {}

UserSends ==
    /\ world.sent < MaxSends
    /\ \E s \in UserSignals :
         /\ proc' = Posted(Posted(proc, "P", s), "C", s)
         /\ world' = [world EXCEPT !.sent = @ + 1]
    /\ UNCHANGED prog

(* Input arrives; the shell continues what is stopped. *)
Input(p) ==
    /\ proc[p].run = "on" /\ proc[p].asleep /\ At(proc[p], "read")
    /\ Set(p, [Step1(proc[p]) EXCEPT !.asleep = FALSE])

Continue(p) ==
    /\ proc[p].run = "stopped"
    /\ Set(p, [proc[p] EXCEPT !.run = "on"])

Runs(p) ==
    \/ DoCatch(p) \/ DoReset(p) \/ DoMask(p) \/ DoSleep(p) \/ DoAlarm(p) \/ DoKill(p)
    \/ DoLocal(p) \/ DoLongJmp(p) \/ DoFork(p) \/ DoWait(p) \/ DoExec(p) \/ DoExit(p)
    \/ DoLock(p) \/ DoTryLock(p) \/ DoBump(p) \/ DoPrint(p) \/ DoSigWait(p)
    \/ DoTell(p) \/ DoAwait(p) \/ DoReturn(p) \/ Deliver(p) \/ AlarmRings(p)

SigNext ==
    \/ UserSends
    \/ \E p \in Procs : Runs(p) \/ Input(p) \/ Continue(p)

SigSpec     == SigInit /\ [][SigNext]_sigvars
SigFairSpec == SigSpec /\ \A p \in Procs : WF_sigvars(Runs(p))
=============================================================================
