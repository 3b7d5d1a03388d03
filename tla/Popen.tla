-------------------------------- MODULE Popen --------------------------------
(* lib/popen.c: a process that has several commands at the other end of pipes,   *)
(* and closes them in any order.  A pipe is named by its command; what matters is   *)
(* who still has the parent's end of it open.                                          *)
EXTENDS Naturals, FiniteSets

CONSTANTS
    Commands,   \* the commands that are run
    PipeFds,    \* descriptors the parent may get for its ends
    NoCommand

VARIABLES
    childpid,   \* descriptor -> the command that is at the other end
    command,    \* command -> its kind, where it is, the childpid it was forked with
    holders,    \* command -> who has the parent's end of its pipe open
    pclosing    \* the command pclose waits for

popenvars == <<childpid, command, holders, pclosing>>

Parent == "parent"

PopenInit ==
    /\ childpid = [f \in PipeFds |-> NoCommand]
    /\ command = [c \in Commands |-> [type |-> "r", at |-> "none", forgets |-> {}]]
    /\ holders = [c \in Commands |-> {}]
    /\ pclosing = NoCommand

Remembered == {childpid[f] : f \in PipeFds} \ {NoCommand}
Without(h, p) == [d \in Commands |-> h[d] \ {p}]

(* pipe, fork, and the parent's entry.  The child has a copy of the table as it  *)
(* was before, and closes the parent's end of its own pipe.                          *)
Popen(c) ==
    /\ pclosing = NoCommand /\ command[c].at = "none"
    /\ \E f \in PipeFds, type \in {"r", "w"} :
         /\ childpid[f] = NoCommand
         /\ childpid' = [childpid EXCEPT ![f] = c]
         /\ command' = [command EXCEPT ![c] = [type |-> type, at |-> "forked", forgets |-> Remembered]]
    /\ holders' = [d \in Commands |-> IF d = c THEN {Parent}
                                     ELSE IF Parent \in holders[d] THEN holders[d] \cup {c}
                                     ELSE holders[d]]
    /\ UNCHANGED pclosing

ShellKeepsAll(c) ==
    /\ command[c].at = "forked"
    /\ command' = [command EXCEPT ![c].at = "runs"]
    /\ UNCHANGED <<childpid, holders, pclosing>>

(* "close all descriptors in childpid[]", and execl. *)
Shell(c) ==
    /\ command[c].at = "forked"
    /\ command' = [command EXCEPT ![c].at = "runs"]
    /\ holders' = [d \in Commands |-> IF d \in command[c].forgets THEN holders[d] \ {c}
                                     ELSE holders[d]]
    /\ UNCHANGED <<childpid, pclosing>>

CommandEnds(c) ==
    /\ command' = [command EXCEPT ![c].at = "zombie"]
    /\ holders' = Without(holders, c)
    /\ UNCHANGED <<childpid, pclosing>>

(* A command ends at the end of its input, or when nobody reads what it writes:  *)
(* when the parent's end of its pipe is closed everywhere.  It may end before.       *)
PipeIsClosed(c) == command[c].at = "runs" /\ holders[c] = {} /\ CommandEnds(c)
EndsByItself(c) == command[c].at = "runs" /\ holders[c] # {} /\ CommandEnds(c)

(* pclose forgets the command, closes, and waits; it returns -1 at once when the   *)
(* last buffer cannot be written because the command is gone.                          *)
Pclose(f) ==
    /\ pclosing = NoCommand /\ childpid[f] # NoCommand
    /\ LET c == childpid[f] IN
         /\ holders' = [holders EXCEPT ![c] = @ \ {Parent}]
         /\ \/ pclosing' = c
            \/ command[c].type = "w" /\ command[c].at = "zombie" /\ UNCHANGED pclosing
    /\ childpid' = [childpid EXCEPT ![f] = NoCommand]
    /\ UNCHANGED command

Waited ==
    /\ pclosing # NoCommand /\ command[pclosing].at = "zombie"
    /\ command' = [command EXCEPT ![pclosing].at = "reaped"]
    /\ pclosing' = NoCommand
    /\ UNCHANGED <<childpid, holders>>

PopenSteps == Waited \/ \E c \in Commands : Shell(c) \/ PipeIsClosed(c)

PopenNext ==
    \/ PopenSteps
    \/ \E c \in Commands : Popen(c) \/ EndsByItself(c)
    \/ \E f \in PipeFds : Pclose(f)

---------------------------------------------------------------------------

(* pclose returns, whatever other commands still run that were started after this   *)
(* one and so had the end of its pipe: none of them keeps it (lib/popen.c:77).            *)
PcloseReturns == \A c \in Commands : pclosing = c ~> pclosing # c
=============================================================================
