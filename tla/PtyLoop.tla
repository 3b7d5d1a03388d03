------------------------------ MODULE PtyLoop ------------------------------
(* loop of pty/loop.c: the parent copies what the program on the pty writes to     *)
(* standard output, the child copies standard input to the pty, and each ends the     *)
(* other.                                                                                *)
EXTENDS Naturals

CONSTANTS MaxTyped, MaxShown    \* bounds: buffers that are typed, and written

VARIABLES
    ploop, cloop,   \* the parent and the child: where they are
    ptyflags,       \* ignoreeof; sigcaught; a SIGTERM pending for the parent, the child
    typed, shown,   \* buffers still to come on standard input, from the program
    onpty,          \* output of the program that the parent has not read
    ptyprog         \* "runs" or "ended"

ptyvars == <<ploop, cloop, ptyflags, typed, shown, onpty, ptyprog>>

PtyInit ==
    /\ ploop = "fork" /\ cloop = "none"
    /\ ptyflags \in [ignoreeof : BOOLEAN, sigcaught : {FALSE}, toparent : {FALSE}, tochild : {FALSE}]
    /\ typed = MaxTyped /\ shown = MaxShown /\ onpty = 0 /\ ptyprog = "runs"

ParentGone == ploop \in {"exit", "killed", "failed"}

(* The program on the pty. *)
ProgWrites ==
    /\ ptyprog = "runs" /\ shown > 0
    /\ shown' = shown - 1 /\ onpty' = onpty + 1
    /\ UNCHANGED <<ploop, cloop, ptyflags, typed, ptyprog>>

ProgEnds ==
    /\ ptyprog = "runs" /\ ptyprog' = "ended"
    /\ UNCHANGED <<ploop, cloop, ptyflags, typed, shown, onpty>>

PtyFork ==
    /\ ploop = "fork"
    /\ \/ ploop' = "handler" /\ cloop' = "read"
       \/ ploop' = "exit" /\ UNCHANGED cloop
    /\ UNCHANGED <<ptyflags, typed, shown, onpty, ptyprog>>

(* The child.  A write to a pty whose program has ended may fail: err_sys. *)
ChildReads ==
    /\ cloop = "read" /\ ~ptyflags.tochild /\ typed > 0
    /\ typed' = typed - 1 /\ cloop' = "write"
    /\ UNCHANGED <<ploop, ptyflags, shown, onpty, ptyprog>>

ChildWrites ==
    /\ cloop = "write" /\ ~ptyflags.tochild
    /\ cloop' \in (IF ptyprog = "ended" THEN {"read", "exit"} ELSE {"read"})
    /\ UNCHANGED <<ploop, ptyflags, typed, shown, onpty, ptyprog>>

(* An error of read is no end of file: nobody is told. *)
ChildFails ==
    /\ cloop = "read" /\ ~ptyflags.tochild /\ cloop' = "exit"
    /\ UNCHANGED <<ploop, ptyflags, typed, shown, onpty, ptyprog>>

(* The end of standard input; it may come or not. *)
ChildNotifies ==
    /\ cloop = "read" /\ ~ptyflags.tochild /\ typed = 0
    /\ cloop' = "exit"
    /\ ptyflags' = [ptyflags EXCEPT !.toparent = @ \/ (~ptyflags.ignoreeof /\ ~ParentGone)]
    /\ UNCHANGED <<ploop, typed, shown, onpty, ptyprog>>

ChildTerminated ==
    /\ ptyflags.tochild /\ cloop \in {"read", "write"}
    /\ cloop' = "killed"
    /\ ptyflags' = [ptyflags EXCEPT !.tochild = FALSE]
    /\ UNCHANGED <<ploop, typed, shown, onpty, ptyprog>>

(* The parent. *)
SignalIntr ==
    /\ ploop = "handler" /\ ~ptyflags.toparent /\ ploop' = "read"
    /\ UNCHANGED <<cloop, ptyflags, typed, shown, onpty, ptyprog>>

(* sig_term: the default action until the handler is there; then a read is         *)
(* interrupted when it waits, a write is (err_sys) or is not, and before the read       *)
(* nothing is.                                                                             *)
SigTermComes ==
    /\ ptyflags.toparent /\ ~ParentGone
    /\ \/ ploop = "handler" /\ ploop' = "killed"
       \/ ploop = "read" /\ ploop' \in {"read", "decide"}
       \/ ploop = "write" /\ ploop' \in {"write", "exit"}
       \/ ploop = "decide" /\ UNCHANGED ploop
    /\ ptyflags' = [ptyflags EXCEPT !.toparent = FALSE, !.sigcaught = ploop # "handler"]
    /\ UNCHANGED <<cloop, typed, shown, onpty, ptyprog>>

ParentReads ==
    /\ ploop = "read" /\ ~ptyflags.toparent
    /\ \/ onpty > 0 /\ onpty' = onpty - 1 /\ ploop' = "write"
       \/ onpty = 0 /\ ptyprog = "ended" /\ ploop' = "decide" /\ UNCHANGED onpty
    /\ UNCHANGED <<cloop, ptyflags, typed, shown, ptyprog>>

(* When standard output takes no more, err_sys or SIGPIPE ends the parent, and the   *)
(* child is not told.                                                                  *)
ParentWrites ==
    /\ ploop = "write" /\ ~ptyflags.toparent /\ ploop' \in {"read", "failed"}
    /\ UNCHANGED <<cloop, ptyflags, typed, shown, onpty, ptyprog>>

ParentLeaves ==
    /\ ploop = "decide" /\ ~ptyflags.toparent /\ ploop' = "exit"
    /\ UNCHANGED <<cloop, ptyflags, typed, shown, onpty, ptyprog>>

(* "tell child if it didn't send us the signal" *)
ParentTells ==
    /\ ploop = "decide" /\ ~ptyflags.toparent /\ ploop' = "exit"
    /\ ptyflags' = [ptyflags EXCEPT !.tochild = ~ptyflags.sigcaught /\ cloop # "exit"]
    /\ UNCHANGED <<cloop, typed, shown, onpty, ptyprog>>

PtyParent == PtyFork \/ SignalIntr \/ SigTermComes \/ ParentReads \/ ParentWrites \/ ParentTells
PtyChild  == ChildWrites \/ ChildTerminated

PtyNext == PtyParent \/ PtyChild \/ ChildReads \/ ChildFails \/ ChildNotifies \/ ProgWrites \/ ProgEnds

---------------------------------------------------------------------------

PtyEnded == ParentGone /\ cloop \in {"none", "exit", "killed"}

(* When the program on the pty ends, both processes do, and what it wrote is copied   *)
(* unless standard input ended too: neither waits for input that need not come            *)
(* (loop.c:73, "There are three ways to get here").  A parent whose output has failed       *)
(* never gets there, and its child may wait for input for ever.                                *)
PtyLoopEnds ==
    /\ ptyprog = "ended" ~> PtyEnded \/ ploop = "failed"
    /\ [](PtyEnded /\ cloop = "killed" => onpty = 0)
=============================================================================
