------------------------------- MODULE Printd -------------------------------
(***************************************************************************)
(* The print spooling daemon of ipp/printd.c: a main thread that accepts   *)
(* connections, one client thread per connection that spools the file, and *)
(* one printer thread that sends the spooled jobs to the printer.  A job   *)
(* is a data file and a control file under one number; the number that     *)
(* follows is kept in the job file.  These files survive a restart, the    *)
(* queue of jobs does not.                                                 *)
(*                                                                         *)
(* A client of the model is one run of the print command (ipp/print.c),    *)
(* with a file of Chunks buffers; a control file is named by the client    *)
(* whose request it holds.  Every critical section under joblock or        *)
(* workerlock is one step; so is every file or socket call.                *)
(***************************************************************************)
EXTENDS Integers, Sequences, FiniteSets

CONSTANTS
  Clients,   \* runs of the print command
  Chunks,    \* buffers in the file each of them prints
  MaxId,     \* bound on the job numbers
  Faults,    \* what may go wrong: a subset of AllFaults
  None

AllFaults == {"crash",     \* the daemon is killed, or gets SIGTERM
              "hup",       \* SIGHUP: read the configuration file again
              "noprinter", \* ... and no printer is registered any more
              "disk",      \* a call on a spool file fails
              "printer",   \* the printer cannot be reached, or refuses, or
                           \* its answer is lost or not understood
              "stall",     \* nothing comes from a client for 10 s or 20 s
              "quit"}      \* a client dies

Ids  == 1 .. MaxId
Jobs == [id : Ids, of : Clients]
Docs == [of : Clients, len : 0 .. Chunks]

ASSUME PrintdAssumption ==
  /\ Chunks \in Nat /\ MaxId \in Nat
  /\ Faults \subseteq AllFaults
  /\ None \notin Docs \cup Jobs \cup Clients
  /\ "torn" \notin Clients

VARIABLES
  jobno,   \* the job file: the next job number; 0 when the file is empty
  data,    \* number -> the data file of that job, or None
  reqs,    \* number -> the client whose request the control file holds,
           \*           "torn" when it is incomplete, or None
  main,    \* the main thread
  todo,    \* directory entries build_qonstart has not come to
  nextjob, \* the next job number
  queue,   \* jobhead .. jobtail
  reread,
  ppc, jp, \* the printer thread: its step, its job,
  doc,     \*   the document it has opened,
  status,  \*   and what the printer said of it
  wpc,     \* client -> the step of its thread
  wid,     \* client -> the job number it was given, 0 before
  net,     \* client -> writes in the socket (the header, then the buffers of
           \*           the file) that its thread has not read yet
  left,    \* client -> buffers the print command has not written yet
  cl,      \* client -> state of the print command
  printed  \* the documents that the printer has accepted

disk    == <<jobno, data, reqs>>
printer == <<ppc, jp, doc, status>>
workers == <<wpc, wid>>
clients == <<net, left, cl>>
daemon  == <<main, todo, nextjob, queue, reread>>
vars    == <<disk, daemon, printer, workers, clients, printed>>

May(f) == f \in Faults

(* unlink of spool file i, data or control.  Nobody looks at the result: a *)
(* file that cannot be removed stays.                                      *)
Unlinked(file, i) ==
  \/ file' = [file EXCEPT ![i] = None]
  \/ May("disk") /\ file' = file

ClientStates == {"new", "header", "body", "wait", "acked", "rejected", "failed"}
WorkerSteps  == {"none", "header", "creat", "data", "ctl", "ctlwrite", "respond",
                 "add", "signal", "undo.ctl", "undo.data", "done"}
PrinterSteps == {"off", "check", "waiting", "jobno", "config", "open", "connect",
                 "send", "status", "unlink.data", "unlink.req", "sleep"}

Connected(c) == cl[c] \in {"header", "body", "wait"}

-----------------------------------------------------------------------------
(* The process ends: threads, queue and connections are gone, and every    *)
(* print command that still waits for its answer fails.                    *)
Die ==
  /\ main' = "down" /\ ppc' = "off"
  /\ todo' = {} /\ queue' = <<>> /\ nextjob' = 0 /\ reread' = FALSE
  /\ jp' = None /\ doc' = None /\ status' = None
  /\ wpc' = [c \in Clients |-> IF wpc[c] = "none" THEN "none" ELSE "done"]
  /\ cl' = [c \in Clients |-> IF Connected(c) THEN "failed" ELSE cl[c]]
  /\ net' = [c \in Clients |-> 0]
  /\ UNCHANGED <<disk, wid, left, printed>>

(* signal_thread: SIGTERM cancels the client threads wherever they are and *)
(* exits without waiting for them, so it leaves what a crash leaves.       *)
Crash == May("crash") /\ main # "down" /\ Die

Hangup ==
  /\ May("hup") /\ main # "down"
  /\ reread' = TRUE
  /\ UNCHANGED <<disk, main, todo, nextjob, queue, printer, workers, clients,
                 printed>>

-----------------------------------------------------------------------------
(* The queue.  add_job signals jobwait after it has released joblock.      *)

Enqueue(j) == queue' = Append(queue, j)    \* add_job
Dequeue    == queue' = Tail(queue)         \* remove_job, of the first job
Requeue(j) == queue' = <<j>> \o queue      \* replace_job
Signal     == ppc' = IF ppc = "waiting" THEN "check" ELSE ppc

(* Mutant: the spool directory is searched only if the job file is new. *)
InitRequestNoScan ==
  /\ main = "down"
  /\ nextjob' = IF jobno = 0 THEN 1 ELSE jobno
  /\ main' = "scan" /\ ppc' = "check"
  /\ todo' = {i \in Ids : reqs[i] # None /\ jobno = 0}
  /\ UNCHANGED <<disk, queue, reread, jp, doc, status, workers, clients, printed>>

(* Main thread: init_request, then build_qonstart beside the printer thread.*)
InitRequest ==
  /\ main = "down"
  /\ nextjob' = IF jobno = 0 THEN 1 ELSE jobno
  /\ main' = "scan" /\ ppc' = "check"
  /\ todo' = {i \in Ids : reqs[i] # None}
  /\ UNCHANGED <<disk, queue, reread, jp, doc, status, workers, clients, printed>>

ScanAdd(i) ==
  /\ main = "scan" /\ i \in todo
  /\ reqs[i] \in Clients
  /\ Enqueue([id |-> i, of |-> reqs[i]])
  /\ todo' = todo \ {i}
  /\ main' = "scan.signal"
  /\ UNCHANGED <<disk, nextjob, reread, printer, workers, clients, printed>>

ScanSignal ==
  /\ main = "scan.signal"
  /\ main' = "scan" /\ Signal
  /\ UNCHANGED <<disk, todo, nextjob, queue, reread, jp, doc, status, workers,
                 clients, printed>>

(* A control file that cannot be read in full is removed, and then its     *)
(* data file; one that stays makes no step of its own.                     *)
ScanTorn(i) ==
  /\ main = "scan" /\ i \in todo
  /\ reqs[i] = "torn" \/ (reqs[i] # None /\ May("disk"))
  /\ \/ /\ reqs' = [reqs EXCEPT ![i] = None] /\ main' = "scan.unlink"
        /\ UNCHANGED <<data, todo>>
     \/ /\ May("disk") /\ Unlinked(data, i) /\ todo' = todo \ {i}
        /\ UNCHANGED <<reqs, main>>
  /\ UNCHANGED <<jobno, nextjob, queue, reread, printer, workers, clients, printed>>

ScanUnlink(i) ==
  /\ main = "scan.unlink" /\ i \in todo /\ reqs[i] = None
  /\ Unlinked(data, i)
  /\ todo' = todo \ {i}
  /\ main' = "scan"
  /\ UNCHANGED <<jobno, reqs, nextjob, queue, reread, printer, workers, clients,
                 printed>>

(* A control file that cannot be opened is passed over. *)
ScanSkip(i) ==
  /\ main = "scan" /\ i \in todo /\ May("disk")
  /\ todo' = todo \ {i}
  /\ UNCHANGED <<disk, main, nextjob, queue, reread, printer, workers, clients,
                 printed>>

ScanDone ==
  /\ main = "scan" /\ todo = {}
  /\ main' = "run"
  /\ UNCHANGED <<disk, todo, nextjob, queue, reread, printer, workers, clients,
                 printed>>

Accept(c) ==
  /\ main = "run" /\ cl[c] = "new"
  /\ cl' = [cl EXCEPT ![c] = "header"]
  /\ wpc' = [wpc EXCEPT ![c] = "header"]
  /\ UNCHANGED <<disk, daemon, printer, wid, net, left, printed>>

-----------------------------------------------------------------------------
(* The print command: header, file, then wait for the answer.  It never    *)
(* closes its side of the connection before the answer has come.           *)

SendHeader(c) ==
  /\ cl[c] = "header" /\ wpc[c] # "done"
  /\ cl' = [cl EXCEPT ![c] = IF Chunks = 0 THEN "wait" ELSE "body"]
  /\ net' = [net EXCEPT ![c] = @ + 1]
  /\ UNCHANGED <<disk, daemon, printer, workers, left, printed>>

SendChunk(c) ==
  /\ cl[c] = "body" /\ wpc[c] # "done"
  /\ net' = [net EXCEPT ![c] = @ + 1]
  /\ left' = [left EXCEPT ![c] = @ - 1]
  /\ cl' = [cl EXCEPT ![c] = IF left[c] = 1 THEN "wait" ELSE "body"]
  /\ UNCHANGED <<disk, daemon, printer, workers, printed>>

Quit(c) ==
  /\ May("quit") /\ cl[c] \in {"new", "header", "body", "wait"}
  /\ cl' = [cl EXCEPT ![c] = "failed"]
  /\ UNCHANGED <<disk, daemon, printer, workers, net, left, printed>>

(* The answer r reaches a print command that waits for it; one that is     *)
(* still writing may get it, or fail because the connection is closed.     *)
Answer(c, r) ==
  \/ Connected(c) /\ cl' = [cl EXCEPT ![c] = r]
  \/ ~Connected(c) /\ UNCHANGED cl
  \/ cl[c] \in {"header", "body"} /\ cl' = [cl EXCEPT ![c] = "failed"]

-----------------------------------------------------------------------------
(* client_thread *)

At(c, a)   == main # "down" /\ wpc[c] = a
Then(c, b) == wpc' = [wpc EXCEPT ![c] = b]

Fail(c, undo) ==
  /\ May("disk")
  /\ Answer(c, "rejected")
  /\ Then(c, undo)
  /\ UNCHANGED <<disk, daemon, printer, wid, net, left, printed>>

(* Mutant: nextjob is read but its increment is lost. *)
ReadHeaderSame(c) ==
  /\ At(c, "header") /\ net[c] > 0
  /\ nextjob \in Ids
  /\ net' = [net EXCEPT ![c] = @ - 1]
  /\ wid' = [wid EXCEPT ![c] = nextjob]
  /\ Then(c, "creat")
  /\ UNCHANGED <<disk, daemon, printer, left, cl, printed>>

(* treadn of the header, with a timeout of 10 s, then get_newjobno. *)
ReadHeader(c) ==
  /\ At(c, "header") /\ net[c] > 0
  /\ nextjob \in Ids
  /\ net' = [net EXCEPT ![c] = @ - 1]
  /\ wid' = [wid EXCEPT ![c] = nextjob]
  /\ nextjob' = nextjob + 1
  /\ Then(c, "creat")
  /\ UNCHANGED <<disk, main, todo, queue, reread, printer, left, cl, printed>>

(* Mutant: the header is read without a timeout. *)
NoHeaderUntimed(c) ==
  /\ At(c, "header") /\ net[c] = 0
  /\ cl[c] = "failed"
  /\ Then(c, "done")
  /\ UNCHANGED <<disk, daemon, printer, wid, clients, printed>>

NoHeader(c) ==
  /\ At(c, "header") /\ net[c] = 0
  /\ cl[c] = "failed" \/ (cl[c] = "header" /\ May("stall"))
  /\ Answer(c, "rejected")
  /\ Then(c, "done")
  /\ UNCHANGED <<disk, daemon, printer, wid, net, left, printed>>

CreatData(c) ==
  /\ At(c, "creat")
  /\ data' = [data EXCEPT ![wid[c]] = [of |-> c, len |-> 0]]
  /\ Then(c, "data")
  /\ UNCHANGED <<jobno, reqs, daemon, printer, wid, clients, printed>>

(* The data file d with one more buffer; it may have been unlinked. *)
Longer(d) == IF d = None THEN None ELSE [d EXCEPT !.len = @ + 1]

ReadChunk(c) ==
  /\ At(c, "data") /\ net[c] > 0
  /\ net' = [net EXCEPT ![c] = @ - 1]
  /\ data' = [data EXCEPT ![wid[c]] = Longer(@)]
  /\ UNCHANGED <<jobno, reqs, daemon, printer, workers, left, cl, printed>>

(* Mutant: the loop ends after the first buffer. *)
EndOfDataEarly(c) ==
  /\ At(c, "data") /\ data[wid[c]] # None /\ data[wid[c]].len = 1
  /\ Then(c, "ctl")
  /\ UNCHANGED <<disk, daemon, printer, wid, clients, printed>>

(* tread returns 0 when the client has gone, and -1 when nothing has come  *)
(* for 20 s: either ends the file.  The print command keeps its side open, *)
(* so this is how every file ends.                                         *)
EndOfData(c) ==
  /\ At(c, "data") /\ net[c] = 0
  /\ cl[c] = "body" => May("stall")
  /\ Then(c, "ctl")
  /\ UNCHANGED <<disk, daemon, printer, wid, clients, printed>>

CreatControl(c) ==
  /\ At(c, "ctl")
  /\ reqs' = [reqs EXCEPT ![wid[c]] = "torn"]
  /\ Then(c, "ctlwrite")
  /\ UNCHANGED <<jobno, data, daemon, printer, wid, clients, printed>>

WriteControl(c) ==
  /\ At(c, "ctlwrite")
  /\ reqs' = [reqs EXCEPT ![wid[c]] = c]
  /\ Then(c, "respond")
  /\ UNCHANGED <<jobno, data, daemon, printer, wid, clients, printed>>

Respond(c) ==
  /\ At(c, "respond")
  /\ Answer(c, "acked")
  /\ Then(c, "add")
  /\ UNCHANGED <<disk, daemon, printer, wid, net, left, printed>>

(* Mutant: jobwait is not signalled. *)
AddJobSilent(c) ==
  /\ At(c, "add")
  /\ Enqueue([id |-> wid[c], of |-> c])
  /\ Then(c, "done")
  /\ UNCHANGED <<disk, main, todo, nextjob, reread, printer, wid, clients, printed>>

AddJob(c) ==
  /\ At(c, "add")
  /\ Enqueue([id |-> wid[c], of |-> c])
  /\ Then(c, "signal")
  /\ UNCHANGED <<disk, main, todo, nextjob, reread, printer, wid, clients, printed>>

SignalJob(c) ==
  /\ At(c, "signal")
  /\ Signal
  /\ Then(c, "done")
  /\ UNCHANGED <<disk, daemon, jp, doc, status, wid, clients, printed>>

(* A spool file could not be created or written: answer, then remove what  *)
(* there is.                                                               *)
Broken(c) ==
  \/ At(c, "creat")    /\ Fail(c, "done")
  \/ At(c, "data")     /\ net[c] > 0 /\ Fail(c, "undo.data")
  \/ At(c, "ctl")      /\ Fail(c, "undo.data")
  \/ At(c, "ctlwrite") /\ Fail(c, "undo.ctl")

UndoControl(c) ==
  /\ At(c, "undo.ctl")
  /\ Unlinked(reqs, wid[c])
  /\ Then(c, "undo.data")
  /\ UNCHANGED <<jobno, data, daemon, printer, wid, clients, printed>>

UndoData(c) ==
  /\ At(c, "undo.data")
  /\ Unlinked(data, wid[c])
  /\ Then(c, "done")
  /\ UNCHANGED <<jobno, reqs, daemon, printer, wid, clients, printed>>

ClientThread(c) ==
  \/ ReadHeader(c) \/ NoHeader(c) \/ CreatData(c) \/ ReadChunk(c) \/ EndOfData(c)
  \/ CreatControl(c) \/ WriteControl(c) \/ Respond(c) \/ AddJob(c) \/ SignalJob(c)
  \/ Broken(c) \/ UndoControl(c) \/ UndoData(c)

-----------------------------------------------------------------------------
(* printer_thread *)

Printer(a, b) == ppc = a /\ ppc' = b

(* Mutant: the job stays in the queue. *)
PickKeeps ==
  /\ Printer("check", "jobno")
  /\ queue # <<>>
  /\ jp' = Head(queue)
  /\ UNCHANGED <<disk, daemon, doc, status, workers, clients, printed>>

Pick ==
  /\ Printer("check", "jobno")
  /\ queue # <<>>
  /\ jp' = Head(queue) /\ Dequeue
  /\ UNCHANGED <<disk, main, todo, nextjob, reread, doc, status, workers, clients,
                 printed>>

Wait ==
  /\ Printer("check", "waiting")
  /\ queue = <<>>
  /\ UNCHANGED <<disk, daemon, jp, doc, status, workers, clients, printed>>

(* update_jobno; log_sys ends the daemon when the write fails. *)
UpdateJobno ==
  /\ Printer("jobno", "config")
  /\ jobno' = nextjob
  /\ UNCHANGED <<data, reqs, daemon, jp, doc, status, workers, clients, printed>>

UpdateFails == ppc = "jobno" /\ May("disk") /\ Die

(* The configuration is read again when reread is set: init_printer. *)
Config ==
  /\ Printer("config", "open")
  /\ reread' = FALSE
  /\ UNCHANGED <<disk, main, todo, nextjob, queue, jp, doc, status, workers, clients,
                 printed>>

NoPrinter == ppc = "config" /\ reread /\ May("noprinter") /\ Die

(* fstat fixes how much of the file is announced and sent. *)
Open ==
  /\ Printer("open", "connect")
  /\ data[jp.id] # None
  /\ doc' = data[jp.id]
  /\ UNCHANGED <<disk, daemon, jp, status, workers, clients, printed>>

(* The data file cannot be opened: the job is dropped from memory. *)
Cancel ==
  /\ Printer("open", "check")
  /\ data[jp.id] = None \/ May("disk")
  /\ jp' = None
  /\ UNCHANGED <<disk, daemon, doc, status, workers, clients, printed>>

Connect ==
  /\ Printer("connect", "send")
  /\ UNCHANGED <<disk, daemon, jp, doc, status, workers, clients, printed>>

(* The whole request is written, and the printer takes the job ... *)
Send ==
  /\ Printer("send", "status")
  /\ printed' = printed \cup {doc}
  /\ status' = "ok"
  /\ UNCHANGED <<disk, daemon, jp, doc, workers, clients>>

(* ... or refuses it. *)
Refuse ==
  /\ May("printer")
  /\ Printer("send", "status")
  /\ status' = "refused"
  /\ UNCHANGED <<disk, daemon, jp, doc, workers, clients, printed>>

(* Mutant: the job is removed whatever the printer said. *)
ConfirmedAny ==
  /\ Printer("status", "unlink.data")
  /\ doc' = None /\ status' = None
  /\ UNCHANGED <<disk, daemon, jp, workers, clients, printed>>

(* printer_status *)
Confirmed ==
  /\ Printer("status", "unlink.data")
  /\ status = "ok"
  /\ doc' = None /\ status' = None
  /\ UNCHANGED <<disk, daemon, jp, workers, clients, printed>>

UnlinkData ==
  /\ Printer("unlink.data", "unlink.req")
  /\ Unlinked(data, jp.id)
  /\ UNCHANGED <<jobno, reqs, daemon, jp, doc, status, workers, clients, printed>>

UnlinkReq ==
  /\ Printer("unlink.req", "check")
  /\ Unlinked(reqs, jp.id)
  /\ jp' = None
  /\ UNCHANGED <<jobno, data, daemon, doc, status, workers, clients, printed>>

(* Mutant: the job is not put back. *)
DeferDrops ==
  /\ \/ ppc \in {"connect", "send"} /\ May("printer")
     \/ ppc = "status" /\ (status = "refused" \/ May("printer"))
  /\ ppc' = "sleep"
  /\ jp' = None /\ doc' = None /\ status' = None
  /\ UNCHANGED <<disk, daemon, workers, clients, printed>>

(* defer: the job goes back to the head of the queue. *)
Defer ==
  /\ \/ ppc \in {"connect", "send"} /\ May("printer")
     \/ ppc = "status" /\ (status = "refused" \/ May("printer"))
  /\ ppc' = "sleep"
  /\ Requeue(jp)
  /\ jp' = None /\ doc' = None /\ status' = None
  /\ UNCHANGED <<disk, main, todo, nextjob, reread, workers, clients, printed>>

Wake ==
  /\ Printer("sleep", "check")
  /\ UNCHANGED <<disk, daemon, jp, doc, status, workers, clients, printed>>

PrinterThread ==
  \/ Pick \/ Wait \/ UpdateJobno \/ UpdateFails \/ Config \/ NoPrinter \/ Open
  \/ Cancel \/ Connect \/ Send \/ Refuse \/ Confirmed \/ UnlinkData \/ UnlinkReq
  \/ Defer \/ Wake

-----------------------------------------------------------------------------
MainThread ==
  \/ InitRequest \/ ScanSignal \/ ScanDone
  \/ \E i \in Ids : ScanAdd(i) \/ ScanTorn(i) \/ ScanUnlink(i) \/ ScanSkip(i)
  \/ \E c \in Clients : Accept(c)

Init ==
  /\ jobno = 0
  /\ data = [i \in Ids |-> None] /\ reqs = [i \in Ids |-> None]
  /\ main = "down" /\ todo = {} /\ nextjob = 0 /\ queue = <<>> /\ reread = FALSE
  /\ ppc = "off" /\ jp = None /\ doc = None /\ status = None
  /\ wpc = [c \in Clients |-> "none"] /\ wid = [c \in Clients |-> 0]
  /\ net = [c \in Clients |-> 0] /\ left = [c \in Clients |-> Chunks]
  /\ cl = [c \in Clients |-> "new"]
  /\ printed = {}

Next ==
  \/ MainThread \/ PrinterThread \/ Crash \/ Hangup
  \/ \E c \in Clients : ClientThread(c) \/ SendHeader(c) \/ SendChunk(c) \/ Quit(c)

Spec == Init /\ [][Next]_vars
=============================================================================
