---------------------------- MODULE PrintdProofs ----------------------------
(***************************************************************************)
(* What happens to a print job, for any number of print commands, any size *)
(* of their files and any bound on the job numbers.                        *)
(*                                                                         *)
(* The argument: SpoolInv ties together the three places that know of a    *)
(* job, its client thread, the queue with the printer thread, and the      *)
(* spool directory, and is inductive whatever fails.  Each result after    *)
(* NoJobTwice adds one conjunct of its own, which is inductive beside it   *)
(* under the faults that the theorem names.  WakeupsArrive, at the end, is *)
(* about the condition variable alone.                                     *)
(***************************************************************************)
EXTENDS PrintdInv, FiniteSetTheorems, TLAPS

MainSteps == {"down", "scan", "scan.signal", "scan.unlink", "run"}

(* Every variable of the daemon and of the print commands has its type.    *)
Types ==
  /\ jobno \in Nat /\ nextjob \in Nat
  /\ data \in [Ids -> Docs \cup {None}]
  /\ reqs \in [Ids -> Clients \cup {"torn", None}]
  /\ main \in MainSteps /\ todo \subseteq Ids /\ queue \in Seq(Jobs)
  /\ ppc \in PrinterSteps
  /\ jp \in Jobs \cup {None} /\ doc \in Docs \cup {None}
  /\ wpc \in [Clients -> WorkerSteps] /\ wid \in [Clients -> 0 .. MaxId]
  /\ net \in [Clients -> Nat] /\ left \in [Clients -> 0 .. Chunks]
  /\ cl \in [Clients -> ClientStates]
  /\ printed \subseteq Docs

(* Before the daemon runs, and after it has ended, no client thread        *)
(* runs, the printer thread is off and memory is empty; the printer        *)
(* thread holds a job, and from its opening to the answer a document,      *)
(* exactly at the steps where it uses them.                                *)
Idle   == {"none", "done"}
Sends  == {"connect", "send", "status"}
Phases ==
  /\ main = "down" => ppc = "off" /\ queue = <<>> /\ jp = None
  /\ main # "run" => \A c \in Clients : wpc[c] \in Idle
  /\ main \in {"down", "run"} => todo = {}
  /\ (jp = None) <=> ppc \in {"off", "check", "waiting", "sleep"}
  /\ ppc \in Sends => doc # None

(* get_newjobno: a client thread has a number from its header on, below    *)
(* the next one, and no other thread that runs has the same.               *)
HasNumber(c) == wpc[c] \in WorkerSteps \ {"none", "header", "done"}
Numbers ==
  /\ \A c \in Clients : wpc[c] \in {"none", "header"} => wid[c] = 0
  /\ \A c \in Clients : HasNumber(c) => wid[c] \in Ids /\ wid[c] < nextjob
  /\ \A c, d \in Clients : HasNumber(c) /\ HasNumber(d) /\ wid[c] = wid[d] => c = d

(* A control file, a data file, an entry of the queue and the job and      *)
(* the document of the printer thread belong to a client that was given    *)
(* that number.                                                            *)
Owners ==
  /\ \A i \in Ids : reqs[i] \in Clients => wid[reqs[i]] = i
  /\ \A i \in Ids : data[i] # None => wid[data[i].of] = i
  /\ \A n \in 1 .. Len(queue) : wid[queue[n].of] = queue[n].id
  /\ jp # None => wid[jp.of] = jp.id
  /\ ppc \in Sends => wid[doc.of] = jp.id

(* Nothing is lost between print command c and its data file: what is      *)
(* written to the file, what is in the socket and what the command still   *)
(* has to write add up.                                                    *)
BuffersOf(c) ==
  /\ cl[c] = "header" => net[c] = 0 /\ left[c] = Chunks /\ wpc[c] \in {"header", "done"}
  /\ cl[c] = "body" => left[c] > 0
  /\ cl[c] = "wait" => left[c] = 0
  /\ cl[c] = "new" => wpc[c] = "none"
  /\ wpc[c] = "none" => net[c] = 0 /\ left[c] = Chunks /\ cl[c] \in {"new", "failed"}
  /\ wpc[c] = "header" => \/ net[c] + left[c] = Chunks + 1
                          \/ net[c] = 0 /\ left[c] = Chunks /\ cl[c] \notin {"body", "wait"}
  /\ wpc[c] = "creat" => net[c] + left[c] = Chunks
  /\ wpc[c] = "data" /\ data[wid[c]] # None =>
       data[wid[c]].of = c /\ data[wid[c]].len + net[c] + left[c] = Chunks

Buffers == \A c \in Clients : BuffersOf(c)

(* A job is not in memory before its client thread adds it, and is there   *)
(* once: not twice in the queue, not in the queue and with the printer     *)
(* thread, and not while build_qonstart has still to come to its control   *)
(* file.                                                                   *)
Places ==
  /\ \A c \in Clients : wpc[c] \notin {"signal", "done"} => ~InQueue(c) /\ ~InHand(c)
  /\ \A m, n \in 1 .. Len(queue) : queue[m].of = queue[n].of => m = n
  /\ jp # None => ~InQueue(jp.of)
  /\ \A c \in Clients : wid[c] \in todo => ~InQueue(c) /\ ~InHand(c)

(* A client has a complete control file only when its thread has written   *)
(* it, and no data file before its thread makes it.                        *)
Files ==
  \A c \in Clients :
    /\ wpc[c] \notin {"respond", "add", "signal", "done"} => ~Spooled(c)
    /\ wpc[c] = "creat" => data[wid[c]] = None \/ data[wid[c]].of # c

(* From the answer of the printer to the removal of the job, the           *)
(* document is printed; a client thread that writes has its data file.     *)
Ghosts ==
  /\ ppc = "status" /\ status = "ok" => doc \in printed
  /\ ppc \in {"unlink.data", "unlink.req"} => Reissued(jp.of) \/ Printed(jp.of)
  /\ \A c \in Clients : wpc[c] \in {"data", "ctl", "ctlwrite"} =>
         Reissued(c) \/ data[wid[c]] # None
  /\ GhostsArePrinted

(* Where the job of c is while the daemon runs, ...                        *)
Somewhere(c) ==
  \/ main = "down" \/ InQueue(c) \/ InHand(c)
  \/ wpc[c] \in {"respond", "add"} \/ wid[c] \in todo

(* ... if it has one, and when it must have one.                           *)
KeptOf(c) ==
  /\ Spooled(c) => Somewhere(c)
  /\ cl[c] = "acked" \/ wpc[c] \in {"respond", "add"} => Spooled(c)

(* A job that somebody waits for is kept until it is printed, unless its   *)
(* number was issued again.                                                *)
Kept ==
  /\ \A c \in Clients : cl[c] = "acked" => wid[c] # 0 /\ wpc[c] \in {"add", "signal", "done"}
  /\ \A c \in Clients : Reissued(c) \/ Printed(c) \/ KeptOf(c)

(* A client thread that fills a data file has it, and the document in the  *)
(* hands of the printer thread is that of its client; unless the number    *)
(* was issued again.                                                       *)
OnDisk ==
  /\ \A c \in Clients : wpc[c] = "data" => Reissued(c) \/ data[wid[c]] # None
  /\ ppc \in Sends => Reissued(doc.of) \/ doc = data[wid[doc.of]]

(* What is printed was given a number.                                     *)
Numbered == \A d \in printed : wid[d.of] # 0

(* Numbers go up from the first start on: each is below nextjob and is     *)
(* given to one client, whose control files alone bear it.                 *)
Fresh ==
  /\ main = "down" => (\A c \in Clients : wid[c] = 0) /\ jobno = 0
  /\ main # "down" => nextjob > 0
  /\ \A c \in Clients : wid[c] # 0 => wid[c] < nextjob
  /\ \A c, d \in Clients : wid[c] = wid[d] /\ wid[c] # 0 => c = d
  /\ \A i \in Ids : reqs[i] # None => \E c \in Clients : wid[c] = i
  /\ NumbersFresh

-----------------------------------------------------------------------------
(* The constants: None is no document, no job and no client.               *)
LEMMA NoneIs ==
  /\ \A d \in Docs : d # None
  /\ \A d \in Jobs : d # None
  /\ \A d \in Clients : d # None /\ d # "torn"
  /\ Chunks \in Nat /\ MaxId \in Nat
BY PrintdAssumption

(* A data file that is not complete takes one more buffer                  *)
(* (client_thread).                                                        *)
LEMMA DocGrows ==
  ASSUME NEW d \in Docs, d.len < Chunks
  PROVE  Longer(d) \in Docs /\ Longer(d).of = d.of /\ Longer(d).len = d.len + 1
<1>1. PICK c \in Clients, n \in 0 .. Chunks : d = [of |-> c, len |-> n]
  BY DEF Docs
<1>2. n \in Nat /\ n + 1 \in 0 .. Chunks
  BY <1>1, NoneIs
<1>3. Longer(d) = [of |-> c, len |-> n + 1]
  BY <1>1, NoneIs DEF Longer
<1> QED
  BY <1>1, <1>2, <1>3 DEF Docs

(* A data file that grows stays that of its client.                        *)
LEMMA LongerOf ==
  ASSUME NEW d \in Docs PROVE Longer(d).of = d.of
<1>1. PICK c \in Clients, n \in 0 .. Chunks : d = [of |-> c, len |-> n]
  BY DEF Docs
<1> QED
  BY <1>1, NoneIs DEF Longer

(* Types is inductive: the end of the process, the answer to a print       *)
(* command, each of the threads, the print commands, and any step.         *)
LEMMA DieTypes == ASSUME Types, Die PROVE Types'
BY DEF Types, Die, MainSteps, PrinterSteps, WorkerSteps, ClientStates, Docs, disk, printer, workers, clients, daemon

LEMMA AnswerTypes ==
  ASSUME Types, NEW c \in Clients, UNCHANGED cl \/ Answer(c, "acked") \/ Answer(c, "rejected")
  PROVE  cl' \in [Clients -> ClientStates]
BY DEF Types, Answer, ClientStates

LEMMA MainTypes == ASSUME Types, MainThread PROVE Types'
<1> USE DEF disk, printer, workers, clients, daemon, Types
<1>1. CASE InitRequest
  BY <1>1 DEF InitRequest, MainSteps, PrinterSteps
<1>2. CASE ScanSignal
  BY <1>2 DEF ScanSignal, Signal, MainSteps, PrinterSteps
<1>3. CASE ScanDone
  BY <1>3 DEF ScanDone, MainSteps
<1>4. ASSUME NEW i \in Ids, ScanAdd(i) PROVE Types'
  <2>1. [id |-> i, of |-> reqs[i]] \in Jobs
    BY <1>4 DEF ScanAdd, Jobs
  <2>2. queue' \in Seq(Jobs)
    BY <1>4, <2>1 DEF ScanAdd, Enqueue
  <2> QED
    BY <1>4, <2>2 DEF ScanAdd, MainSteps
<1>5. ASSUME NEW i \in Ids, ScanTorn(i) \/ ScanUnlink(i) \/ ScanSkip(i) PROVE Types'
  BY <1>5 DEF ScanTorn, ScanUnlink, ScanSkip, MainSteps, Unlinked
<1>6. ASSUME NEW c \in Clients, Accept(c) PROVE Types'
  BY <1>6 DEF Accept, WorkerSteps, ClientStates
<1> QED
  BY <1>1, <1>2, <1>3, <1>4, <1>5, <1>6 DEF MainThread

LEMMA PrinterTypes == ASSUME Types, Phases, PrinterThread PROVE Types'
<1> USE DEF disk, printer, workers, clients, daemon, Types, Printer, PrinterSteps
<1>1. CASE Pick
  <2>1. Head(queue) \in Jobs /\ Tail(queue) \in Seq(Jobs)
    BY <1>1 DEF Pick
  <2> QED
    BY <1>1, <2>1 DEF Pick, Dequeue
<1>2. CASE Wait \/ UpdateJobno \/ Config
  BY <1>2 DEF Wait, UpdateJobno, Config
<1>3. CASE UpdateFails \/ NoPrinter
  BY <1>3, DieTypes DEF UpdateFails, NoPrinter
<1>5. CASE Open
  <2>1. jp \in Jobs
    BY <1>5 DEF Open, Phases
  <2> QED
    BY <1>5, <2>1 DEF Open, Jobs
<1>6. CASE Cancel \/ Connect
  BY <1>6 DEF Cancel, Connect
<1>7. CASE Send \/ Refuse \/ Confirmed \/ Wake
  BY <1>7 DEF Send, Refuse, Confirmed, Wake, Phases, Sends
<1>8. CASE UnlinkData \/ UnlinkReq
  BY <1>8 DEF UnlinkData, UnlinkReq, Unlinked
<1>9. CASE Defer
  <2>1. jp \in Jobs
    BY <1>9 DEF Defer, Phases
  <2>2. queue' \in Seq(Jobs)
    BY <1>9, <2>1 DEF Defer, Requeue
  <2> QED
    BY <1>9, <2>2 DEF Defer
<1> QED
  BY <1>1, <1>2, <1>3, <1>5, <1>6, <1>7, <1>8, <1>9 DEF PrinterThread

LEMMA ClientTypes == ASSUME Types, Numbers, Buffers, NEW c \in Clients, ClientThread(c) PROVE Types'
<1> USE DEF disk, printer, workers, clients, daemon, Types, At, Then
<1>0. ASSUME NEW b \in WorkerSteps, Then(c, b) PROVE wpc' \in [Clients -> WorkerSteps]
  BY <1>0
<1>1. CASE ReadHeader(c)
  BY <1>1, <1>0 DEF ReadHeader, WorkerSteps, Ids
<1>2. CASE NoHeader(c)
  BY <1>2, <1>0, AnswerTypes DEF NoHeader, WorkerSteps
<1>3. CASE CreatData(c)
  <2>1. [of |-> c, len |-> 0] \in Docs
    BY NoneIs DEF Docs
  <2> QED
    BY <1>3, <1>0, <2>1 DEF CreatData, WorkerSteps
<1>4. CASE ReadChunk(c)
  <2>1. wid[c] \in Ids /\ wpc[c] = "data" /\ net[c] > 0
    BY <1>4 DEF ReadChunk, Numbers, HasNumber, WorkerSteps
  <2>2. Longer(data[wid[c]]) \in Docs \cup {None}
    <3>1. CASE data[wid[c]] = None
      BY <3>1 DEF Longer
    <3>2. CASE data[wid[c]] # None
      <4>1. data[wid[c]] \in Docs /\ data[wid[c]].len + net[c] + left[c] = Chunks
        BY <2>1, <3>2 DEF Buffers, BuffersOf
      <4>2. data[wid[c]].len < Chunks
        BY <2>1, <4>1, NoneIs DEF Docs
      <4> QED
        BY <4>1, <4>2, DocGrows
    <3> QED
      BY <3>1, <3>2
  <2> QED
    BY <1>4, <2>1, <2>2 DEF ReadChunk
<1>5. CASE EndOfData(c) \/ CreatControl(c)
  BY <1>5, <1>0 DEF EndOfData, CreatControl, WorkerSteps
<1>6. CASE WriteControl(c)
  BY <1>6, <1>0 DEF WriteControl, WorkerSteps
<1>7. CASE Respond(c)
  BY <1>7, <1>0, AnswerTypes DEF Respond, WorkerSteps
<1>8. CASE AddJob(c)
  <2>1. wid[c] \in Ids
    BY <1>8 DEF AddJob, Numbers, HasNumber, WorkerSteps
  <2>2. queue' \in Seq(Jobs)
    BY <1>8, <2>1 DEF AddJob, Enqueue, Jobs
  <2> QED
    BY <1>8, <1>0, <2>2 DEF AddJob, WorkerSteps
<1>9. CASE SignalJob(c)
  BY <1>9, <1>0 DEF SignalJob, Signal, WorkerSteps, PrinterSteps
<1>10. CASE Broken(c)
  BY <1>10, <1>0, AnswerTypes DEF Broken, Fail, WorkerSteps
<1>11. CASE UndoControl(c) \/ UndoData(c)
  BY <1>11, <1>0 DEF UndoControl, UndoData, WorkerSteps, Unlinked
<1> QED
  BY <1>1, <1>2, <1>3, <1>4, <1>5, <1>6, <1>7, <1>8, <1>9, <1>10, <1>11 DEF ClientThread

LEMMA CommandTypes ==
  ASSUME Types, Buffers, NEW c \in Clients, SendHeader(c) \/ SendChunk(c) \/ Quit(c)
  PROVE  Types'
<1> USE DEF disk, printer, workers, clients, daemon, Types
<1>1. CASE SendHeader(c)
  BY <1>1 DEF SendHeader, ClientStates
<1>2. CASE SendChunk(c)
  BY <1>2, NoneIs DEF SendChunk, ClientStates, Buffers, BuffersOf
<1>3. CASE Quit(c)
  BY <1>3 DEF Quit, ClientStates
<1> QED
  BY <1>1, <1>2, <1>3

LEMMA TypesStep == ASSUME Types, Phases, Numbers, Buffers, [Next]_vars PROVE Types'
<1>1. CASE Crash
  BY <1>1, DieTypes DEF Crash
<1>2. CASE Hangup
  BY <1>2 DEF Hangup, disk, printer, workers, clients, Types
<1>3. CASE UNCHANGED vars
  BY <1>3 DEF vars, disk, printer, workers, clients, daemon, Types
<1> QED
  BY <1>1, <1>2, <1>3, MainTypes, PrinterTypes, ClientTypes, CommandTypes DEF Next

-----------------------------------------------------------------------------
(* Phases is inductive: the end of the process, and any step.              *)
LEMMA DiePhases == ASSUME Types, Die PROVE Phases'
BY DEF Types, Die, Phases, Idle, Sends

LEMMA PhasesStep == ASSUME Types, Phases, [Next]_vars PROVE Phases'
<1> USE DEF disk, printer, workers, clients, daemon, Phases, Sends
<1>1. CASE MainThread
  <2>1. CASE InitRequest
    BY <2>1 DEF InitRequest
  <2>2. CASE ScanSignal \/ ScanDone
    BY <2>2 DEF ScanSignal, Signal, ScanDone
  <2>3. ASSUME NEW i \in Ids,
               ScanAdd(i) \/ ScanTorn(i) \/ ScanUnlink(i) \/ ScanSkip(i)
        PROVE  Phases'
    BY <2>3 DEF ScanAdd, ScanTorn, ScanUnlink, ScanSkip
  <2>4. ASSUME NEW c \in Clients, Accept(c) PROVE Phases'
    BY <2>4 DEF Accept
  <2> QED
    BY <1>1, <2>1, <2>2, <2>3, <2>4 DEF MainThread
<1>2. CASE PrinterThread
  <2> USE DEF Printer
  <2>1. CASE Pick
    <3>1. Head(queue) \in Jobs
      BY <2>1 DEF Pick, Types
    <3> QED
      BY <2>1, <3>1, NoneIs DEF Pick, Dequeue
  <2>2. CASE Wait \/ UpdateJobno \/ Config \/ Connect \/ Send \/ Refuse \/ Wake
    BY <2>2 DEF Wait, UpdateJobno, Config, Connect, Send, Refuse, Wake
  <2>3. CASE UpdateFails \/ NoPrinter
    BY <2>3, DiePhases DEF UpdateFails, NoPrinter
  <2>4. CASE Open \/ Cancel \/ Confirmed \/ UnlinkData \/ UnlinkReq \/ Defer
    BY <2>4 DEF Open, Cancel, Confirmed, UnlinkData, UnlinkReq, Defer
  <2> QED
    BY <1>2, <2>1, <2>2, <2>3, <2>4 DEF PrinterThread
<1>3. CASE Crash
  BY <1>3, DiePhases DEF Crash
<1>4. CASE Hangup
  BY <1>4 DEF Hangup
<1>5. ASSUME NEW c \in Clients, ClientThread(c) PROVE Phases'
  <2>1. main = "run" /\ UNCHANGED <<main, todo, jp, doc>>
    BY <1>5 DEF ClientThread, ReadHeader, NoHeader, CreatData, ReadChunk, EndOfData,
       CreatControl, WriteControl, Respond, AddJob, SignalJob, Broken, Fail,
       UndoControl, UndoData, At, Idle
  <2>2. UNCHANGED ppc \/ (ppc = "waiting" /\ ppc' = "check")
    BY <1>5 DEF ClientThread, ReadHeader, NoHeader, CreatData, ReadChunk, EndOfData,
       CreatControl, WriteControl, Respond, AddJob, SignalJob, Broken, Fail,
       UndoControl, UndoData, Signal
  <2> QED
    BY <2>1, <2>2
<1>6. ASSUME NEW c \in Clients, SendHeader(c) \/ SendChunk(c) \/ Quit(c) PROVE Phases'
  BY <1>6 DEF SendHeader, SendChunk, Quit
<1>7. CASE UNCHANGED vars
  BY <1>7 DEF vars
<1> QED
  BY <1>1, <1>2, <1>3, <1>4, <1>5, <1>6, <1>7 DEF Next

-----------------------------------------------------------------------------
(* Where a client thread can go from each of its steps.                    *)
Moves ==
  {<<"header", "creat">>, <<"header", "done">>, <<"creat", "data">>,
   <<"creat", "done">>, <<"data", "data">>, <<"data", "ctl">>,
   <<"data", "undo.data">>, <<"ctl", "ctlwrite">>, <<"ctl", "undo.data">>,
   <<"ctlwrite", "respond">>, <<"ctlwrite", "undo.ctl">>, <<"respond", "add">>,
   <<"add", "signal">>, <<"signal", "done">>, <<"undo.ctl", "undo.data">>,
   <<"undo.data", "done">>}

LEMMA ClientMoves ==
  ASSUME Types, Phases, NEW c \in Clients, ClientThread(c)
  PROVE  /\ main = "run" /\ main' = "run"
         /\ \E m \in Moves : wpc[c] = m[1] /\ wpc' = [wpc EXCEPT ![c] = m[2]]
<1> DEFINE Move == \E m \in Moves : wpc[c] = m[1] /\ wpc' = [wpc EXCEPT ![c] = m[2]]
<1>0. ASSUME NEW a, NEW b, <<a, b>> \in Moves, At(c, a), Then(c, b) PROVE Move
  BY <1>0 DEF At, Then
<1>1. CASE ReadHeader(c) \/ NoHeader(c)
  <2>1. Move
    BY <1>1, <1>0 DEF ReadHeader, NoHeader, Moves
  <2> QED
    BY <1>1, <2>1 DEF ReadHeader, NoHeader, At, Phases, Idle, daemon
<1>2. CASE CreatData(c) \/ EndOfData(c) \/ CreatControl(c) \/ WriteControl(c)
  <2>1. Move
    BY <1>2, <1>0 DEF CreatData, EndOfData, CreatControl, WriteControl, Moves
  <2> QED
    BY <1>2, <2>1 DEF CreatData, EndOfData, CreatControl, WriteControl, At, Phases, Idle,
       daemon
<1>3. CASE ReadChunk(c)
  <2>1. wpc[c] = "data" /\ wpc' = [wpc EXCEPT ![c] = "data"]
    BY <1>3 DEF ReadChunk, At, workers, Types
  <2>2. Move
    BY <2>1 DEF Moves
  <2> QED
    BY <1>3, <2>1, <2>2 DEF ReadChunk, Phases, Idle, daemon
<1>4. CASE Respond(c) \/ AddJob(c) \/ SignalJob(c)
  <2>1. Move
    BY <1>4, <1>0 DEF Respond, AddJob, SignalJob, Moves
  <2> QED
    BY <1>4, <2>1 DEF Respond, AddJob, SignalJob, At, Phases, Idle, daemon
<1>5. CASE Broken(c)
  <2>1. Move
    BY <1>5, <1>0 DEF Broken, Fail, Moves
  <2> QED
    BY <1>5, <2>1 DEF Broken, Fail, At, Phases, Idle, daemon
<1>6. CASE UndoControl(c) \/ UndoData(c)
  <2>1. Move
    BY <1>6, <1>0 DEF UndoControl, UndoData, Moves
  <2> QED
    BY <1>6, <2>1 DEF UndoControl, UndoData, At, Phases, Idle, daemon
<1> QED
  BY <1>1, <1>2, <1>3, <1>4, <1>5, <1>6 DEF ClientThread

(* Numbers is inductive: get_newjobno takes nextjob, which no thread       *)
(* that runs has, and goes on to the next.                                 *)
LEMMA NumbersStep ==
  ASSUME Types, Phases, Buffers, Numbers, [Next]_vars PROVE Numbers'
<1> USE DEF disk, printer, workers, clients, daemon
<1>0. ASSUME UNCHANGED <<wpc, wid, nextjob>> PROVE Numbers'
  BY <1>0 DEF Numbers, HasNumber
<1>1. CASE Die
  BY <1>1 DEF Die, Types, Numbers, HasNumber
<1>2. CASE MainThread
  <2>1. CASE InitRequest
    BY <2>1 DEF InitRequest, Phases, Idle, Numbers, HasNumber
  <2>2. ASSUME NEW c \in Clients, Accept(c) PROVE Numbers'
    BY <2>2 DEF Accept, Buffers, BuffersOf, Types, Numbers, HasNumber
  <2> QED
    BY <1>2, <1>0, <2>1, <2>2
       DEF MainThread, ScanSignal, ScanDone, ScanAdd, ScanTorn, ScanUnlink, ScanSkip
<1>3. CASE PrinterThread
  BY <1>3, <1>0, <1>1 DEF PrinterThread, Pick, Wait, UpdateJobno, UpdateFails, Config,
     NoPrinter, Open, Cancel, Connect, Send, Refuse, Confirmed, UnlinkData, UnlinkReq,
     Defer, Wake
<1>4. ASSUME NEW c \in Clients, ClientThread(c) PROVE Numbers'
  <2>1. CASE ReadHeader(c)
    BY <2>1 DEF ReadHeader, At, Then, Types, Numbers, HasNumber
  <2>2. CASE ~ReadHeader(c)
    <3>1. UNCHANGED <<wid, nextjob>>
      BY <1>4, <2>2 DEF ClientThread, NoHeader, CreatData, ReadChunk, EndOfData,
         CreatControl, WriteControl, Respond, AddJob, SignalJob, Broken, Fail,
         UndoControl, UndoData
    <3>2. wpc[c] = "header" => wpc' = [wpc EXCEPT ![c] = "done"]
      BY <1>4, <2>2 DEF ClientThread, NoHeader, CreatData, ReadChunk, EndOfData,
         CreatControl, WriteControl, Respond, AddJob, SignalJob, Broken, Fail,
         UndoControl, UndoData, At, Then
    <3>3. PICK m \in Moves : wpc[c] = m[1] /\ wpc' = [wpc EXCEPT ![c] = m[2]]
      BY <1>4, ClientMoves
    <3> QED
      BY <3>1, <3>2, <3>3 DEF Moves, Types, Numbers, HasNumber
  <2> QED
    BY <2>1, <2>2
<1>5. ASSUME NEW c \in Clients, SendHeader(c) \/ SendChunk(c) \/ Quit(c) PROVE Numbers'
  BY <1>5, <1>0 DEF SendHeader, SendChunk, Quit
<1> QED
  BY <1>0, <1>1, <1>2, <1>3, <1>4, <1>5 DEF Next, Crash, Hangup, vars

-----------------------------------------------------------------------------
(* What the three operations on the queue do with its entries.             *)
LEMMA EnqueueIs ==
  ASSUME Types, NEW j \in Jobs, Enqueue(j)
  PROVE  /\ queue' \in Seq(Jobs)
         /\ \A n \in 1 .. Len(queue') :
              \/ n \in 1 .. Len(queue) /\ queue'[n] = queue[n]
              \/ n = Len(queue) + 1 /\ queue'[n] = j
         /\ \A c \in Clients : InQueue(c)' <=> InQueue(c) \/ j.of = c
<1>1. /\ queue' \in Seq(Jobs) /\ Len(queue') = Len(queue) + 1 /\ queue \in Seq(Jobs)
      /\ \A n \in 1 .. Len(queue) : queue'[n] = queue[n]
      /\ queue'[Len(queue) + 1] = j
  BY DEF Types, Enqueue
<1> QED
  BY <1>1 DEF InQueue

(* ... remove_job takes the first entry away ...                           *)
LEMMA DequeueIs ==
  ASSUME Types, queue # <<>>, Dequeue
  PROVE  /\ queue' \in Seq(Jobs)
         /\ 1 \in 1 .. Len(queue) /\ Head(queue) = queue[1]
         /\ \A n \in 1 .. Len(queue') : n + 1 \in 1 .. Len(queue) /\ queue'[n] = queue[n + 1]
         /\ \A c \in Clients : InQueue(c) <=> InQueue(c)' \/ Head(queue).of = c
<1>1. /\ queue' \in Seq(Jobs) /\ Len(queue') = Len(queue) - 1 /\ queue \in Seq(Jobs)
      /\ \A n \in 1 .. Len(queue') : queue'[n] = queue[n + 1]
      /\ Head(queue) = queue[1] /\ Len(queue) \in Nat \ {0}
  BY DEF Types, Dequeue
<1>2. \A n \in 1 .. Len(queue) : n = 1 \/ (n - 1 \in 1 .. Len(queue') /\ queue'[n - 1] = queue[n])
  BY <1>1
<1>3. DOMAIN queue = 1 .. Len(queue) /\ DOMAIN queue' = 1 .. Len(queue')
  BY <1>1
<1>4. ASSUME NEW c \in Clients, InQueue(c) PROVE InQueue(c)' \/ Head(queue).of = c
  <2>1. PICK n \in 1 .. Len(queue) : queue[n].of = c
    BY <1>3, <1>4 DEF InQueue
  <2> QED
    BY <2>1, <1>1, <1>2, <1>3 DEF InQueue
<1>5. \A n \in 1 .. Len(queue') : n + 1 \in 1 .. Len(queue)
  BY <1>1
<1>6. ASSUME NEW c \in Clients, InQueue(c)' PROVE InQueue(c)
  <2>1. PICK n \in 1 .. Len(queue') : queue'[n].of = c
    BY <1>3, <1>6 DEF InQueue
  <2> QED
    BY <2>1, <1>1, <1>5, <1>3 DEF InQueue
<1>7. ASSUME NEW c \in Clients, Head(queue).of = c PROVE InQueue(c)
  BY <1>1, <1>3, <1>7 DEF InQueue
<1> QED
  BY <1>1, <1>4, <1>5, <1>6, <1>7

(* ... and replace_job puts an entry in front.                             *)
LEMMA RequeueIs ==
  ASSUME Types, NEW j \in Jobs, Requeue(j)
  PROVE  /\ queue' \in Seq(Jobs)
         /\ \A n \in 1 .. Len(queue') :
              \/ n = 1 /\ queue'[n] = j
              \/ n - 1 \in 1 .. Len(queue) /\ queue'[n] = queue[n - 1]
         /\ \A c \in Clients : InQueue(c)' <=> InQueue(c) \/ j.of = c
<1>1. /\ queue' \in Seq(Jobs) /\ Len(queue') = Len(queue) + 1 /\ queue \in Seq(Jobs)
      /\ queue'[1] = j
      /\ \A n \in 1 .. Len(queue) : queue'[n + 1] = queue[n] /\ n + 1 \in 1 .. Len(queue')
  BY DEF Types, Requeue
<1>2. \A n \in 1 .. Len(queue') : n = 1 \/ (n - 1 \in 1 .. Len(queue) /\ queue'[n] = queue[n - 1])
  BY <1>1
<1>3. DOMAIN queue = 1 .. Len(queue) /\ DOMAIN queue' = 1 .. Len(queue')
  BY <1>1
<1>4. ASSUME NEW c \in Clients, InQueue(c)' PROVE InQueue(c) \/ j.of = c
  <2>1. PICK n \in 1 .. Len(queue') : queue'[n].of = c
    BY <1>3, <1>4 DEF InQueue
  <2> QED
    BY <2>1, <1>1, <1>2, <1>3 DEF InQueue
<1>5. ASSUME NEW c \in Clients, InQueue(c) PROVE InQueue(c)'
  <2>1. PICK n \in 1 .. Len(queue) : queue[n].of = c
    BY <1>3, <1>5 DEF InQueue
  <2> QED
    BY <2>1, <1>1, <1>3 DEF InQueue
<1>6. ASSUME NEW c \in Clients, j.of = c PROVE InQueue(c)'
  <2>1. 1 \in 1 .. Len(queue')
    BY <1>1
  <2> QED
    BY <2>1, <1>1, <1>3, <1>6 DEF InQueue
<1> QED
  BY <1>1, <1>2, <1>4, <1>5, <1>6

(* Owners is inductive: every number that is written down comes from       *)
(* wid, and no client with a number is given another one.                  *)
LEMMA OwnersStep ==
  ASSUME Types, Phases, Numbers, Owners, [Next]_vars PROVE Owners'
<1> USE DEF disk, printer, workers, clients, daemon
<1>0. ASSUME UNCHANGED <<data, reqs, queue, jp, doc, wid>>,
             ppc' \in Sends => ppc \in Sends
      PROVE Owners'
  BY <1>0 DEF Owners
<1>1. CASE Die
  BY <1>1 DEF Die, Owners, Sends, Types
<1>2. CASE MainThread
  <2>1. ASSUME NEW i \in Ids, ScanAdd(i) PROVE Owners'
    <3>1. [id |-> i, of |-> reqs[i]] \in Jobs /\ wid[reqs[i]] = i
      BY <2>1 DEF ScanAdd, Jobs, Owners
    <3>2. \A n \in 1 .. Len(queue') : wid[queue'[n].of] = queue'[n].id
      <4>1. Enqueue([id |-> i, of |-> reqs[i]]) /\ UNCHANGED wid
        BY <2>1 DEF ScanAdd
      <4> QED
        BY <3>1, <4>1, EnqueueIs DEF Owners
    <3> QED
      BY <2>1, <3>2 DEF ScanAdd, Owners
  <2>2. ASSUME NEW i \in Ids, ScanTorn(i) \/ ScanUnlink(i) PROVE Owners'
    BY <2>2, NoneIs DEF ScanTorn, ScanUnlink, Owners, Types, Unlinked
  <2> QED
    BY <1>2, <1>0, <2>1, <2>2 DEF MainThread, InitRequest, ScanSignal, Signal, ScanDone,
       ScanSkip, Accept, Sends
<1>3. CASE PrinterThread
  <2> USE DEF Printer, Sends
  <2>1. CASE Pick
    <3>1. \A n \in 1 .. Len(queue') : wid[queue'[n].of] = queue'[n].id
      <4>1. Dequeue /\ queue # <<>> /\ UNCHANGED wid
        BY <2>1 DEF Pick
      <4> QED
        BY <4>1, DequeueIs DEF Owners
    <3>2. wid[jp'.of] = jp'.id
      BY <2>1, DequeueIs DEF Pick, Owners
    <3> QED
      BY <2>1, <3>1, <3>2 DEF Pick, Owners
  <2>2. CASE Open
    <3>1. jp # None /\ jp.id \in Ids
      BY <2>1, <2>2 DEF Open, Phases, Types, Jobs
    <3> QED
      BY <2>2, <3>1 DEF Open, Owners
  <2>3. CASE Defer
    <3>1. jp # None /\ jp \in Jobs
      BY <2>3 DEF Defer, Phases, Types
    <3>2. \A n \in 1 .. Len(queue') : wid[queue'[n].of] = queue'[n].id
      <4>1. Requeue(jp) /\ UNCHANGED wid
        BY <2>3 DEF Defer
      <4> QED
        BY <3>1, <4>1, RequeueIs DEF Owners
    <3> QED
      BY <2>3, <3>2 DEF Defer, Owners
  <2>4. CASE UnlinkData \/ UnlinkReq
    BY <2>4, NoneIs DEF UnlinkData, UnlinkReq, Owners, Types, Unlinked
  <2>5. CASE Cancel \/ Confirmed
    BY <2>5 DEF Cancel, Confirmed, Owners
  <2> QED
    BY <1>3, <1>0, <1>1, <2>1, <2>2, <2>3, <2>4, <2>5 DEF PrinterThread, Wait, UpdateJobno,
       UpdateFails, Config, NoPrinter, Connect, Send, Refuse, Wake
<1>4. ASSUME NEW c \in Clients, ClientThread(c) PROVE Owners'
  <2>1. CASE ReadHeader(c)
    <3>1. wid[c] = 0 /\ \A d \in Clients \ {c} : wid'[d] = wid[d]
      BY <2>1 DEF ReadHeader, At, Numbers, Types
    <3>2. UNCHANGED <<data, reqs, queue, jp, doc, ppc>>
      BY <2>1 DEF ReadHeader
    <3>3. \A i \in Ids : i # 0
      BY DEF Ids
    <3>4. \A i \in Ids : reqs[i] \in Clients => wid'[reqs[i]] = i
      BY <3>1, <3>3 DEF Owners
    <3>5. \A i \in Ids : data[i] # None => wid'[data[i].of] = i
      BY <3>1, <3>3 DEF Owners, Types, Docs
    <3>6. \A n \in 1 .. Len(queue) : queue[n] \in Jobs
      BY DEF Types
    <3>7. \A n \in 1 .. Len(queue) : wid'[queue[n].of] = queue[n].id
      BY <3>1, <3>3, <3>6 DEF Owners, Jobs
    <3>8. jp # None => wid'[jp.of] = jp.id
      BY <3>1, <3>3 DEF Owners, Types, Jobs
    <3>9. ppc \in Sends => wid'[doc.of] = jp.id
      <4>1. ppc \in Sends => doc \in Docs /\ jp \in Jobs
        BY DEF Phases, Types, Sends
      <4> QED
        BY <3>1, <3>3, <4>1 DEF Owners, Docs, Jobs
    <3> QED
      BY <3>2, <3>4, <3>5, <3>7, <3>8, <3>9 DEF Owners
  <2>2. CASE CreatData(c) \/ CreatControl(c) \/ WriteControl(c) \/ UndoControl(c) \/ UndoData(c)
    <3>1. wid[c] \in Ids /\ UNCHANGED <<queue, jp, doc, wid, ppc>>
      BY <2>2 DEF CreatData, CreatControl, WriteControl, UndoControl, UndoData, At, Numbers,
         HasNumber, WorkerSteps
    <3>2. \A i \in Ids \ {wid[c]} : data'[i] = data[i] /\ reqs'[i] = reqs[i]
      BY <2>2 DEF CreatData, CreatControl, WriteControl, UndoControl, UndoData, Types,
         Unlinked
    <3>3. reqs'[wid[c]] \in {reqs[wid[c]], "torn", None, c}
      BY <2>2, <3>1 DEF CreatData, CreatControl, WriteControl, UndoControl, UndoData, Types,
         Unlinked
    <3>4. data'[wid[c]] \in {data[wid[c]], None, [of |-> c, len |-> 0]}
      BY <2>2, <3>1 DEF CreatData, CreatControl, WriteControl, UndoControl, UndoData, Types,
         Unlinked
    <3> QED
      BY <3>1, <3>2, <3>3, <3>4, NoneIs DEF Owners
  <2>3. CASE ReadChunk(c)
    <3>1. wid[c] \in Ids /\ UNCHANGED <<reqs, queue, jp, doc, wid, ppc>>
      BY <2>3 DEF ReadChunk, At, Numbers, HasNumber, WorkerSteps
    <3>2. data' = [data EXCEPT ![wid[c]] = Longer(data[wid[c]])]
      BY <2>3 DEF ReadChunk
    <3>3. data[wid[c]] # None => Longer(data[wid[c]]).of = data[wid[c]].of
      BY <3>1, LongerOf DEF Types
    <3>4. data[wid[c]] = None => Longer(data[wid[c]]) = None
      BY DEF Longer
    <3> QED
      BY <3>1, <3>2, <3>3, <3>4 DEF Owners, Types
  <2>4. CASE AddJob(c)
    <3>1. [id |-> wid[c], of |-> c] \in Jobs
      BY <2>4 DEF AddJob, At, Numbers, HasNumber, WorkerSteps, Jobs
    <3>2. \A n \in 1 .. Len(queue') : wid[queue'[n].of] = queue'[n].id
      <4>1. Enqueue([id |-> wid[c], of |-> c]) /\ UNCHANGED wid
        BY <2>4 DEF AddJob
      <4> QED
        BY <3>1, <4>1, EnqueueIs DEF Owners
    <3> QED
      BY <2>4, <3>2 DEF AddJob, Owners
  <2> QED
    BY <1>4, <1>0, <2>1, <2>2, <2>3, <2>4 DEF ClientThread, NoHeader, EndOfData, Respond,
       SignalJob, Signal, Sends, Broken, Fail
<1>5. ASSUME NEW c \in Clients, SendHeader(c) \/ SendChunk(c) \/ Quit(c) PROVE Owners'
  BY <1>5, <1>0 DEF SendHeader, SendChunk, Quit
<1> QED
  BY <1>0, <1>1, <1>2, <1>3, <1>4, <1>5 DEF Next, Crash, Hangup, vars

-----------------------------------------------------------------------------
(* Buffers is inductive: each write of the command, each read and write    *)
(* of the thread moves one buffer on.                                      *)
LEMMA BuffersStep ==
  ASSUME Types, Phases, Numbers, Buffers, [Next]_vars PROVE Buffers'
<1> USE DEF disk, printer, workers, clients, daemon
<1>0. ASSUME UNCHANGED <<cl, net, left, wpc, wid>>,
             \A i \in Ids : data'[i] \in {data[i], None}
      PROVE Buffers'
  BY <1>0 DEF Buffers, BuffersOf, Numbers, HasNumber, WorkerSteps
<1>1. CASE Die
  <2>1. ASSUME NEW c \in Clients PROVE BuffersOf(c)'
    BY <1>1 DEF Die, BuffersOf, Buffers, Types, Connected, ClientStates
  <2> QED
    BY <2>1 DEF Buffers, BuffersOf
<1>2. CASE MainThread
  <2>1. ASSUME NEW c \in Clients, Accept(c) PROVE Buffers'
    BY <2>1 DEF Accept, Buffers, BuffersOf, Types
  <2> QED
    BY <1>2, <1>0, <2>1 DEF MainThread, InitRequest, ScanSignal, ScanDone, ScanAdd,
       ScanTorn, ScanUnlink, ScanSkip, Types, Unlinked
<1>3. CASE PrinterThread
  <2>1. CASE UnlinkData
    BY <2>1, <1>0 DEF UnlinkData, Types, Unlinked
  <2> QED
    BY <1>3, <1>0, <1>1, <2>1 DEF PrinterThread, Pick, Wait, UpdateJobno, UpdateFails,
       Config, NoPrinter, Open, Cancel, Connect, Send, Refuse, Confirmed, UnlinkReq, Defer,
       Wake
<1>4. ASSUME NEW c \in Clients, ClientThread(c) PROVE Buffers'
  <2>0. \A d \in Clients \ {c} : wpc'[d] = wpc[d]
    BY <1>4, ClientMoves DEF Types
  <2>1. ASSUME NEW d \in Clients, d # c PROVE BuffersOf(d)'
    <3>1. cl'[d] = cl[d] /\ net'[d] = net[d] /\ left'[d] = left[d] /\ wid'[d] = wid[d]
      BY <1>4, <2>1 DEF ClientThread, ReadHeader, NoHeader, CreatData, ReadChunk,
         EndOfData, CreatControl, WriteControl, Respond, AddJob, SignalJob, Broken, Fail,
         UndoControl, UndoData, Answer, Types
    <3>2. ASSUME HasNumber(d) PROVE data'[wid[d]] = data[wid[d]]
      <4>1. HasNumber(c) => wid[c] # wid[d]
        BY <3>2, <2>1 DEF Numbers
      <4>2. CASE CreatData(c) \/ ReadChunk(c) \/ UndoData(c)
        BY <4>1, <4>2, <3>2 DEF CreatData, ReadChunk, UndoData, At, HasNumber, WorkerSteps,
           Types, Numbers, Unlinked
      <4> QED
        BY <1>4, <4>2 DEF ClientThread, ReadHeader, NoHeader, EndOfData, CreatControl,
           WriteControl, Respond, AddJob, SignalJob, Broken, Fail, UndoControl
    <3>3. wpc[d] = "data" => HasNumber(d)
      BY DEF HasNumber, WorkerSteps
    <3> QED
      BY <2>0, <2>1, <3>1, <3>2, <3>3 DEF Buffers, BuffersOf
  <2>2. BuffersOf(c)'
    <3>0. BuffersOf(c)
      BY DEF Buffers, BuffersOf
    <3>1. CASE ReadHeader(c)
      <4>1. /\ wpc[c] = "header" /\ net[c] \in Nat /\ net[c] > 0 /\ left[c] \in 0 .. Chunks
            /\ net'[c] = net[c] - 1 /\ wpc'[c] = "creat" /\ UNCHANGED <<left, cl>>
        BY <3>1 DEF ReadHeader, At, Then, Types
      <4>2. net[c] + left[c] = Chunks + 1
        BY <3>0, <4>1, NoneIs DEF BuffersOf
      <4> QED
        BY <3>0, <4>1, <4>2, NoneIs DEF BuffersOf
    <3>2. CASE NoHeader(c) \/ Respond(c) \/ Broken(c)
      <4>1. cl'[c] \in {cl[c], "acked", "rejected", "failed"} /\ UNCHANGED <<net, left>>
        BY <3>2 DEF NoHeader, Respond, Broken, Fail, Answer, Types
      <4>2. wpc[c] # "none" /\ wpc'[c] \in WorkerSteps \ {"none", "header", "creat", "data"}
        BY <3>2 DEF NoHeader, Respond, Broken, Fail, At, Then, Types, WorkerSteps
      <4>3. cl[c] = "header" => wpc'[c] = "done"
        BY <3>2, <3>0 DEF NoHeader, Respond, Broken, Fail, At, Then, Types, BuffersOf
      <4> QED
        BY <3>0, <4>1, <4>2, <4>3 DEF BuffersOf
    <3>3. CASE CreatData(c)
      <4>1. wid[c] \in Ids
        BY <3>3 DEF CreatData, At, Numbers, HasNumber, WorkerSteps
      <4> QED
        BY <3>3, <3>0, <4>1 DEF CreatData, At, Then, Types, BuffersOf
    <3>4. CASE ReadChunk(c)
      <4>1. /\ wid[c] \in Ids /\ wpc[c] = "data" /\ net[c] > 0
            /\ UNCHANGED <<left, cl, wpc, wid>>
            /\ net' = [net EXCEPT ![c] = @ - 1]
            /\ data' = [data EXCEPT ![wid[c]] = Longer(data[wid[c]])]
        BY <3>4 DEF ReadChunk, At, Numbers, HasNumber, WorkerSteps
      <4>2. CASE data[wid[c]] = None
        BY <4>1, <4>2, <3>0 DEF Longer, BuffersOf, Types
      <4>3. CASE data[wid[c]] # None
        <5>1. /\ data[wid[c]] \in Docs /\ data[wid[c]].of = c
              /\ data[wid[c]].len + net[c] + left[c] = Chunks
          BY <4>1, <4>3, <3>0 DEF BuffersOf, Types
        <5>2. data[wid[c]].len < Chunks /\ data[wid[c]].len \in Nat
          BY <4>1, <5>1, NoneIs DEF Docs, Types
        <5>3. data'[wid[c]].of = c /\ data'[wid[c]].len = data[wid[c]].len + 1
          BY <4>1, <5>1, <5>2, DocGrows DEF Types
        <5> QED
          BY <4>1, <5>1, <5>2, <5>3, <3>0 DEF BuffersOf, Types
      <4> QED
        BY <4>2, <4>3
    <3>5. CASE EndOfData(c) \/ CreatControl(c) \/ WriteControl(c) \/ AddJob(c)
               \/ SignalJob(c) \/ UndoControl(c) \/ UndoData(c)
      <4>1. /\ wpc[c] \notin {"none", "header"}
            /\ wpc'[c] \in WorkerSteps \ {"none", "header", "creat", "data"}
            /\ UNCHANGED <<net, left, cl>>
        BY <3>5 DEF EndOfData, CreatControl, WriteControl, AddJob, SignalJob, UndoControl,
           UndoData, At, Then, Types, WorkerSteps
      <4>2. cl[c] = "header" => wpc[c] = "done"
        BY <3>0, <4>1 DEF BuffersOf
      <4>3. wpc[c] # "done"
        BY <3>5 DEF EndOfData, CreatControl, WriteControl, AddJob, SignalJob, UndoControl,
           UndoData, At
      <4> QED
        BY <3>0, <4>1, <4>2, <4>3 DEF BuffersOf
    <3> QED
      BY <1>4, <3>1, <3>2, <3>3, <3>4, <3>5 DEF ClientThread
  <2> QED
    BY <2>1, <2>2 DEF Buffers, BuffersOf
<1>5. ASSUME NEW c \in Clients, SendHeader(c) \/ SendChunk(c) \/ Quit(c) PROVE Buffers'
  <2>1. UNCHANGED <<wpc, wid, data>>
    BY <1>5 DEF SendHeader, SendChunk, Quit
  <2>2. ASSUME NEW d \in Clients, d # c PROVE BuffersOf(d)'
    BY <1>5, <2>1, <2>2 DEF SendHeader, SendChunk, Quit, Types, Buffers, BuffersOf
  <2>3. BuffersOf(c)
    BY DEF Buffers, BuffersOf
  <2>4. BuffersOf(c)'
    <3>1. CASE SendHeader(c)
      BY <3>1, <2>1, <2>3, NoneIs DEF SendHeader, Types, BuffersOf
    <3>2. CASE SendChunk(c)
      <4>1. wpc[c] # "none"
        BY <3>2, <2>3 DEF SendChunk, BuffersOf
      <4>2. net'[c] = net[c] + 1 /\ left'[c] = left[c] - 1 /\ left[c] \in Nat /\ net[c] \in Nat
            /\ left[c] > 0
            /\ cl'[c] = IF left[c] = 1 THEN "wait" ELSE "body"
        BY <3>2, <2>3, NoneIs DEF SendChunk, Types, BuffersOf
      <4>3. wpc[c] = "data" => wid[c] \in Ids
        BY DEF Numbers, HasNumber, WorkerSteps
      <4>4. wpc[c] = "data" /\ data[wid[c]] # None => data[wid[c]].len \in Nat
        BY <4>3, NoneIs DEF Types, Docs
      <4> QED
        BY <3>2, <2>1, <2>3, <4>1, <4>2, <4>4, NoneIs DEF SendChunk, BuffersOf
    <3>3. CASE Quit(c)
      BY <3>3, <2>1, <2>3 DEF Quit, Types, BuffersOf
    <3> QED
      BY <1>5, <3>1, <3>2, <3>3
  <2> QED
    BY <2>2, <2>4 DEF Buffers, BuffersOf
<1> QED
  BY <1>0, <1>1, <1>2, <1>3, <1>4, <1>5 DEF Next, Crash, Hangup, vars

-----------------------------------------------------------------------------
(* Places is inductive: add_job, build_qonstart, remove_job and            *)
(* replace_job each move a job from one place to another.                  *)
LEMMA PlacesStep ==
  ASSUME Types, Phases, Numbers, Owners, Buffers, Places, [Next]_vars PROVE Places'
<1> USE DEF disk, printer, workers, clients, daemon
<1>0. ASSUME UNCHANGED <<queue, jp>>,
             \A c \in Clients : wpc'[c] \notin {"signal", "done"} => wpc[c] \notin {"signal", "done"},
             \A c \in Clients : wid'[c] \in todo' => wid[c] \in todo
      PROVE Places'
  BY <1>0 DEF Places, InQueue, InHand
<1>1. ASSUME queue' = <<>>, jp' = None PROVE Places'
  <2>1. Len(queue') = 0 /\ DOMAIN queue' = 1 .. 0
    BY <1>1
  <2> QED
    BY <1>1, <2>1 DEF Places, InQueue, InHand
<1>2. CASE MainThread
  <2>1. CASE InitRequest
    BY <2>1, <1>1 DEF InitRequest, Phases
  <2>2. ASSUME NEW i \in Ids, ScanAdd(i) PROVE Places'
    <3> DEFINE c == reqs[i]
    <3>1. /\ c \in Clients /\ i \in todo /\ todo' = todo \ {i}
          /\ UNCHANGED <<reqs, jp, wpc, wid>> /\ wid[c] = i /\ wpc[c] \in Idle
          /\ Enqueue([id |-> i, of |-> c]) /\ [id |-> i, of |-> c] \in Jobs
      BY <2>2 DEF ScanAdd, Owners, Phases, Jobs
    <3>2. wpc[c] = "done"
      BY <3>1 DEF Idle, Numbers, Ids
    <3>3. ~InQueue(c) /\ ~InHand(c)
      BY <3>1, NoneIs DEF Places, Spooled, Ids
    <3> HIDE DEF c
    <3>4. /\ \A d \in Clients : InQueue(d)' <=> InQueue(d) \/ d = c
          /\ \A n \in 1 .. Len(queue') :
               \/ n \in 1 .. Len(queue) /\ queue'[n] = queue[n]
               \/ n = Len(queue) + 1 /\ queue'[n].of = c
      BY <3>1, EnqueueIs
    <3>5. \A n \in 1 .. Len(queue) : queue[n].of # c
      BY <3>3 DEF InQueue, Types
    <3>6. \A m, n \in 1 .. Len(queue') : queue'[m].of = queue'[n].of => m = n
      BY <3>4, <3>5 DEF Places
    <3>7. \A d \in Clients : InHand(d)' <=> InHand(d)
      BY <3>1 DEF InHand
    <3>8. \A d \in Clients : wid'[d] \in todo' => wid[d] \in todo /\ d # c
      BY <3>1 DEF Spooled
    <3>9. jp # None => jp.of \in Clients /\ jp.of # c
      BY <3>3 DEF InHand, Types, Jobs
    <3> QED
      BY <3>1, <3>2, <3>4, <3>6, <3>7, <3>8, <3>9 DEF Places
  <2>3. ASSUME NEW i \in Ids, ScanTorn(i) \/ ScanUnlink(i) \/ ScanSkip(i) PROVE Places'
    BY <2>3, <1>0, NoneIs DEF ScanTorn, ScanUnlink, ScanSkip, Spooled, Types
  <2>4. ASSUME NEW c \in Clients, Accept(c) PROVE Places'
    <3>1. main = "run" /\ todo' = {} /\ UNCHANGED <<queue, jp>>
      BY <2>4 DEF Accept, Phases
    <3>3. wpc[c] = "none"
      BY <2>4 DEF Accept, Buffers, BuffersOf
    <3> QED
      BY <2>4, <3>1, <3>3, <1>0 DEF Accept, Types
  <2> QED
    BY <1>2, <1>0, <2>1, <2>2, <2>3, <2>4
       DEF MainThread, ScanSignal, ScanDone, Spooled
<1>3. CASE PrinterThread
  <2>1. CASE Pick
    <3>1. /\ queue # <<>> /\ Dequeue /\ jp = None /\ jp' = Head(queue)
          /\ UNCHANGED <<reqs, wpc, wid, todo>>
      BY <2>1 DEF Pick, Printer, Phases
    <3>2. /\ queue' \in Seq(Jobs)
          /\ 1 \in 1 .. Len(queue) /\ jp' = queue[1] /\ jp' \in Jobs
          /\ \A n \in 1 .. Len(queue') : n + 1 \in 1 .. Len(queue) /\ queue'[n] = queue[n + 1]
          /\ \A d \in Clients : InQueue(d) <=> InQueue(d)' \/ jp'.of = d
      BY <3>1, DequeueIs DEF Types
    <3>3. ASSUME NEW m \in 1 .. Len(queue'), NEW n \in 1 .. Len(queue'),
                 queue'[m].of = queue'[n].of
          PROVE  m = n
      <4>1. /\ m + 1 \in 1 .. Len(queue) /\ n + 1 \in 1 .. Len(queue)
            /\ queue[m + 1].of = queue[n + 1].of
        BY <3>2, <3>3
      <4>2. m + 1 = n + 1
        BY <4>1 DEF Places
      <4> QED
        BY <4>2
    <3>4. ASSUME NEW d \in Clients, d = jp'.of PROVE ~InQueue(d)'
      <4>1. DOMAIN queue' = 1 .. Len(queue')
        BY <3>2
      <4> SUFFICES ASSUME NEW n \in 1 .. Len(queue'), queue'[n].of = d PROVE FALSE
        BY <4>1 DEF InQueue
      <4>2. queue[n + 1].of = queue[1].of /\ n + 1 # 1
        BY <3>2, <3>4
      <4> QED
        BY <3>2, <4>2 DEF Places
    <3>5. \A d \in Clients : InQueue(d)' \/ InHand(d)' <=> InQueue(d)
      BY <3>2, NoneIs DEF InHand
    <3>6. jp'.of \in Clients
      BY <3>2 DEF Jobs
    <3>7. ~(\E n \in DOMAIN queue' : queue'[n].of = jp'.of)
      BY <3>4, <3>6 DEF InQueue
    <3> QED
      BY <3>1, <3>3, <3>5, <3>7 DEF Places, Spooled, InQueue
  <2>2. CASE Defer
    <3>1. /\ jp \in Jobs /\ Requeue(jp) /\ jp' = None /\ jp # None
          /\ UNCHANGED <<reqs, wpc, wid, todo>>
      BY <2>2 DEF Defer, Phases, Types
    <3>2. /\ \A n \in 1 .. Len(queue') :
              \/ n = 1 /\ queue'[n] = jp
              \/ n - 1 \in 1 .. Len(queue) /\ queue'[n] = queue[n - 1]
          /\ \A d \in Clients : InQueue(d)' <=> InQueue(d) \/ jp.of = d
      BY <3>1, RequeueIs
    <3>3. \A n \in 1 .. Len(queue) : queue[n].of # jp.of
      BY <3>1 DEF Places, InQueue, Types
    <3>4. \A m, n \in 1 .. Len(queue') : queue'[m].of = queue'[n].of => m = n
      <4> SUFFICES ASSUME NEW m \in 1 .. Len(queue'), NEW n \in 1 .. Len(queue'),
                          queue'[m].of = queue'[n].of
                   PROVE  m = n
        OBVIOUS
      <4>1. CASE m = 1 /\ queue'[m] = jp
        BY <3>2, <3>3, <4>1
      <4>2. CASE n = 1 /\ queue'[n] = jp
        BY <3>2, <3>3, <4>2
      <4>3. CASE /\ m - 1 \in 1 .. Len(queue) /\ queue'[m] = queue[m - 1]
                 /\ n - 1 \in 1 .. Len(queue) /\ queue'[n] = queue[n - 1]
        <5>1. m - 1 = n - 1
          BY <4>3 DEF Places
        <5> QED
          BY <5>1
      <4> QED
        BY <3>2, <4>1, <4>2, <4>3
    <3>5. \A d \in Clients : InQueue(d)' \/ InHand(d)' <=> InQueue(d) \/ InHand(d)
      BY <3>1, <3>2 DEF InHand
    <3> QED
      BY <3>1, <3>4, <3>5 DEF Places, Spooled
  <2>3. CASE Cancel \/ UnlinkReq
    <3>1. /\ jp' = None /\ UNCHANGED <<queue, wpc, wid, todo>>
          /\ \A i \in Ids : reqs'[i] \in {reqs[i], None}
      BY <2>3 DEF Cancel, UnlinkReq, Types, Unlinked
    <3>2. \A c \in Clients : Spooled(c)' => Spooled(c)
      BY <3>1, NoneIs DEF Spooled, Types, Ids
    <3> QED
      BY <3>1, <3>2 DEF Places, InQueue, InHand
  <2>4. CASE Die
    BY <2>4, <1>1 DEF Die
  <2> QED
    BY <1>3, <1>0, <2>1, <2>2, <2>3, <2>4 DEF PrinterThread, Wait, UpdateJobno,
       UpdateFails, Config, NoPrinter, Open, Connect, Send, Refuse, Confirmed, UnlinkData,
       Wake, Spooled
<1>4. ASSUME NEW c \in Clients, ClientThread(c) PROVE Places'
  <2>1. main = "run" /\ todo = {}
    BY <1>4, ClientMoves DEF Phases
  <2>2. PICK m \in Moves : wpc[c] = m[1] /\ wpc' = [wpc EXCEPT ![c] = m[2]]
    BY <1>4, ClientMoves
  <2>3. CASE AddJob(c)
    <3>1. /\ [id |-> wid[c], of |-> c] \in Jobs /\ wpc[c] = "add" /\ wpc' = [wpc EXCEPT ![c] = "signal"]
          /\ Enqueue([id |-> wid[c], of |-> c]) /\ UNCHANGED <<jp, todo>>
      BY <2>3 DEF AddJob, At, Then, Numbers, HasNumber, WorkerSteps, Jobs
    <3>2. ~InQueue(c) /\ ~InHand(c)
      BY <3>1 DEF Places
    <3>3. /\ \A d \in Clients : InQueue(d)' <=> InQueue(d) \/ d = c
          /\ \A n \in 1 .. Len(queue') :
               \/ n \in 1 .. Len(queue) /\ queue'[n] = queue[n]
               \/ n = Len(queue) + 1 /\ queue'[n].of = c
      BY <3>1, EnqueueIs
    <3>4. \A n \in 1 .. Len(queue) : queue[n].of # c
      BY <3>2 DEF InQueue, Types
    <3>5. \A i, n \in 1 .. Len(queue') : queue'[i].of = queue'[n].of => i = n
      BY <3>3, <3>4 DEF Places
    <3>6. \A d \in Clients : InHand(d)' <=> InHand(d)
      BY <3>1 DEF InHand
    <3>7. jp # None => jp.of \in Clients /\ jp.of # c
      BY <3>2 DEF InHand, Types, Jobs
    <3> QED
      BY <2>1, <3>1, <3>3, <3>5, <3>6, <3>7 DEF Places, Types
  <2>4. CASE ~AddJob(c)
    <3>1. UNCHANGED <<queue, jp, todo>>
      BY <1>4, <2>4 DEF ClientThread, ReadHeader, NoHeader, CreatData, ReadChunk,
         EndOfData, CreatControl, WriteControl, Respond, SignalJob, Broken, Fail,
         UndoControl, UndoData
    <3> QED
      BY <2>1, <2>2, <3>1, <1>0 DEF Moves, Types
  <2> QED
    BY <2>3, <2>4
<1>5. ASSUME NEW c \in Clients, SendHeader(c) \/ SendChunk(c) \/ Quit(c) PROVE Places'
  BY <1>5, <1>0 DEF SendHeader, SendChunk, Quit, Spooled
<1> QED
  BY <1>0, <1>1, <1>2, <1>3, <1>4, <1>5 DEF Next, Crash, Die, Hangup, vars, Spooled

-----------------------------------------------------------------------------
(* Files is inductive: a number is issued once among the threads that      *)
(* run.                                                                    *)
LEMMA FilesStep ==
  ASSUME Types, Phases, Numbers, Owners, Buffers, Files, [Next]_vars PROVE Files'
<1> USE DEF disk, printer, workers, clients, daemon
<1>0. ASSUME UNCHANGED wid,
             \A c \in Clients : wpc'[c] = wpc[c] \/ wpc'[c] \in {"signal", "done"},
             \A i \in Ids : reqs'[i] \in {reqs[i], None} /\ data'[i] \in {data[i], None}
      PROVE Files'
  BY <1>0, NoneIs DEF Files, Spooled, Ids, Types, Numbers, HasNumber, WorkerSteps
<1>1. CASE Die
  <2>1. wpc' \in [Clients -> WorkerSteps]
    BY <1>1, DieTypes DEF Types
  <2> QED
    BY <1>0, <1>1, <2>1 DEF Die, Types
<1>2. CASE MainThread
  <2>1. ASSUME NEW c \in Clients, Accept(c) PROVE Files'
    <3>1. wpc[c] = "none"
      BY <2>1 DEF Accept, Buffers, BuffersOf
    <3> QED
      BY <2>1, <3>1 DEF Accept, Files, Spooled, Types
  <2> QED
    BY <1>2, <1>0, <2>1, NoneIs DEF MainThread, InitRequest, ScanSignal, ScanDone, ScanAdd,
       ScanTorn, ScanUnlink, ScanSkip, Types, Unlinked
<1>3. CASE PrinterThread
  <2>1. CASE UnlinkData \/ UnlinkReq
    BY <2>1, <1>0, NoneIs DEF UnlinkData, UnlinkReq, Types, Unlinked
  <2> QED
    BY <1>3, <1>0, <1>1, <2>1, NoneIs DEF PrinterThread, Pick, Wait, UpdateJobno,
       UpdateFails, Config, NoPrinter, Open, Cancel, Connect, Send, Refuse, Confirmed,
       Defer, Wake, Types
<1>4. ASSUME NEW c \in Clients, ClientThread(c) PROVE Files'
  <2>0. PICK m \in Moves : wpc[c] = m[1] /\ wpc' = [wpc EXCEPT ![c] = m[2]]
    BY <1>4, ClientMoves
  <2>1. CASE ReadHeader(c)
    <3>1. /\ wid[c] = 0 /\ wpc[c] = "header" /\ wpc' = [wpc EXCEPT ![c] = "creat"]
          /\ wid' = [wid EXCEPT ![c] = nextjob] /\ nextjob \in Ids
          /\ UNCHANGED <<data, reqs>>
      BY <2>1 DEF ReadHeader, At, Then, Numbers
    <3>2. \A i \in Ids : reqs[i] # c /\ (data[i] # None => data[i].of # c)
      BY <3>1 DEF Owners, Ids
    <3> QED
      BY <3>1, <3>2 DEF Files, Spooled, Types
  <2>2. CASE CreatData(c)
    <3>1. /\ wpc[c] = "creat" /\ wpc' = [wpc EXCEPT ![c] = "data"]
          /\ data' = [data EXCEPT ![wid[c]] = [of |-> c, len |-> 0]]
          /\ UNCHANGED <<wid, reqs>>
      BY <2>2 DEF CreatData, At, Then
    <3> QED
      BY <3>1 DEF Files, Spooled, Types, Numbers, HasNumber, WorkerSteps
  <2>3. CASE ReadChunk(c)
    <3>1. /\ wpc[c] = "data" /\ UNCHANGED <<wpc, wid, reqs>> /\ wid[c] \in Ids
          /\ data' = [data EXCEPT ![wid[c]] = Longer(data[wid[c]])]
      BY <2>3 DEF ReadChunk, At, Numbers, HasNumber, WorkerSteps
    <3>2. data[wid[c]] # None => Longer(data[wid[c]]).of = data[wid[c]].of
      BY <3>1, LongerOf DEF Types
    <3>3. data[wid[c]] = None => Longer(data[wid[c]]) = None
      BY DEF Longer
    <3> QED
      BY <3>1, <3>2, <3>3 DEF Files, Spooled, Types, Numbers, HasNumber, WorkerSteps
  <2>4. CASE WriteControl(c)
    <3>1. /\ wpc[c] = "ctlwrite" /\ wpc' = [wpc EXCEPT ![c] = "respond"]
          /\ reqs' = [reqs EXCEPT ![wid[c]] = c] /\ wid[c] \in Ids
          /\ UNCHANGED <<wid, data>>
      BY <2>4 DEF WriteControl, At, Then, Numbers, HasNumber, WorkerSteps
    <3> QED
      BY <3>1 DEF Files, Spooled, Types
  <2>5. CASE CreatControl(c) \/ UndoControl(c) \/ UndoData(c)
    <3>1. /\ wpc[c] \in {"ctl", "undo.ctl", "undo.data"} /\ UNCHANGED wid
          /\ wpc' \in {[wpc EXCEPT ![c] = "ctlwrite"], [wpc EXCEPT ![c] = "undo.data"],
                       [wpc EXCEPT ![c] = "done"]}
          /\ \A i \in Ids : /\ reqs'[i] \in {reqs[i], None, "torn"}
                            /\ data'[i] \in {data[i], None}
      BY <2>5 DEF CreatControl, UndoControl, UndoData, At, Then, Types, Unlinked
    <3>2. \A d \in Clients : Spooled(d)' => Spooled(d)
      BY <3>1, NoneIs DEF Spooled, Types, Ids
    <3>3. \A d \in Clients : wpc[d] = "creat" => wid[d] \in Ids
      BY DEF Numbers, HasNumber, WorkerSteps
    <3> QED
      BY <3>1, <3>2, <3>3 DEF Files, Types
  <2>6. CASE NoHeader(c) \/ EndOfData(c) \/ Respond(c) \/ AddJob(c) \/ SignalJob(c) \/ Broken(c)
    <3>1. /\ UNCHANGED <<data, reqs, wid>>
          /\ wpc'[c] # "creat"
          /\ wpc'[c] \in {"respond", "add", "signal", "done"}
             \/ wpc[c] \notin {"respond", "add", "signal", "done"}
      BY <2>6 DEF NoHeader, EndOfData, Respond, AddJob, SignalJob, Broken, Fail, At, Then, Types
    <3> QED
      BY <2>0, <3>1 DEF Files, Spooled, Types
  <2> QED
    BY <1>4, <2>1, <2>2, <2>3, <2>4, <2>5, <2>6 DEF ClientThread
<1>5. ASSUME NEW c \in Clients, SendHeader(c) \/ SendChunk(c) \/ Quit(c) PROVE Files'
  BY <1>5, <1>0 DEF SendHeader, SendChunk, Quit
<1> QED
  BY <1>0, <1>1, <1>2, <1>3, <1>4, <1>5 DEF Next, Crash, Hangup, vars

-----------------------------------------------------------------------------
SpoolInv ==
  Types /\ Phases /\ Numbers /\ Owners /\ Buffers /\ Places /\ Files

(* SpoolInv holds at the first start, is kept by every step, and so        *)
(* holds always.                                                           *)
LEMMA SpoolInit == Init => SpoolInv
<1> SUFFICES ASSUME Init PROVE SpoolInv
  OBVIOUS
<1> USE NoneIs DEF Init
<1>1. Types /\ Phases
  BY DEF Types, Phases, MainSteps, PrinterSteps, WorkerSteps, ClientStates, Idle, Sends
<1>2. Numbers /\ Owners
  BY DEF Numbers, HasNumber, Owners, Sends
<1>3. Buffers
  BY DEF Buffers, BuffersOf
<1>4. Places /\ Files
  BY DEF Places, Files, InQueue, InHand, Spooled
<1> QED
  BY <1>1, <1>2, <1>3, <1>4 DEF SpoolInv

LEMMA SpoolStep == SpoolInv /\ [Next]_vars => SpoolInv'
BY TypesStep, PhasesStep, NumbersStep, OwnersStep, BuffersStep, PlacesStep, FilesStep
   DEF SpoolInv

LEMMA SpoolHolds == Spec => []SpoolInv
BY SpoolInit, SpoolStep, PTL DEF Spec

(* A set with at most one element.                                         *)
LEMMA AtMostOne ==
  ASSUME NEW S, \A a, b \in S : a = b
  PROVE  Cardinality(S) <= 1
<1>1. CASE S = {}
  BY <1>1, FS_EmptySet
<1>2. CASE S # {}
  <2>1. PICK x : S = {x}
    BY <1>2
  <2> QED
    BY <2>1, FS_Singleton
<1> QED
  BY <1>1, <1>2

(* Places leaves at most one of the four places of OnePlace.               *)
LEMMA PlacesSayOnePlace == SpoolInv => OnePlace
<1> SUFFICES ASSUME SpoolInv, NEW c \in Clients
             PROVE  LET places == {n \in DOMAIN queue : queue[n].of = c}
                          \cup (IF InHand(c) THEN {0} ELSE {})
                          \cup (IF wpc[c] \in {"respond", "add"} THEN {-1} ELSE {})
                          \cup (IF Spooled(c) /\ wid[c] \in todo THEN {-2} ELSE {})
                    IN Cardinality(places) <= 1
  BY DEF OnePlace
<1> DEFINE Q == {n \in DOMAIN queue : queue[n].of = c}
           H == IF InHand(c) THEN {0} ELSE {}
           A == IF wpc[c] \in {"respond", "add"} THEN {-1} ELSE {}
           T == IF Spooled(c) /\ wid[c] \in todo THEN {-2} ELSE {}
<1>1. DOMAIN queue = 1 .. Len(queue)
  BY DEF SpoolInv, Types
<1>2. \A a, b \in Q : a = b
  BY <1>1 DEF SpoolInv, Places
<1>3. H # {} => Q = {}
  BY DEF SpoolInv, Places, InHand, InQueue
<1>4. A # {} => Q = {} /\ H = {}
  BY DEF SpoolInv, Places, InQueue
<1>5. T # {} => Q = {} /\ H = {} /\ A = {}
  <2>1. T # {} => todo # {}
    OBVIOUS
  <2>2. T # {} => wpc[c] \in Idle
    BY <2>1 DEF SpoolInv, Phases, Types, MainSteps
  <2> QED
    BY <2>2 DEF SpoolInv, Places, InQueue, Idle
<1>6. \A a, b \in Q \cup H \cup A \cup T : a = b
  BY <1>2, <1>3, <1>4, <1>5
<1> QED
  BY <1>6, AtMostOne

(* add_job, build_qonstart, remove_job, replace_job: whatever fails, and   *)
(* whatever is restarted, no job is in memory twice, so that the printer   *)
(* thread never has the same job to print again after it.                  *)
THEOREM NoJobTwice == Spec => []OnePlace
BY SpoolHolds, PlacesSayOnePlace, PTL

-----------------------------------------------------------------------------
(* A client keeps its number, a number issued twice stays so, and what is  *)
(* printed stays printed.                                                  *)
LEMMA Grows ==
  ASSUME SpoolInv, [Next]_vars
  PROVE  /\ \A c \in Clients : wid'[c] = wid[c] \/ ReadHeader(c)
         /\ \A c \in Clients : wid[c] # 0 => wid'[c] = wid[c]
         /\ \A c \in Clients : wid[c] # 0 /\ Reissued(c) => Reissued(c)'
         /\ printed \subseteq printed'
         /\ \A c \in Clients : Printed(c) => Printed(c)'
<1> USE DEF disk, printer, workers, clients, daemon
<1>1. \/ UNCHANGED wid
      \/ \E c \in Clients : ReadHeader(c) /\ wid[c] = 0 /\ wid' = [wid EXCEPT ![c] = nextjob]
  <2>1. ASSUME NEW c \in Clients, ReadHeader(c)
        PROVE  wid[c] = 0 /\ wid' = [wid EXCEPT ![c] = nextjob]
    BY <2>1 DEF ReadHeader, At, SpoolInv, Numbers
  <2>2. ASSUME NEW c \in Clients, ClientThread(c), ~ReadHeader(c) PROVE UNCHANGED wid
    BY <2>2 DEF ClientThread, NoHeader, CreatData, ReadChunk, EndOfData, CreatControl,
       WriteControl, Respond, AddJob, SignalJob, Broken, Fail, UndoControl, UndoData
  <2>3. ASSUME MainThread \/ Crash \/ Hangup \/ UNCHANGED vars PROVE UNCHANGED wid
    BY <2>3 DEF MainThread, InitRequest, ScanSignal, ScanDone, ScanAdd, ScanTorn,
       ScanUnlink, ScanSkip, Accept, Crash, Die, Hangup, vars
  <2>4. ASSUME PrinterThread PROVE UNCHANGED wid
    BY <2>4 DEF PrinterThread, Pick, Wait, UpdateJobno, UpdateFails, Config, NoPrinter,
       Die, Open, Cancel, Connect, Send, Refuse, Confirmed, UnlinkData, UnlinkReq, Defer,
       Wake
  <2> QED
    BY <2>1, <2>2, <2>3, <2>4 DEF Next, SendHeader, SendChunk, Quit
<1>0. \A c \in Clients : wid'[c] = wid[c] \/ ReadHeader(c)
  BY <1>1 DEF SpoolInv, Types
<1>2. \A c \in Clients : wid[c] # 0 => wid'[c] = wid[c]
  BY <1>1 DEF SpoolInv, Types
<1>3. ASSUME NEW c \in Clients, wid[c] # 0, Reissued(c) PROVE Reissued(c)'
  BY <1>2, <1>3 DEF Reissued
<1>4. printed \subseteq printed'
  <2>1. ASSUME PrinterThread PROVE printed \subseteq printed'
    BY <2>1 DEF PrinterThread, Pick, Wait, UpdateJobno, UpdateFails, Config, NoPrinter,
       Die, Open, Cancel, Connect, Send, Refuse, Confirmed, UnlinkData, UnlinkReq, Defer,
       Wake
  <2>2. ASSUME MainThread \/ Crash \/ Hangup \/ UNCHANGED vars PROVE UNCHANGED printed
    BY <2>2 DEF MainThread, InitRequest, ScanSignal, ScanDone, ScanAdd, ScanTorn,
       ScanUnlink, ScanSkip, Accept, Crash, Die, Hangup, vars
  <2>3. ASSUME NEW c \in Clients, ClientThread(c) PROVE UNCHANGED printed
    BY <2>3 DEF ClientThread, ReadHeader, NoHeader, CreatData, ReadChunk, EndOfData,
       CreatControl, WriteControl, Respond, AddJob, SignalJob, Broken, Fail, UndoControl,
       UndoData
  <2> QED
    BY <2>1, <2>2, <2>3 DEF Next, SendHeader, SendChunk, Quit
<1> QED
  BY <1>0, <1>2, <1>3, <1>4 DEF Printed

(* Where a client thread can go in a step of the whole system.             *)
LEMMA ThreadMoves ==
  ASSUME SpoolInv, [Next]_vars
  PROVE  \A c \in Clients :
           \/ wpc'[c] = wpc[c]
           \/ wpc'[c] = "done" /\ main' = "down"
           \/ wpc[c] = "none" /\ main = "run" /\ wpc'[c] = "header"
           \/ ClientThread(c) /\ \E m \in Moves : wpc[c] = m[1] /\ wpc'[c] = m[2]
<1> USE DEF disk, printer, workers, clients, daemon
<1>0. Types /\ Phases
  BY DEF SpoolInv
<1>1. ASSUME NEW c \in Clients, ClientThread(c)
      PROVE  /\ \A d \in Clients \ {c} : wpc'[d] = wpc[d]
             /\ \E m \in Moves : wpc[c] = m[1] /\ wpc'[c] = m[2]
  BY <1>1, ClientMoves, <1>0 DEF Types
<1>2. ASSUME NEW c \in Clients, Accept(c)
      PROVE  wpc[c] = "none" /\ main = "run" /\ wpc' = [wpc EXCEPT ![c] = "header"]
  BY <1>2 DEF Accept, SpoolInv, Buffers, BuffersOf
<1>3. CASE MainThread \/ Crash \/ Hangup \/ UNCHANGED vars
  BY <1>2, <1>3, <1>0 DEF MainThread, InitRequest, ScanSignal, ScanDone, ScanAdd, ScanTorn,
     ScanUnlink, ScanSkip, Crash, Die, Hangup, vars, Types
<1>4. CASE PrinterThread
  BY <1>4, <1>0 DEF PrinterThread, Pick, Wait, UpdateJobno, UpdateFails, Config, NoPrinter,
     Die, Open, Cancel, Connect, Send, Refuse, Confirmed, UnlinkData, UnlinkReq, Defer,
     Wake, Types
<1> QED
  BY <1>1, <1>3, <1>4 DEF Next, SendHeader, SendChunk, Quit

(* Only its own thread writes a client's control file.                     *)
LEMMA ControlMoves ==
  ASSUME SpoolInv, [Next]_vars
  PROVE  \A c \in Clients, i \in Ids : reqs'[i] = c => reqs[i] = c \/ WriteControl(c)
<1> USE DEF disk, printer, workers, clients, daemon
<1>0. Types /\ Phases
  BY DEF SpoolInv
<1>1. ASSUME NEW c \in Clients, ClientThread(c)
      PROVE  \A i \in Ids : reqs'[i] \in {reqs[i], "torn", None} \/ (reqs'[i] = c /\ WriteControl(c))
  BY <1>1, <1>0 DEF ClientThread, ReadHeader, NoHeader, CreatData, ReadChunk, EndOfData,
     CreatControl, WriteControl, Respond, AddJob, SignalJob, Broken, Fail, UndoControl,
     UndoData, Types, Unlinked
<1>2. CASE MainThread \/ Crash \/ Hangup \/ UNCHANGED vars
  BY <1>2, <1>0, NoneIs DEF MainThread, InitRequest, ScanSignal, ScanDone, ScanAdd,
     ScanTorn, ScanUnlink, ScanSkip, Accept, Crash, Die, Hangup, vars, Types
<1>3. CASE PrinterThread
  BY <1>3, <1>0, NoneIs DEF PrinterThread, Pick, Wait, UpdateJobno, UpdateFails, Config,
     NoPrinter, Die, Open, Cancel, Connect, Send, Refuse, Confirmed, UnlinkData, UnlinkReq,
     Defer, Wake, Types, Unlinked
<1> QED
  BY <1>1, <1>2, <1>3, NoneIs DEF Next, SendHeader, SendChunk, Quit

(* A job in memory was there before, or comes from its control file or its *)
(* client thread.                                                          *)
LEMMA JobMoves ==
  ASSUME SpoolInv, [Next]_vars
  PROVE  \A c \in Clients : InQueue(c)' \/ InHand(c)' =>
           InQueue(c) \/ InHand(c) \/ Spooled(c) \/ AddJob(c)
<1> USE DEF disk, printer, workers, clients, daemon
<1>0. Types /\ Phases
  BY DEF SpoolInv
<1> SUFFICES ASSUME NEW c \in Clients, InQueue(c)' \/ InHand(c)'
             PROVE  InQueue(c) \/ InHand(c) \/ Spooled(c) \/ AddJob(c)
  OBVIOUS
<1>1. CASE UNCHANGED <<queue, jp>>
  BY <1>1 DEF InQueue, InHand
<1>2. CASE Die
  BY <1>2 DEF Die, InQueue, InHand
<1>3. CASE MainThread
  <2>1. ASSUME NEW i \in Ids, ScanAdd(i) PROVE InQueue(c) \/ InHand(c) \/ Spooled(c)
    <3>1. [id |-> i, of |-> reqs[i]] \in Jobs /\ Enqueue([id |-> i, of |-> reqs[i]])
          /\ UNCHANGED jp /\ wid[reqs[i]] = i /\ i # 0
      BY <2>1 DEF ScanAdd, Jobs, SpoolInv, Owners, Ids
    <3>2. InQueue(c)' <=> InQueue(c) \/ reqs[i] = c
      BY <3>1, <1>0, EnqueueIs
    <3> QED
      BY <3>1, <3>2 DEF InHand, Spooled
  <2> QED
    BY <1>1, <1>3, <2>1 DEF MainThread, InitRequest, ScanSignal, ScanDone, ScanTorn,
       ScanUnlink, ScanSkip, Accept
<1>4. CASE PrinterThread
  <2>1. CASE Pick
    <3>1. /\ queue # <<>> /\ Dequeue /\ jp' = Head(queue)
      BY <2>1 DEF Pick
    <3>2. InQueue(c) <=> InQueue(c)' \/ Head(queue).of = c
      BY <3>1, <1>0, DequeueIs
    <3> QED
      BY <3>1, <3>2 DEF InHand
  <2>2. CASE Defer
    <3>1. jp \in Jobs /\ jp # None /\ Requeue(jp) /\ jp' = None
      BY <2>2, <1>0 DEF Defer, Phases, Types
    <3>2. InQueue(c)' <=> InQueue(c) \/ jp.of = c
      BY <3>1, <1>0, RequeueIs
    <3> QED
      BY <3>1, <3>2 DEF InHand
  <2>3. CASE Cancel \/ UnlinkReq
    BY <2>3 DEF Cancel, UnlinkReq, InQueue, InHand
  <2> QED
    BY <1>1, <1>2, <1>4, <2>1, <2>2, <2>3 DEF PrinterThread, Wait, UpdateJobno, UpdateFails,
       Config, NoPrinter, Open, Connect, Send, Refuse, Confirmed, UnlinkData, Wake
<1>5. ASSUME NEW d \in Clients, ClientThread(d)
      PROVE  InQueue(c) \/ InHand(c) \/ Spooled(c) \/ AddJob(c)
  <2>1. CASE AddJob(d)
    <3>1. [id |-> wid[d], of |-> d] \in Jobs /\ Enqueue([id |-> wid[d], of |-> d])
          /\ UNCHANGED jp
      BY <2>1 DEF AddJob, At, Jobs, SpoolInv, Numbers, HasNumber, WorkerSteps
    <3>2. InQueue(c)' <=> InQueue(c) \/ d = c
      BY <3>1, <1>0, EnqueueIs
    <3> QED
      BY <2>1, <3>1, <3>2 DEF InHand
  <2> QED
    BY <1>1, <1>5, <2>1 DEF ClientThread, ReadHeader, NoHeader, CreatData, ReadChunk,
       EndOfData, CreatControl, WriteControl, Respond, SignalJob, Broken, Fail, UndoControl,
       UndoData
<1> QED
  BY <1>1, <1>2, <1>3, <1>4, <1>5 DEF Next, Crash, Hangup, vars, SendHeader, SendChunk, Quit

(* A data file changes by the hand of the client thread that fills it, or  *)
(* it is unlinked.                                                         *)
LEMMA DataMoves ==
  ASSUME SpoolInv, [Next]_vars
  PROVE  \A i \in Ids :
           \/ data'[i] \in {data[i], None}
           \/ \E c \in Clients :
                /\ wid[c] = i /\ wid'[c] = i
                /\ \/ wpc[c] = "creat" /\ wpc'[c] = "data" /\ data'[i] = [of |-> c, len |-> 0]
                   \/ /\ wpc[c] = "data" /\ wpc'[c] = "data"
                      /\ data[i] \in Docs /\ data[i].of = c
                      /\ data'[i] \in Docs /\ data'[i].of = c
<1> USE DEF disk, printer, workers, clients, daemon
<1>0. Types
  BY DEF SpoolInv
<1> SUFFICES ASSUME NEW i \in Ids, data'[i] \notin {data[i], None}
             PROVE  \E c \in Clients :
                /\ wid[c] = i /\ wid'[c] = i
                /\ \/ wpc[c] = "creat" /\ wpc'[c] = "data" /\ data'[i] = [of |-> c, len |-> 0]
                   \/ /\ wpc[c] = "data" /\ wpc'[c] = "data"
                      /\ data[i] \in Docs /\ data[i].of = c
                      /\ data'[i] \in Docs /\ data'[i].of = c
  OBVIOUS
<1>1. ~(MainThread \/ Crash \/ Hangup \/ UNCHANGED vars)
  BY <1>0 DEF MainThread, InitRequest, ScanSignal, ScanDone, ScanAdd,
     ScanTorn, ScanUnlink, ScanSkip, Accept, Crash, Die, Hangup, vars, Types, Unlinked
<1>2. ~PrinterThread
  BY <1>0 DEF PrinterThread, Pick, Wait, UpdateJobno, UpdateFails, Config,
     NoPrinter, Die, Open, Cancel, Connect, Send, Refuse, Confirmed, UnlinkData, UnlinkReq,
     Defer, Wake, Types, Unlinked
<1>3. PICK c \in Clients : CreatData(c) \/ ReadChunk(c)
  BY <1>0, <1>1, <1>2 DEF Next, ClientThread, ReadHeader, NoHeader, EndOfData,
     CreatControl, WriteControl, Respond, AddJob, SignalJob, Broken, Fail, UndoControl,
     UndoData, SendHeader, SendChunk, Quit, Types, Unlinked
<1>4. CASE CreatData(c)
  BY <1>0, <1>4 DEF CreatData, At, Then, Types
<1>5. CASE ReadChunk(c)
  <2>1. /\ wid[c] = i /\ UNCHANGED <<wid, wpc>> /\ wpc[c] = "data" /\ net[c] > 0
        /\ data'[i] = Longer(data[i])
    BY <1>0, <1>5 DEF ReadChunk, At, Types
  <2>2. data[i] # None
    BY <2>1 DEF Longer
  <2>3. data[i] \in Docs /\ data[i].of = c /\ data[i].len + net[c] + left[c] = Chunks
    BY <1>0, <2>1, <2>2 DEF Types, SpoolInv, Buffers, BuffersOf
  <2>4. data[i].len < Chunks
    BY <1>0, <2>1, <2>3, NoneIs DEF Docs, Types
  <2> QED
    BY <2>1, <2>3, <2>4, DocGrows
<1> QED
  BY <1>3, <1>4, <1>5

(* Ghosts is inductive: the printer thread removes a data file before      *)
(* its control file, and only after the printer has taken the document.    *)
LEMMA GhostsStep ==
  ASSUME "disk" \notin Faults, SpoolInv, Ghosts, [Next]_vars
  PROVE  Ghosts'
<1> USE DEF disk, printer, workers, clients, daemon
<1> DEFINE G1 == ppc = "status" /\ status = "ok" => doc \in printed
           G2 == ppc \in {"unlink.data", "unlink.req"} => Reissued(jp.of) \/ Printed(jp.of)
           G3 == \A c \in Clients : wpc[c] \in {"data", "ctl", "ctlwrite"} =>
                    Reissued(c) \/ data[wid[c]] # None
<1>a. /\ \A c \in Clients : wid[c] # 0 => wid'[c] = wid[c]
      /\ \A c \in Clients : wid[c] # 0 /\ Reissued(c) => Reissued(c)'
      /\ printed \subseteq printed'
      /\ \A c \in Clients : Printed(c) => Printed(c)'
  BY Grows
<1>b. \A c, d \in Clients : c # d /\ wid[c] = wid[d] => Reissued(c)
  BY DEF Reissued
<1>c. ppc \notin {"off", "check", "waiting", "sleep"} =>
        jp \in Jobs /\ jp.of \in Clients /\ jp.id \in Ids /\ wid[jp.of] = jp.id /\ wid[jp.of] # 0
  BY DEF SpoolInv, Types, Phases, Owners, Jobs, Ids
<1>d. \A c \in Clients : HasNumber(c) => wid[c] # 0 /\ wid[c] \in Ids
  BY DEF SpoolInv, Numbers, Ids
<1>e. \A c \in Clients : wpc[c] \in {"data", "ctl", "ctlwrite"} => HasNumber(c)
  BY DEF HasNumber, WorkerSteps
<1>f. \A i \in Ids : reqs[i] \in Clients => wid[reqs[i]] = i /\ i # 0
  BY DEF SpoolInv, Owners, Ids
<1>1. G1'
  <2>1. CASE Send
    BY <2>1 DEF Send
  <2>2. CASE PrinterThread /\ ~Send
    BY <2>2, <1>a DEF PrinterThread, Pick, Wait, UpdateJobno, UpdateFails, Config, NoPrinter,
       Die, Open, Cancel, Connect, Refuse, Confirmed, UnlinkData, UnlinkReq, Defer, Wake,
       Printer
  <2>3. ASSUME UNCHANGED <<doc, status>>, ppc' = "status" => ppc = "status" PROVE G1'
    BY <2>3, <1>a DEF Ghosts
  <2>4. CASE MainThread \/ Crash \/ Hangup \/ UNCHANGED vars
    BY <2>4, <2>3 DEF MainThread, InitRequest, ScanSignal, Signal, ScanDone, ScanAdd,
       ScanTorn, ScanUnlink, ScanSkip, Accept, Crash, Die, Hangup, vars
  <2>5. ASSUME NEW c \in Clients, ClientThread(c) PROVE G1'
    BY <2>5, <2>3 DEF ClientThread, ReadHeader, NoHeader, CreatData, ReadChunk, EndOfData,
       CreatControl, WriteControl, Respond, AddJob, SignalJob, Signal, Broken, Fail,
       UndoControl, UndoData
  <2> QED
    BY <2>1, <2>2, <2>3, <2>4, <2>5 DEF Next, SendHeader, SendChunk, Quit
<1>2. G2'
  <2>1. CASE Confirmed
    <3>1. /\ doc \in Docs /\ doc \in printed /\ wid[doc.of] = wid[jp.of] /\ doc.of \in Clients
          /\ jp' = jp /\ jp.of \in Clients /\ wid[jp.of] # 0
      BY <2>1, <1>c DEF Confirmed, Printer, Ghosts, SpoolInv, Types, Phases, Owners, Sends, Docs
    <3>2. Reissued(jp.of) \/ Printed(jp.of)
      BY <3>1, <1>b DEF Printed
    <3> QED
      BY <3>1, <3>2, <1>a DEF Reissued, Printed
  <2>2. ASSUME UNCHANGED jp,
               ppc' \in {"unlink.data", "unlink.req"} => ppc \in {"unlink.data", "unlink.req"}
        PROVE  G2'
    BY <2>2, <1>a, <1>c DEF Ghosts, Reissued, Printed
  <2>3. CASE PrinterThread /\ ~Confirmed
    BY <2>3, <2>2 DEF PrinterThread, Pick, Wait, UpdateJobno, UpdateFails, Config, NoPrinter,
       Die, Open, Cancel, Connect, Send, Refuse, UnlinkData, UnlinkReq, Defer, Wake, Printer
  <2>4. CASE MainThread \/ Crash \/ Hangup \/ UNCHANGED vars
    BY <2>4, <2>2 DEF MainThread, InitRequest, ScanSignal, Signal, ScanDone, ScanAdd,
       ScanTorn, ScanUnlink, ScanSkip, Accept, Crash, Die, Hangup, vars
  <2>5. ASSUME NEW c \in Clients, ClientThread(c) PROVE G2'
    BY <2>5, <2>2 DEF ClientThread, ReadHeader, NoHeader, CreatData, ReadChunk, EndOfData,
       CreatControl, WriteControl, Respond, AddJob, SignalJob, Signal, Broken, Fail,
       UndoControl, UndoData
  <2> QED
    BY <2>1, <2>2, <2>3, <2>4, <2>5 DEF Next, SendHeader, SendChunk, Quit
<1>3. G3' /\ GhostsArePrinted'
  <2>0. ASSUME \A c \in Clients : wpc'[c] \in {"data", "ctl", "ctlwrite"} =>
                    wpc[c] \in {"data", "ctl", "ctlwrite"},
               \A i \in Ids : data[i] # None => data'[i] # None,
               \A i \in Ids : reqs'[i] \in Clients => reqs'[i] = reqs[i]
        PROVE  G3' /\ GhostsArePrinted'
    <3>1. G3'
      BY <2>0, <1>a, <1>d, <1>e DEF Ghosts
    <3>2. ASSUME NEW i \in Ids, reqs'[i] \in Clients, data'[i] = None, ~Reissued(reqs[i])'
          PROVE  Printed(reqs[i])'
      <4>1. reqs[i] = reqs'[i] /\ reqs[i] \in Clients /\ wid[reqs[i]] # 0 /\ data[i] = None
        BY <2>0, <3>2, <1>f
      <4>2. ~Reissued(reqs[i])
        BY <3>2, <4>1, <1>a DEF Reissued
      <4>3. Printed(reqs[i])
        BY <4>1, <4>2 DEF Ghosts, GhostsArePrinted
      <4> QED
        BY <4>1, <4>3, <1>a DEF Printed
    <3> QED
      BY <3>1, <3>2 DEF GhostsArePrinted
  (* A data file is unlinked, number n, and no control file comes to be. *)
  <2>1. ASSUME NEW n \in Ids,
               \A c \in Clients : wpc'[c] \in {"data", "ctl", "ctlwrite"} =>
                    wpc[c] \in {"data", "ctl", "ctlwrite"} /\ (wid[c] # n \/ Reissued(c)),
               data' = [data EXCEPT ![n] = None], UNCHANGED reqs,
               reqs[n] \in Clients => Reissued(reqs[n]) \/ Printed(reqs[n])
        PROVE  G3' /\ GhostsArePrinted'
    <3>1. G3'
      BY <2>1, <1>a, <1>d, <1>e DEF Ghosts, SpoolInv, Types
    <3>2. ASSUME NEW i \in Ids, reqs'[i] \in Clients, data'[i] = None, ~Reissued(reqs[i])'
          PROVE  Printed(reqs[i])'
      <4>1. reqs[i] = reqs'[i] /\ reqs[i] \in Clients /\ wid[reqs[i]] # 0
        BY <2>1, <3>2, <1>f
      <4>2. ~Reissued(reqs[i])
        BY <3>2, <4>1, <1>a DEF Reissued
      <4>3. Printed(reqs[i])
        BY <2>1, <3>2, <4>1, <4>2 DEF Ghosts, GhostsArePrinted, SpoolInv, Types
      <4> QED
        BY <4>1, <4>3, <1>a DEF Printed
    <3> QED
      BY <3>1, <3>2 DEF GhostsArePrinted
  <2>2. CASE MainThread
    <3>1. ASSUME NEW i \in Ids, ScanUnlink(i) PROVE G3' /\ GhostsArePrinted'
      BY <3>1, <2>1, NoneIs DEF ScanUnlink, SpoolInv, Phases, Idle, Unlinked, May
    <3>2. ASSUME NEW i \in Ids, ScanTorn(i) PROVE G3' /\ GhostsArePrinted'
      BY <3>2, <2>0, NoneIs DEF ScanTorn, SpoolInv, Types, Unlinked, May
    <3>3. ASSUME NEW c \in Clients, Accept(c) PROVE G3' /\ GhostsArePrinted'
      BY <3>3, <2>0 DEF Accept, SpoolInv, Types
    <3> QED
      BY <2>2, <2>0, <3>1, <3>2, <3>3 DEF MainThread, InitRequest, ScanSignal, ScanDone,
         ScanAdd, ScanSkip
  <2>3. CASE PrinterThread
    <3>1. CASE UnlinkData
      <4>1. /\ ppc = "unlink.data" /\ data' = [data EXCEPT ![jp.id] = None]
            /\ UNCHANGED <<wpc, reqs>>
            /\ jp \in Jobs /\ jp.of \in Clients /\ jp.id \in Ids /\ wid[jp.of] = jp.id
        BY <3>1, <1>c DEF UnlinkData, Printer, Unlinked, May
      <4>2. ASSUME NEW c \in Clients, wpc[c] \in {"data", "ctl", "ctlwrite"}
            PROVE  wid[c] # jp.id \/ Reissued(c)
        <5>1. c # jp.of
          BY <4>1, <4>2, NoneIs DEF SpoolInv, Places, InHand
        <5> QED
          BY <5>1, <4>1, <1>b
      <4>3. ASSUME reqs[jp.id] \in Clients
            PROVE  Reissued(reqs[jp.id]) \/ Printed(reqs[jp.id])
        <5>1. wid[reqs[jp.id]] = wid[jp.of]
          BY <4>1, <4>3, <1>f
        <5> QED
          BY <4>1, <4>3, <5>1, <1>b DEF Ghosts
      <4> QED
        BY <4>1, <4>2, <4>3, <2>1
    <3>2. CASE UnlinkReq
      BY <3>2, <2>0, NoneIs DEF UnlinkReq, SpoolInv, Types, Unlinked, May
    <3>3. CASE Die
      BY <3>3, <2>0 DEF Die, SpoolInv, Types
    <3> QED
      BY <2>3, <2>0, <3>1, <3>2, <3>3 DEF PrinterThread, Pick, Wait, UpdateJobno,
         UpdateFails, Config, NoPrinter, Open, Cancel, Connect, Send, Refuse, Confirmed,
         Defer, Wake
  <2>4. ASSUME NEW c \in Clients, ClientThread(c) PROVE G3' /\ GhostsArePrinted'
    <3>0. Types /\ Phases
      BY DEF SpoolInv
    <3>1. PICK m \in Moves : wpc[c] = m[1] /\ wpc' = [wpc EXCEPT ![c] = m[2]]
      BY <2>4, <3>0, ClientMoves
    <3>2. CASE CreatData(c)
      <4>1. /\ data' = [data EXCEPT ![wid[c]] = [of |-> c, len |-> 0]]
            /\ wpc' = [wpc EXCEPT ![c] = "data"] /\ UNCHANGED <<reqs, wid>>
            /\ wid[c] \in Ids /\ [of |-> c, len |-> 0] # None
        BY <3>2, <1>d, NoneIs DEF CreatData, Then, At, HasNumber, WorkerSteps, Docs
      <4>2. G3'
        BY <4>1, <1>a, <1>d, <1>e, <3>0 DEF Ghosts, Types
      <4>3. ASSUME NEW i \in Ids, reqs'[i] \in Clients, data'[i] = None, ~Reissued(reqs[i])'
            PROVE  Printed(reqs[i])'
        <5>1. data[i] = None /\ reqs'[i] = reqs[i] /\ wid[reqs[i]] # 0
          BY <4>1, <4>3, <3>0, <1>f DEF Types
        <5>2. ~Reissued(reqs[i])
          BY <4>3, <5>1, <1>a DEF Reissued
        <5>3. Printed(reqs[i])
          BY <4>3, <5>1, <5>2 DEF Ghosts, GhostsArePrinted
        <5> QED
          BY <4>3, <5>1, <5>3, <1>a DEF Printed
      <4> QED
        BY <4>2, <4>3 DEF GhostsArePrinted
    <3>3. CASE ReadChunk(c)
      <4>1. /\ wpc[c] = "data" /\ net[c] > 0 /\ wid[c] \in Ids /\ UNCHANGED <<reqs, wpc>>
            /\ data' = [data EXCEPT ![wid[c]] = Longer(data[wid[c]])]
        BY <3>3, <1>d, <1>e DEF ReadChunk, At
      <4>2. data[wid[c]] # None => Longer(data[wid[c]]) # None
        <5> SUFFICES ASSUME data[wid[c]] # None PROVE Longer(data[wid[c]]) # None
          OBVIOUS
        <5>1. data[wid[c]] \in Docs /\ data[wid[c]].len + net[c] + left[c] = Chunks
          BY <4>1 DEF SpoolInv, Types, Buffers, BuffersOf
        <5>2. data[wid[c]].len < Chunks
          BY <4>1, <5>1, <3>0, NoneIs DEF Docs, Types
        <5> QED
          BY <5>1, <5>2, DocGrows, NoneIs
      <4> QED
        BY <4>1, <4>2, <2>0, <3>0 DEF Types
    <3>4. CASE WriteControl(c)
      <4>1. /\ wpc[c] = "ctlwrite" /\ reqs' = [reqs EXCEPT ![wid[c]] = c]
            /\ wpc' = [wpc EXCEPT ![c] = "respond"] /\ UNCHANGED <<data, wid>>
        BY <3>4 DEF WriteControl, At, Then
      <4>2. G3'
        BY <4>1, <1>a, <1>d, <1>e, <3>0 DEF Ghosts, Types
      <4>3. ASSUME NEW i \in Ids, reqs'[i] \in Clients, data'[i] = None, ~Reissued(reqs[i])'
            PROVE  Printed(reqs[i])'
        <5>1. CASE i = wid[c]
          <6>1. reqs'[i] = c /\ wid[c] # 0
            BY <4>1, <5>1, <3>0, <4>3 DEF Types, Ids
          <6>2. ~Reissued(c)
            BY <4>3, <6>1, <1>a DEF Reissued
          <6> QED
            BY <4>1, <4>3, <5>1, <6>2 DEF Ghosts
        <5>2. CASE i # wid[c]
          <6>1. reqs'[i] = reqs[i] /\ reqs[i] \in Clients /\ wid[reqs[i]] # 0
            BY <4>1, <4>3, <5>2, <3>0, <1>f DEF Types
          <6>2. ~Reissued(reqs[i])
            BY <4>3, <6>1, <1>a DEF Reissued
          <6>3. Printed(reqs[i])
            BY <4>1, <4>3, <6>1, <6>2 DEF Ghosts, GhostsArePrinted
          <6> QED
            BY <6>1, <6>3, <1>a DEF Printed
        <5> QED
          BY <5>1, <5>2
      <4> QED
        BY <4>2, <4>3 DEF GhostsArePrinted
    <3>5. CASE UndoData(c)
      <4>1. /\ wpc[c] = "undo.data" /\ data' = [data EXCEPT ![wid[c]] = None] /\ wid[c] \in Ids
            /\ wpc' = [wpc EXCEPT ![c] = "done"] /\ UNCHANGED reqs
        BY <3>5, <1>d DEF UndoData, At, Then, HasNumber, WorkerSteps, Unlinked, May
      <4>2. ASSUME NEW d \in Clients, wpc'[d] \in {"data", "ctl", "ctlwrite"}
            PROVE  wpc[d] \in {"data", "ctl", "ctlwrite"} /\ (wid[d] # wid[c] \/ Reissued(d))
        BY <4>1, <4>2, <1>b, <3>0 DEF Types
      <4>3. ASSUME reqs[wid[c]] \in Clients PROVE Reissued(reqs[wid[c]])
        <5>1. reqs[wid[c]] # c
          BY <4>1 DEF SpoolInv, Files, Spooled, Ids
        <5> QED
          BY <4>1, <4>3, <5>1, <1>b, <1>f
      <4> QED
        BY <4>1, <4>2, <4>3, <2>1
    <3>6. CASE CreatControl(c) \/ UndoControl(c)
      <4>1. /\ wpc[c] \in {"ctl", "undo.ctl"} /\ UNCHANGED data
            /\ \/ wpc' = [wpc EXCEPT ![c] = "ctlwrite"] /\ wpc[c] = "ctl"
               \/ wpc' = [wpc EXCEPT ![c] = "undo.data"]
            /\ \A i \in Ids : reqs'[i] \in {reqs[i], "torn", None}
        BY <3>6, <3>0 DEF CreatControl, UndoControl, At, Then, Types, Unlinked, May
      <4> QED
        BY <4>1, <2>0, <3>0, NoneIs DEF Types
    <3>7. CASE UNCHANGED <<data, reqs>> /\ ~CreatData(c)
      <4>1. m # <<"creat", "data">>
        BY <2>4, <3>1, <3>7 DEF ClientThread, ReadHeader, NoHeader, ReadChunk, EndOfData,
           CreatControl, WriteControl, Respond, AddJob, SignalJob, Broken, Fail, UndoControl,
           UndoData, At, Then, Types, SpoolInv
      <4> QED
        BY <3>0, <3>1, <3>7, <4>1, <2>0 DEF Moves, Types
    <3> QED
      BY <2>4, <3>2, <3>3, <3>4, <3>5, <3>6, <3>7 DEF ClientThread, ReadHeader, NoHeader,
         EndOfData, Respond, AddJob, SignalJob, Broken, Fail
  <2>5. CASE Crash \/ Hangup \/ UNCHANGED vars
    BY <2>5, <2>0 DEF Crash, Die, Hangup, vars, SpoolInv, Types
  <2> QED
    BY <2>0, <2>2, <2>3, <2>4, <2>5 DEF Next, SendHeader, SendChunk, Quit
<1> QED
  BY <1>1, <1>2, <1>3 DEF Ghosts

-----------------------------------------------------------------------------
(* Kept is inductive: a restart finds in the spool directory what was in   *)
(* the queue, and defer puts back what Pick has taken.                     *)
LEMMA KeptStep ==
  ASSUME "disk" \notin Faults, SpoolInv, Ghosts, Kept, [Next]_vars
  PROVE  Kept'
<1> USE DEF disk, printer, workers, clients, daemon
<1>a. /\ \A c \in Clients : wid'[c] = wid[c] \/ ReadHeader(c)
      /\ \A c \in Clients : wid[c] # 0 => wid'[c] = wid[c]
      /\ \A c \in Clients : wid[c] # 0 /\ Reissued(c) => Reissued(c)'
      /\ \A c \in Clients : Printed(c) => Printed(c)'
  BY Grows
<1>b. \A c, d \in Clients : c # d /\ wid[c] = wid[d] => Reissued(c)
  BY DEF Reissued
<1>c. ppc \notin {"off", "check", "waiting", "sleep"} =>
        jp \in Jobs /\ jp.of \in Clients /\ jp.id \in Ids /\ wid[jp.of] = jp.id /\ wid[jp.of] # 0
  BY DEF SpoolInv, Types, Phases, Owners, Jobs, Ids
<1>d. \A c \in Clients : HasNumber(c) => wid[c] # 0 /\ wid[c] \in Ids
  BY DEF SpoolInv, Numbers, Ids
<1>e. Types /\ Phases
  BY DEF SpoolInv
<1>f. ~May("disk")
  BY DEF May
<1>g. SpoolInv'
  BY SpoolStep
<1>h. \A c \in Clients : cl'[c] = "acked" => cl[c] = "acked" \/ Respond(c)
  <2>1. ASSUME NEW c \in Clients, ClientThread(c)
        PROVE  \/ UNCHANGED cl
               \/ Answer(c, "rejected")
               \/ Respond(c) /\ Answer(c, "acked")
    BY <2>1 DEF ClientThread, ReadHeader, NoHeader, CreatData, ReadChunk, EndOfData,
       CreatControl, WriteControl, Respond, AddJob, SignalJob, Broken, Fail, UndoControl,
       UndoData
  <2>2. CASE MainThread \/ Crash \/ Hangup \/ UNCHANGED vars
    BY <2>2, <1>e DEF MainThread, InitRequest, ScanSignal, ScanDone, ScanAdd, ScanTorn,
       ScanUnlink, ScanSkip, Accept, Crash, Die, Hangup, vars, Types
  <2>3. CASE PrinterThread
    BY <2>3, <1>e DEF PrinterThread, Pick, Wait, UpdateJobno, UpdateFails, Config, NoPrinter,
       Die, Open, Cancel, Connect, Send, Refuse, Confirmed, UnlinkData, UnlinkReq, Defer,
       Wake, Types
  <2> QED
    BY <2>1, <2>2, <2>3, <1>e DEF Next, SendHeader, SendChunk, Quit, Answer, Types
<1>i. \A c \in Clients :
        \/ wpc'[c] = wpc[c]
        \/ wpc'[c] = "done" /\ main' = "down"
        \/ wpc[c] = "none" /\ main = "run" /\ wpc'[c] = "header"
        \/ ClientThread(c) /\ \E m \in Moves : wpc[c] = m[1] /\ wpc'[c] = m[2]
  BY ThreadMoves
<1>j. \A c \in Clients, i \in Ids : reqs'[i] = c => reqs[i] = c \/ WriteControl(c)
  BY ControlMoves
<1>1. ASSUME NEW c \in Clients, cl'[c] = "acked"
      PROVE  wid'[c] # 0 /\ wpc'[c] \in {"add", "signal", "done"}
  <2>1. CASE cl[c] = "acked"
    BY <2>1, <1>a, <1>i DEF Kept, Moves
  <2>2. CASE Respond(c)
    BY <2>2, <1>a, <1>d, <1>e DEF Respond, At, Then, HasNumber, WorkerSteps, Types
  <2> QED
    BY <1>1, <1>h, <2>1, <2>2
<1>2. ASSUME NEW c \in Clients, wid[c] # 0, ~Reissued(c), ~Printed(c), Spooled(c),
             ~Reissued(c)'
      PROVE  Spooled(c)'
  <2>0. wid[c] \in Ids /\ wid'[c] = wid[c] /\ reqs[wid[c]] = c
    BY <1>2, <1>a, <1>e DEF Types, Ids, Spooled
  <2>1. reqs'[wid[c]] = reqs[wid[c]] => Spooled(c)'
    BY <2>0, <1>2 DEF Spooled
  <2>2. ASSUME NEW d \in Clients, CreatControl(d) \/ WriteControl(d) \/ UndoControl(d)
        PROVE  Spooled(c)'
    <3>1. wid[d] \in Ids /\ wpc[d] \in {"ctl", "ctlwrite", "undo.ctl"}
          /\ \A i \in Ids \ {wid[d]} : reqs'[i] = reqs[i]
      BY <2>2, <1>d, <1>e DEF CreatControl, WriteControl, UndoControl, At, HasNumber,
         WorkerSteps, Types, Unlinked, May
    <3>2. d # c
      BY <1>2, <3>1 DEF SpoolInv, Files
    <3>3. wid[d] # wid[c]
      BY <1>2, <1>b, <3>2
    <3> QED
      BY <2>0, <2>1, <3>1, <3>3
  <2>3. ASSUME NEW i \in Ids, ScanTorn(i) PROVE Spooled(c)'
    <3>1. reqs[i] = "torn" /\ reqs' = [reqs EXCEPT ![i] = None]
      BY <2>3, <1>f DEF ScanTorn
    <3> QED
      BY <3>1, <2>0, <2>1, <1>e, NoneIs DEF Types
  <2>4. CASE UnlinkReq
    <3>1. ppc = "unlink.req" /\ reqs' = [reqs EXCEPT ![jp.id] = None]
      BY <2>4 DEF UnlinkReq, Printer, Unlinked, May
    <3>2. Reissued(jp.of) \/ Printed(jp.of)
      BY <3>1 DEF Ghosts
    <3>3. wid[c] # jp.id
      <4>1. jp.of # c
        BY <3>2, <1>2
      <4> QED
        BY <4>1, <3>1, <1>b, <1>c, <1>2
    <3> QED
      BY <3>1, <3>3, <2>0, <2>1, <1>e DEF Types
  <2>5. CASE UNCHANGED reqs
    BY <2>1, <2>5
  <2>6. ASSUME NEW d \in Clients, ClientThread(d) PROVE Spooled(c)'
    BY <2>2, <2>5, <2>6 DEF ClientThread, ReadHeader, NoHeader, CreatData, ReadChunk,
       EndOfData, Respond, AddJob, SignalJob, Broken, Fail, UndoData
  <2>7. CASE MainThread \/ Crash \/ Hangup \/ UNCHANGED vars
    BY <2>3, <2>5, <2>7 DEF MainThread, InitRequest, ScanSignal, ScanDone, ScanAdd,
       ScanUnlink, ScanSkip, Accept, Crash, Die, Hangup, vars
  <2>8. CASE PrinterThread
    BY <2>4, <2>5, <2>8 DEF PrinterThread, Pick, Wait, UpdateJobno, UpdateFails, Config,
       NoPrinter, Die, Open, Cancel, Connect, Send, Refuse, Confirmed, UnlinkData, Defer, Wake
  <2> QED
    BY <2>5, <2>6, <2>7, <2>8 DEF Next, SendHeader, SendChunk, Quit
<1>3. ASSUME NEW c \in Clients, wid[c] # 0, ~Reissued(c), ~Printed(c), Spooled(c),
             Somewhere(c), Spooled(c)'
      PROVE  Somewhere(c)'
  <2>0. wid[c] \in Ids /\ wid'[c] = wid[c] /\ reqs[wid[c]] = c /\ data[wid[c]] # None
    BY <1>3, <1>a, <1>e DEF Types, Ids, Spooled, Ghosts, GhostsArePrinted
  <2>1. ASSUME UNCHANGED <<queue, jp>>, main = "down" => main' = "down",
               wpc[c] \in {"respond", "add"} => wpc'[c] \in {"respond", "add"},
               wid[c] \in todo => wid[c] \in todo'
        PROVE  Somewhere(c)'
    BY <2>0, <2>1, <1>3 DEF Somewhere, InQueue, InHand
  <2>2. CASE Die
    BY <2>2 DEF Die, Somewhere
  <2>3. CASE MainThread
    <3>1. CASE InitRequest
      BY <3>1, <2>0, NoneIs DEF InitRequest, Somewhere
    <3>2. ASSUME NEW i \in Ids, ScanAdd(i) PROVE Somewhere(c)'
      <4>1. [id |-> i, of |-> reqs[i]] \in Jobs /\ Enqueue([id |-> i, of |-> reqs[i]])
            /\ todo' = todo \ {i} /\ UNCHANGED <<jp, wpc>> /\ main # "down"
        BY <3>2 DEF ScanAdd, Jobs
      <4>2. InQueue(c)' <=> InQueue(c) \/ reqs[i] = c
        BY <4>1, <1>e, EnqueueIs
      <4> QED
        BY <1>3, <2>0, <4>1, <4>2 DEF Somewhere, InHand
    <3>3. ASSUME NEW i \in Ids, ScanUnlink(i) PROVE Somewhere(c)'
      <4>1. i # wid[c]
        BY <3>3, <2>0, NoneIs DEF ScanUnlink
      <4> QED
        BY <3>3, <4>1, <2>1 DEF ScanUnlink
    <3>4. ASSUME NEW d \in Clients, Accept(d) PROVE Somewhere(c)'
      BY <3>4, <2>1, <1>e DEF Accept, SpoolInv, Buffers, BuffersOf, Types
    <3> QED
      BY <2>3, <2>1, <1>f, <3>1, <3>2, <3>3, <3>4 DEF MainThread, ScanSignal, ScanDone,
         ScanTorn, ScanSkip
  <2>4. CASE PrinterThread
    <3>1. CASE Pick
      <4>1. /\ queue # <<>> /\ Dequeue /\ jp = None /\ jp' = Head(queue)
            /\ UNCHANGED <<wpc, todo, main>>
        BY <3>1, <1>e DEF Pick, Printer, Phases
      <4>2. /\ InQueue(c) <=> InQueue(c)' \/ Head(queue).of = c
            /\ Head(queue) \in Jobs
        BY <4>1, <1>e, DequeueIs DEF Types
      <4> QED
        BY <1>3, <2>0, <4>1, <4>2, NoneIs DEF Somewhere, InHand
    <3>2. CASE Cancel
      <4>1. /\ data[jp.id] = None /\ jp' = None /\ UNCHANGED <<queue, main, wpc, todo>>
            /\ wid[jp.of] = jp.id
        BY <3>2, <1>f, <1>c DEF Cancel, Printer
      <4>2. ~InHand(c)
        BY <4>1, <2>0 DEF InHand
      <4> QED
        BY <1>3, <2>0, <4>1, <4>2 DEF Somewhere, InQueue
    <3>3. CASE UnlinkReq
      <4>1. /\ jp' = None /\ UNCHANGED <<queue, main, wpc, todo>>
            /\ Reissued(jp.of) \/ Printed(jp.of)
        BY <3>3 DEF UnlinkReq, Printer, Ghosts
      <4>2. ~InHand(c)
        BY <4>1, <1>3 DEF InHand
      <4> QED
        BY <1>3, <2>0, <4>1, <4>2 DEF Somewhere, InQueue
    <3>4. CASE Defer
      <4>1. jp \in Jobs /\ Requeue(jp) /\ UNCHANGED <<main, wpc, todo>>
        BY <3>4, <1>c DEF Defer
      <4>2. InQueue(c)' <=> InQueue(c) \/ jp.of = c
        BY <4>1, <1>e, RequeueIs
      <4> QED
        BY <1>3, <2>0, <4>1, <4>2 DEF Somewhere, InHand
    <3> QED
      BY <2>4, <2>1, <2>2, <3>1, <3>2, <3>3, <3>4 DEF PrinterThread, Wait, UpdateJobno,
         UpdateFails, Config, NoPrinter, Open, Connect, Send, Refuse, Confirmed, UnlinkData,
         Wake
  <2>5. ASSUME NEW d \in Clients, ClientThread(d) PROVE Somewhere(c)'
    <3>1. /\ main = "run" /\ main' = "run"
          /\ \A e \in Clients \ {d} : wpc'[e] = wpc[e]
      BY <2>5, <1>e, ClientMoves DEF Types
    <3>2. CASE AddJob(d)
      <4>1. [id |-> wid[d], of |-> d] \in Jobs /\ Enqueue([id |-> wid[d], of |-> d])
            /\ UNCHANGED <<jp, todo>>
        BY <3>2, <1>d DEF AddJob, At, Jobs, HasNumber, WorkerSteps
      <4>2. InQueue(c)' <=> InQueue(c) \/ d = c
        BY <4>1, <1>e, EnqueueIs
      <4> QED
        BY <1>3, <2>0, <3>1, <4>1, <4>2 DEF Somewhere, InHand
    <3>3. CASE ~AddJob(d)
      <4>1. UNCHANGED <<queue, jp, todo>>
        BY <2>5, <3>3 DEF ClientThread, ReadHeader, NoHeader, CreatData, ReadChunk, EndOfData,
           CreatControl, WriteControl, Respond, SignalJob, Broken, Fail, UndoControl, UndoData
      <4>2. wpc[d] \in {"respond", "add"} => wpc'[d] \in {"respond", "add"}
        BY <2>5, <3>3, <1>e DEF ClientThread, ReadHeader, NoHeader, CreatData, ReadChunk,
           EndOfData, CreatControl, WriteControl, Respond, SignalJob, Broken, Fail,
           UndoControl, UndoData, At, Then, Types
      <4> QED
        BY <2>1, <3>1, <4>1, <4>2
    <3> QED
      BY <3>2, <3>3
  <2> QED
    BY <2>1, <2>2, <2>3, <2>4, <2>5 DEF Next, Crash, Hangup, vars, SendHeader, SendChunk, Quit
<1>4. ASSUME NEW c \in Clients, ~Reissued(c)', ~Printed(c)' PROVE KeptOf(c)'
  <2>1. CASE wid'[c] = 0
    <3>1. wpc'[c] \notin {"respond", "add"}
      BY <2>1, <1>g DEF SpoolInv, Numbers, HasNumber, WorkerSteps, Ids
    <3> QED
      BY <2>1, <3>1, <1>1 DEF KeptOf, Spooled
  <2>2. CASE wid[c] = 0 /\ wid'[c] # 0
    <3>1. wpc'[c] = "creat"
      BY <2>2, <1>a, <1>e DEF ReadHeader, Then, Types
    <3>2. ~Spooled(c)'
      BY <3>1, <1>g DEF SpoolInv, Files
    <3> QED
      BY <3>1, <3>2, <1>1 DEF KeptOf
  <2>3. CASE wid[c] # 0
    <3>1. ~Reissued(c) /\ ~Printed(c) /\ KeptOf(c) /\ wid'[c] = wid[c]
      BY <2>3, <1>4, <1>a DEF Kept
    <3>2. CASE WriteControl(c)
      <4>1. wpc'[c] = "respond" /\ Spooled(c)'
        BY <3>1, <3>2, <1>d, <1>e, <2>3 DEF WriteControl, At, Then, Types, Spooled, HasNumber,
           WorkerSteps
      <4> QED
        BY <4>1 DEF KeptOf, Somewhere
    <3>3. CASE ~WriteControl(c)
      <4>1. Spooled(c)' => Spooled(c)
        BY <2>3, <3>1, <3>3, <1>j, <1>e DEF Spooled, Types, Ids
      <4>2. Spooled(c)' => Somewhere(c)'
        BY <2>3, <3>1, <4>1, <1>3 DEF KeptOf
      <4>3. cl'[c] = "acked" \/ wpc'[c] \in {"respond", "add"} =>
              cl[c] = "acked" \/ wpc[c] \in {"respond", "add"}
        <5>1. Respond(c) => wpc[c] = "respond"
          BY DEF Respond, At
        <5>2. ClientThread(c) /\ wpc[c] = "ctlwrite" => wpc'[c] # "respond"
          BY <3>3, <1>e DEF ClientThread, ReadHeader, NoHeader, CreatData, ReadChunk,
             EndOfData, CreatControl, Respond, AddJob, SignalJob, Broken, Fail, UndoControl,
             UndoData, At, Then, Types
        <5> QED
          BY <5>1, <5>2, <1>h, <1>i DEF Moves
      <4> QED
        BY <2>3, <3>1, <4>2, <4>3, <1>2, <1>4 DEF KeptOf
    <3> QED
      BY <3>2, <3>3
  <2> QED
    BY <2>1, <2>2, <2>3
<1> QED
  BY <1>1, <1>4 DEF Kept

-----------------------------------------------------------------------------
(* Only Send adds to what is printed, a document of a client with a number.*)
LEMMA PrintedMoves ==
  ASSUME SpoolInv, [Next]_vars
  PROVE  UNCHANGED printed \/ Send
<1> USE DEF disk, printer, workers, clients, daemon
<1>1. ASSUME NEW c \in Clients, ClientThread(c) PROVE UNCHANGED printed
  BY <1>1 DEF ClientThread, ReadHeader, NoHeader, CreatData, ReadChunk, EndOfData,
     CreatControl, WriteControl, Respond, AddJob, SignalJob, Broken, Fail, UndoControl,
     UndoData
<1>2. CASE MainThread \/ Crash \/ Hangup \/ UNCHANGED vars
  BY <1>2 DEF MainThread, InitRequest, ScanSignal, ScanDone, ScanAdd, ScanTorn,
     ScanUnlink, ScanSkip, Accept, Crash, Die, Hangup, vars
<1>3. CASE PrinterThread
  BY <1>3 DEF PrinterThread, Pick, Wait, UpdateJobno, UpdateFails, Config, NoPrinter,
     Die, Open, Cancel, Connect, Refuse, Confirmed, UnlinkData, UnlinkReq, Defer, Wake
<1> QED
  BY <1>1, <1>2, <1>3 DEF Next, SendHeader, SendChunk, Quit

LEMMA PrintedNumbers ==
  ASSUME SpoolInv, Numbered, [Next]_vars
  PROVE  Numbered'
<1> USE DEF disk, printer, workers, clients, daemon, Numbered
<1>1. Types /\ Phases
  BY DEF SpoolInv
<1>2. CASE Send
  <2>1. doc \in Docs /\ printed' = printed \cup {doc} /\ UNCHANGED wid
        /\ jp \in Jobs /\ wid[doc.of] = jp.id
    BY <1>1, <1>2 DEF Send, Printer, Phases, Sends, Types, SpoolInv, Owners
  <2>2. wid[doc.of] # 0
    BY <2>1 DEF Jobs, Ids
  <2> QED
    BY <2>1, <2>2
<1>3. CASE UNCHANGED printed
  <2>1. \A d \in printed : d.of \in Clients
    BY <1>1 DEF Types, Docs
  <2>2. \A c \in Clients : wid[c] # 0 => wid'[c] = wid[c]
    BY Grows
  <2> QED
    BY <1>3, <2>1, <2>2
<1> QED
  BY <1>2, <1>3, PrintedMoves

(* A data file is unlinked by build_qonstart, by the client thread that    *)
(* undoes what it has spooled, or by the printer thread.                   *)
LEMMA Unlinkings ==
  ASSUME SpoolInv, [Next]_vars
  PROVE  \A i \in Ids : data'[i] = None =>
           \/ data[i] = None
           \/ main # "run" /\ i \in todo
           \/ \E c \in Clients : wpc[c] = "undo.data" /\ wid[c] = i
           \/ ppc = "unlink.data" /\ jp.id = i
<1> USE DEF disk, printer, workers, clients, daemon
<1>0. Types
  BY DEF SpoolInv
<1> SUFFICES ASSUME NEW i \in Ids, data'[i] = None, data[i] # None
             PROVE  \/ main # "run" /\ i \in todo
                    \/ \E c \in Clients : wpc[c] = "undo.data" /\ wid[c] = i
                    \/ ppc = "unlink.data" /\ jp.id = i
  OBVIOUS
<1>1. CASE MainThread \/ Crash \/ Hangup \/ UNCHANGED vars
  BY <1>0, <1>1 DEF MainThread, InitRequest, ScanSignal, ScanDone, ScanAdd, ScanTorn,
     ScanUnlink, ScanSkip, Accept, Crash, Die, Hangup, vars, Types, Unlinked
<1>2. CASE PrinterThread
  BY <1>0, <1>2 DEF PrinterThread, Pick, Wait, UpdateJobno, UpdateFails, Config, NoPrinter,
     Die, Open, Cancel, Connect, Send, Refuse, Confirmed, UnlinkData, UnlinkReq, Defer, Wake,
     Printer, Types, Unlinked
<1>3. ASSUME NEW c \in Clients, ClientThread(c) PROVE wpc[c] = "undo.data" /\ wid[c] = i
  <2>1. ~CreatData(c)
    <3>1. [of |-> c, len |-> 0] # None
      BY NoneIs DEF Docs
    <3> QED
      BY <1>0, <3>1 DEF CreatData, Types
  <2>2. ~ReadChunk(c)
    <3>1. SUFFICES ASSUME ReadChunk(c), wid[c] = i PROVE FALSE
      BY <1>0 DEF ReadChunk, Types
    <3>2. data'[i] = Longer(data[i]) /\ data[i] \in Docs /\ wpc[c] = "data" /\ net[c] > 0
      BY <1>0, <3>1 DEF ReadChunk, At, Types
    <3>3. data[i].len < Chunks
      BY <1>0, <3>1, <3>2, NoneIs DEF SpoolInv, Buffers, BuffersOf, Docs, Types
    <3> QED
      BY <3>2, <3>3, DocGrows, NoneIs
  <2>3. CASE UndoData(c)
    BY <1>0, <2>3 DEF UndoData, At, Types, Unlinked
  <2> QED
    BY <1>3, <2>1, <2>2, <2>3 DEF ClientThread, ReadHeader, NoHeader, EndOfData,
       CreatControl, WriteControl, Respond, AddJob, SignalJob, Broken, Fail, UndoControl
<1> QED
  BY <1>1, <1>2, <1>3 DEF Next, SendHeader, SendChunk, Quit

(* The job and the document of the printer thread have the same number.    *)
LEMMA JobInHand ==
  ASSUME SpoolInv
  PROVE  /\ jp # None => /\ jp \in Jobs /\ jp.of \in Clients /\ wid[jp.of] = jp.id
                         /\ jp.id \in Ids /\ jp.id # 0 /\ wpc[jp.of] \in {"signal", "done"}
                         /\ jp.id \notin todo
         /\ ppc \in Sends =>
              jp # None /\ doc \in Docs /\ doc.of \in Clients /\ wid[doc.of] = jp.id
<1>1. ASSUME jp # None
      PROVE  /\ jp \in Jobs /\ jp.of \in Clients /\ wid[jp.of] = jp.id
             /\ jp.id \in Ids /\ jp.id # 0
  BY <1>1 DEF SpoolInv, Types, Owners, Jobs, Ids
<1>2. ASSUME jp # None PROVE wpc[jp.of] \in {"signal", "done"} /\ jp.id \notin todo
  BY <1>1, <1>2 DEF SpoolInv, Places, InHand
<1>3. ASSUME ppc \in Sends
      PROVE  jp # None /\ doc \in Docs /\ doc.of \in Clients /\ wid[doc.of] = jp.id
  BY <1>3 DEF SpoolInv, Phases, Types, Owners, Sends, Docs
<1> QED
  BY <1>1, <1>2, <1>3

(* OnDisk is inductive: nobody unlinks the data file of a client thread    *)
(* that fills it, or of the job in the hands of the printer thread before  *)
(* the printer has answered.                                               *)
LEMMA OnDiskStep ==
  ASSUME SpoolInv, OnDisk, [Next]_vars
  PROVE  OnDisk'
<1> USE DEF disk, printer, workers, clients, daemon
<1> DEFINE InDoc == ppc \in Sends => Reissued(doc.of) \/ doc = data[wid[doc.of]]
<1>a. /\ \A c \in Clients : wid[c] # 0 => wid'[c] = wid[c]
      /\ \A c \in Clients : wid[c] # 0 /\ Reissued(c) => Reissued(c)'
  BY Grows
<1>b. \A c, d \in Clients : c # d /\ wid[c] = wid[d] => Reissued(c)
  BY DEF Reissued
<1>c. Types /\ Phases
  BY DEF SpoolInv
<1>d. \A c \in Clients : HasNumber(c) => wid[c] # 0 /\ wid[c] \in Ids
  BY DEF SpoolInv, Numbers, Ids
<1>1. ASSUME NEW c \in Clients, wpc'[c] = "data"
      PROVE  Reissued(c)' \/ data'[wid'[c]] # None
  <2>1. wpc[c] = "data" \/ CreatData(c)
    <3>1. wpc[c] = "data" \/ (ClientThread(c) /\ wpc[c] = "creat")
      BY <1>1, ThreadMoves DEF Moves
    <3>2. ClientThread(c) /\ wpc[c] = "creat" => CreatData(c)
      BY <1>1, <1>c DEF ClientThread, ReadHeader, NoHeader, ReadChunk, EndOfData,
         CreatControl, WriteControl, Respond, AddJob, SignalJob, Broken, Fail, UndoControl,
         UndoData, At, Then, Types
    <3> QED
      BY <3>1, <3>2
  <2>2. wid[c] \in Ids /\ wid[c] # 0 /\ wid'[c] = wid[c] /\ HasNumber(c)
    BY <1>a, <1>d, <2>1 DEF CreatData, At, HasNumber, WorkerSteps
  <2>3. CASE CreatData(c)
    <3>1. [of |-> c, len |-> 0] # None
      BY NoneIs DEF Docs
    <3> QED
      BY <1>c, <2>2, <2>3, <3>1 DEF CreatData, Types
  <2>4. CASE wpc[c] = "data"
    <3>1. SUFFICES ASSUME ~Reissued(c), data'[wid[c]] = None PROVE FALSE
      BY <1>a, <2>2
    <3>2. data[wid[c]] # None
      BY <2>4, <3>1 DEF OnDisk
    <3>3. main = "run"
      BY <1>c, <2>4 DEF Phases, Idle
    <3>4. ASSUME NEW d \in Clients, wpc[d] = "undo.data", wid[d] = wid[c] PROVE FALSE
      BY <1>b, <2>4, <3>1, <3>4
    <3>5. ASSUME ppc = "unlink.data", jp.id = wid[c] PROVE FALSE
      <4>1. jp # None
        BY <1>c, <3>5 DEF Phases
      <4>2. jp.of \in Clients /\ wid[jp.of] = wid[c] /\ jp.of # c
        BY <2>4, <3>5, <4>1, JobInHand
      <4> QED
        BY <1>b, <3>1, <4>2
    <3> QED
      BY <2>2, <3>1, <3>2, <3>3, <3>4, <3>5, Unlinkings
  <2> QED
    BY <2>1, <2>3, <2>4
<1>2. InDoc'
  <2>1. ASSUME UNCHANGED doc, ppc \in Sends PROVE InDoc'
    <3>1. /\ jp # None /\ jp.of \in Clients /\ wid[jp.of] = jp.id /\ jp.id \in Ids
          /\ wpc[jp.of] \in {"signal", "done"} /\ jp.id \notin todo
          /\ doc \in Docs /\ doc.of \in Clients /\ wid[doc.of] = jp.id /\ jp.id # 0
      BY <2>1, JobInHand
    <3>2. SUFFICES ASSUME ~Reissued(doc.of), data'[jp.id] # data[jp.id] PROVE FALSE
      BY <1>a, <2>1, <3>1 DEF OnDisk, Reissued
    <3>3. jp.of = doc.of /\ data[jp.id] # None
      BY <1>b, <2>1, <3>1, <3>2, NoneIs DEF OnDisk
    <3>4. data'[jp.id] = None
      <4>1. ASSUME NEW c \in Clients, wid[c] = jp.id PROVE wpc[c] \notin {"creat", "data"}
        BY <1>b, <3>1, <3>2, <3>3, <4>1
      <4> QED
        BY <3>1, <3>2, <4>1, DataMoves, ZenonT(30)
    <3>5. ASSUME NEW c \in Clients, wid[c] = jp.id PROVE wpc[c] # "undo.data"
      BY <1>b, <3>1, <3>2, <3>3, <3>5
    <3> QED
      BY <2>1, <3>1, <3>3, <3>4, <3>5, Unlinkings DEF Sends
  <2>2. CASE Open
    <3>1. /\ jp # None /\ doc' = data[jp.id] /\ data[jp.id] # None
          /\ UNCHANGED <<wid, data>>
      BY <1>c, <2>2 DEF Open, Printer, Phases
    <3>2. jp.id \in Ids
      BY <3>1, JobInHand
    <3>3. wid[doc'.of] = jp.id
      BY <3>1, <3>2 DEF SpoolInv, Owners
    <3> QED
      BY <3>1, <3>3
  <2>3. CASE PrinterThread /\ ~Open
    BY <2>1, <2>3 DEF PrinterThread, Pick, Wait, UpdateJobno, UpdateFails, Config, NoPrinter,
       Die, Cancel, Connect, Send, Refuse, Confirmed, UnlinkData, UnlinkReq, Defer, Wake,
       Printer, Sends
  <2>4. CASE MainThread \/ Crash \/ Hangup \/ UNCHANGED vars
    BY <2>1, <2>4 DEF MainThread, InitRequest, ScanSignal, Signal, ScanDone, ScanAdd,
       ScanTorn, ScanUnlink, ScanSkip, Accept, Crash, Die, Hangup, vars, Sends
  <2>5. ASSUME NEW c \in Clients, ClientThread(c) PROVE InDoc'
    BY <2>1, <2>5 DEF ClientThread, ReadHeader, NoHeader, CreatData, ReadChunk, EndOfData,
       CreatControl, WriteControl, Respond, AddJob, SignalJob, Signal, Broken, Fail,
       UndoControl, UndoData, Sends
  <2> QED
    BY <2>1, <2>2, <2>3, <2>4, <2>5 DEF Next, SendHeader, SendChunk, Quit
<1> QED
  BY <1>1, <1>2 DEF OnDisk

(* A thread ends a file with all of it read that was written; a data file  *)
(* that is full no longer changes; and the document that is sent is the    *)
(* data file.                                                              *)
LEMMA WholeStep ==
  ASSUME SpoolInv, OnDisk, [Next]_vars
  PROVE  CutsNothing
<1> USE DEF disk, printer, workers, clients, daemon
<1>a. Types /\ Phases
  BY DEF SpoolInv
<1>1. ASSUME NEW c \in Clients, FileEnds(c), ~Reissued(c)
      PROVE  data[wid[c]].len + left[c] = Chunks
  <2>1. wpc[c] = "data" /\ wpc'[c] = "ctl"
    BY <1>1 DEF FileEnds
  <2>2. ClientThread(c)
    BY <2>1, ThreadMoves
  <2>3. EndOfData(c)
    BY <1>a, <2>1, <2>2 DEF ClientThread, ReadHeader, NoHeader, CreatData, ReadChunk,
       CreatControl, WriteControl, Respond, AddJob, SignalJob, Broken, Fail, UndoControl,
       UndoData, At, Then, Types
  <2>4. net[c] = 0 /\ data[wid[c]] # None
    BY <1>1, <2>1, <2>3 DEF EndOfData, OnDisk
  <2>5. wid[c] \in Ids
    BY <2>1 DEF SpoolInv, Numbers, HasNumber, WorkerSteps
  <2>6. data[wid[c]].len + net[c] + left[c] = Chunks /\ data[wid[c]] \in Docs
    BY <1>a, <2>1, <2>4, <2>5 DEF SpoolInv, Buffers, BuffersOf, Types
  <2> QED
    BY <1>a, <2>4, <2>6, NoneIs DEF Docs, Types
<1>2. ASSUME NEW c \in Clients, wid[c] # 0, wpc[c] \notin {"creat", "data"}, ~Reissued(c)
      PROVE  data'[wid[c]] \in {data[wid[c]], None}
  <2>1. wid[c] \in Ids
    BY <1>a, <1>2, NoneIs DEF Types, Ids
  <2>2. ASSUME NEW d \in Clients, wid[d] = wid[c] PROVE wpc[d] \notin {"creat", "data"}
    BY <1>2, <2>2 DEF Reissued
  <2> QED
    BY <2>1, <2>2, DataMoves, ZenonT(30)
<1>3. ASSUME NEW d \in printed' \ printed, ~Reissued(d.of)
      PROVE  d = data[wid[d.of]]
  BY <1>3, PrintedMoves DEF Send, Printer, Sends, OnDisk
<1> QED
  BY <1>1, <1>2, <1>3 DEF CutsNothing

-----------------------------------------------------------------------------
(* The removal of a job ends with that of its control file, and then       *)
(* nothing adds the job to the queue again.                                *)
LEMMA OnceStep ==
  ASSUME SpoolInv, Numbered, [Next]_vars, NEW c \in Clients, ~Reissued(c)
  PROVE  StaysRemoved(c)
<1> USE DEF disk, printer, workers, clients, daemon
<1>a. Types /\ Phases
  BY DEF SpoolInv
<1>b. \A d \in Clients : wid[d] = wid[c] => d = c
  BY DEF Reissued
<1>1. ASSUME ~Printed(c), Printed(c)' PROVE Removing(c)'
  <2>1. Send /\ doc.of = c
    BY <1>1, PrintedMoves DEF Send, Printed
  <2>2. ppc = "send" /\ ppc' = "status" /\ status' = "ok" /\ UNCHANGED jp
    BY <2>1 DEF Send, Printer
  <2>3. jp.of = c /\ jp # None
    BY <1>b, <2>1, <2>2, JobInHand DEF Sends
  <2> QED
    BY <2>2, <2>3 DEF Removing, InHand
<1>2. ASSUME Removing(c), ~RemovalFails PROVE Removing(c)' \/ Removed(c)'
  <2>1. /\ jp # None /\ jp.of = c /\ wid[c] = jp.id /\ jp.id # 0 /\ jp.id \in Ids
        /\ wpc[c] \in {"signal", "done"} /\ ~InQueue(c)
        /\ (ppc = "status" /\ status = "ok") \/ ppc \in {"unlink.data", "unlink.req"}
    BY <1>2, JobInHand DEF Removing, InHand, SpoolInv, Places
  <2>2. CASE UNCHANGED <<ppc, jp, status>>
    BY <2>1, <2>2 DEF Removing, InHand
  <2>3. CASE Confirmed \/ UnlinkData
    BY <2>1, <2>3 DEF Confirmed, UnlinkData, Printer, Removing, InHand
  <2>4. CASE UnlinkReq
    <3>1. ppc = "unlink.req" /\ ppc' = "check" /\ jp' = None /\ UNCHANGED <<queue, wpc, wid>>
      BY <2>4 DEF UnlinkReq, Printer
    <3>2. reqs'[jp.id] = None
      BY <1>2, <3>1 DEF RemovalFails
    <3>3. ~Spooled(c)' /\ ~InQueue(c)' /\ ~InHand(c)'
      BY <2>1, <3>1, <3>2, NoneIs DEF Spooled, InQueue, InHand
    <3> QED
      BY <2>1, <3>1, <3>3 DEF Removed
  <2>5. ~Defer /\ ~Die
    BY <1>2 DEF Defer, Die, RemovalFails
  <2>6. \/ UNCHANGED <<ppc, jp, status>>
        \/ Confirmed \/ UnlinkData \/ UnlinkReq
    <3>2. ASSUME NEW d \in Clients, ClientThread(d) PROVE UNCHANGED <<ppc, jp, status>>
      BY <2>1, <3>2 DEF ClientThread, ReadHeader, NoHeader, CreatData, ReadChunk,
         EndOfData, CreatControl, WriteControl, Respond, AddJob, SignalJob, Signal,
         Broken, Fail, UndoControl, UndoData
    <3>3. CASE MainThread \/ Hangup \/ UNCHANGED vars
      BY <2>1, <3>3, <1>a DEF MainThread, InitRequest, ScanSignal, Signal, ScanDone,
         ScanAdd, ScanTorn, ScanUnlink, ScanSkip, Accept, Hangup, vars, Phases
    <3>4. CASE PrinterThread
      BY <2>1, <2>5, <3>4 DEF PrinterThread, Pick, Wait, UpdateJobno, UpdateFails, Config,
         NoPrinter, Open, Cancel, Connect, Send, Refuse, Wake, Printer
    <3> QED
      BY <2>5, <3>2, <3>3, <3>4 DEF Next, Crash, SendHeader, SendChunk, Quit
  <2> QED
    BY <2>2, <2>3, <2>4, <2>6
<1>3. ASSUME Printed(c), Removed(c) PROVE Removed(c)'
  <2>1. wid[c] # 0 /\ wid'[c] = wid[c] /\ wid[c] \in Ids /\ wpc[c] \in {"signal", "done"}
    BY <1>3, <1>a, Grows, NoneIs DEF Numbered, Printed, Removed, Types, Ids
  <2>2. wpc'[c] \in {"signal", "done"}
    BY <2>1, ThreadMoves DEF Moves
  <2>3. data'[wid[c]] = None \/ (~Spooled(c)' /\ ~InQueue(c)' /\ ~InHand(c)')
    <3>1. CASE data[wid[c]] = None
      BY <1>b, <2>1, <3>1, DataMoves, ZenonT(30)
    <3>2. CASE ~Spooled(c) /\ ~InQueue(c) /\ ~InHand(c)
      <4>1. ~WriteControl(c) /\ ~AddJob(c)
        BY <2>1 DEF WriteControl, AddJob, At
      <4>2. ~Spooled(c)'
        BY <2>1, <3>2, <4>1, ControlMoves DEF Spooled
      <4>3. ~InQueue(c)' /\ ~InHand(c)'
        BY <3>2, <4>1, JobMoves
      <4> QED
        BY <4>2, <4>3
    <3> QED
      BY <1>3, <3>1, <3>2 DEF Removed
  <2>4. ASSUME ppc' \in {"connect", "send"}, doc'.of = c PROVE FALSE
    <3>1. CASE Open
      <4>1. doc' = data[jp.id] /\ data[jp.id] # None /\ jp # None
        BY <3>1, <1>a DEF Open, Printer, Phases
      <4>2. jp.id \in Ids /\ jp.of \in Clients /\ wid[jp.of] = jp.id
        BY <4>1, JobInHand
      <4>3. wid[c] = jp.id
        BY <2>4, <4>1, <4>2 DEF SpoolInv, Owners
      <4>4. jp.of = c
        BY <1>b, <4>2, <4>3
      <4> QED
        BY <1>3, <4>1, <4>3, <4>4 DEF Removed, InHand
    <3>2. CASE ppc \in {"connect", "send"} /\ UNCHANGED doc
      BY <1>3, <2>4, <3>2 DEF Removed
    <3>3. Open \/ (ppc \in {"connect", "send"} /\ UNCHANGED doc)
      <4>1. ASSUME NEW d \in Clients, ClientThread(d)
            PROVE  ppc \in {"connect", "send"} /\ UNCHANGED doc
        BY <2>4, <4>1 DEF ClientThread, ReadHeader, NoHeader, CreatData, ReadChunk,
           EndOfData, CreatControl, WriteControl, Respond, AddJob, SignalJob, Signal,
           Broken, Fail, UndoControl, UndoData
      <4>2. CASE MainThread \/ Crash \/ Hangup \/ UNCHANGED vars
        BY <2>4, <4>2 DEF MainThread, InitRequest, ScanSignal, Signal, ScanDone, ScanAdd,
           ScanTorn, ScanUnlink, ScanSkip, Accept, Crash, Die, Hangup, vars
      <4>3. CASE PrinterThread
        BY <2>4, <4>3 DEF PrinterThread, Pick, Wait, UpdateJobno, UpdateFails, Config,
           NoPrinter, Die, Cancel, Connect, Send, Refuse, Confirmed, UnlinkData, UnlinkReq,
           Defer, Wake, Printer
      <4> QED
        BY <2>4, <4>1, <4>2, <4>3 DEF Next, SendHeader, SendChunk, Quit
    <3> QED
      BY <3>1, <3>2, <3>3
  <2> QED
    BY <2>1, <2>2, <2>3, <2>4 DEF Removed
<1> QED
  BY <1>1, <1>2, <1>3 DEF StaysRemoved

-----------------------------------------------------------------------------
(* Fresh is inductive: without a restart nextjob only goes up.             *)
LEMMA FreshStep ==
  ASSUME Faults \cap {"crash", "disk", "noprinter"} = {}, SpoolInv, Fresh, [Next]_vars
  PROVE  Fresh'
<1> USE DEF disk, printer, workers, clients, daemon
<1>a. Types /\ Phases /\ SpoolInv'
  BY SpoolStep DEF SpoolInv
<1>b. ~May("crash") /\ ~May("disk") /\ ~May("noprinter")
  BY DEF May
<1>c. ~Crash /\ ~UpdateFails /\ ~NoPrinter
  BY <1>b DEF Crash, UpdateFails, NoPrinter
<1> DEFINE Started == main # "down" => nextjob > 0
           Down    == main = "down" => (\A c \in Clients : wid[c] = 0) /\ jobno = 0
           Below   == \A c \in Clients : wid[c] # 0 => wid[c] < nextjob
           Unique  == \A c, d \in Clients : wid[c] = wid[d] /\ wid[c] # 0 => c = d
           Owned   == \A i \in Ids : reqs[i] # None => \E c \in Clients : wid[c] = i
<1>d. Started /\ Down /\ Below /\ Unique /\ Owned /\ NumbersFresh
  BY DEF Fresh
<1>0. ASSUME UNCHANGED <<nextjob, wid>>, main = "down" <=> main' = "down",
             main = "down" => UNCHANGED jobno
      PROVE  Started' /\ Down' /\ Below' /\ Unique'
  BY <1>0, <1>d

(* Steps that issue no number and create no control file.                  *)
<1>1. ASSUME UNCHANGED <<nextjob, wid>>, main = "down" <=> main' = "down",
             main = "down" => UNCHANGED jobno,
             \A i \in Ids : reqs'[i] # None => reqs[i] # None,
             \A c \in Clients : wpc'[c] = "creat" => wpc[c] = "creat"
      PROVE  Fresh'
  <2>1. Owned'
    BY <1>1, <1>d
  <2>2. ASSUME NEW c \in Clients, wpc'[c] = "creat" PROVE reqs'[wid'[c]] = None
    <3>1. wpc[c] = "creat" /\ wid[c] \in Ids /\ wid'[c] = wid[c]
      BY <2>2, <1>1, <1>a DEF SpoolInv, Numbers, HasNumber, WorkerSteps
    <3> QED
      BY <3>1, <1>1, <1>d DEF NumbersFresh
  <2> QED
    BY <1>0, <1>1, <2>1, <2>2 DEF Fresh, NumbersFresh
<1>2. CASE MainThread
  <2>1. CASE InitRequest
    <3>1. /\ nextjob' = 1 /\ main' = "scan" /\ UNCHANGED <<wid, wpc, reqs>>
          /\ \A c \in Clients : wid[c] = 0
      BY <2>1, <1>d DEF InitRequest
    <3>2. \A c \in Clients : wpc[c] # "creat"
      BY <2>1, <1>a DEF InitRequest, Phases, Idle
    <3> QED
      BY <3>1, <3>2, <1>d DEF Fresh, NumbersFresh
  <2>2. ASSUME NEW c \in Clients, Accept(c) PROVE Fresh'
    <3>1. \A d \in Clients : wpc'[d] = "creat" => wpc[d] = "creat"
      BY <2>2, <1>a DEF Accept, Types
    <3> QED
      BY <2>2, <3>1, <1>1 DEF Accept
  <2>3. CASE ScanSignal \/ ScanDone
    BY <2>3, <1>1 DEF ScanSignal, ScanDone
  <2>4. ASSUME NEW i \in Ids, ScanAdd(i) \/ ScanTorn(i) \/ ScanUnlink(i) \/ ScanSkip(i)
        PROVE  Fresh'
    BY <2>4, <1>1, <1>a DEF ScanAdd, ScanTorn, ScanUnlink, ScanSkip, Types
  <2> QED
    BY <1>2, <2>1, <2>2, <2>3, <2>4 DEF MainThread
<1>3. CASE PrinterThread
  <2>1. main # "down"
    BY <1>3, <1>a, <1>c DEF Phases, PrinterThread, Pick, Wait, UpdateJobno, Config, Open,
       Cancel, Connect, Send, Refuse, Confirmed, UnlinkData, UnlinkReq, Defer, Wake, Printer
  <2> QED
    BY <1>3, <2>1, <1>1, <1>a, <1>c DEF PrinterThread, Pick, Wait, UpdateJobno, Config, Open,
       Cancel, Connect, Send, Refuse, Confirmed, UnlinkData, UnlinkReq, Defer, Wake, Types,
       Unlinked, May
<1>4. ASSUME NEW c \in Clients, ClientThread(c) PROVE Fresh'
  <2>0. main = "run" /\ main' = "run"
    BY <1>4, ClientMoves, <1>a
  <2>1. CASE ReadHeader(c)
    <3>1. /\ wpc[c] = "header" /\ nextjob \in Ids /\ nextjob' = nextjob + 1
          /\ wid' = [wid EXCEPT ![c] = nextjob] /\ wpc' = [wpc EXCEPT ![c] = "creat"]
          /\ UNCHANGED reqs
      BY <2>1 DEF ReadHeader, At, Then
    <3>2. nextjob \in Nat /\ nextjob # 0 /\ wid[c] = 0 /\ \A d \in Clients : wid[d] \in Nat
      BY <3>1, <1>a, NoneIs DEF Types, Ids, SpoolInv, Numbers
    <3>3. /\ wid'[c] = nextjob /\ wpc'[c] = "creat"
          /\ \A d \in Clients \ {c} : wid'[d] = wid[d] /\ wpc'[d] = wpc[d]
      BY <3>1, <1>a DEF Types
    <3>4. Started' /\ Down' /\ Below' /\ Unique'
      BY <2>0, <3>1, <3>2, <3>3, <1>d
    <3>5. Owned'
      <4>1. ASSUME NEW i \in Ids, reqs'[i] # None PROVE \E d \in Clients : wid'[d] = i
        <5>1. PICK d \in Clients : wid[d] = i
          BY <3>1, <4>1, <1>d
        <5>2. d # c
          BY <3>2, <5>1, <1>a DEF Ids
        <5> QED
          BY <3>3, <5>1, <5>2
      <4> QED
        BY <4>1
    <3>6. reqs[nextjob] = None
      BY <3>1, <3>2, <1>d
    <3>7. ASSUME NEW d \in Clients, wpc'[d] = "creat" PROVE reqs'[wid'[d]] = None
      BY <3>1, <3>3, <3>6, <3>7, <1>d DEF NumbersFresh
    <3> QED
      BY <3>4, <3>5, <3>7 DEF Fresh, NumbersFresh
  <2>2. CASE CreatControl(c) \/ WriteControl(c)
    <3>1. /\ HasNumber(c) /\ wpc[c] # "creat" /\ UNCHANGED <<nextjob, wid>>
          /\ \A d \in Clients : wpc'[d] = "creat" => wpc[d] = "creat"
          /\ \A i \in Ids : wid[c] # i => reqs'[i] = reqs[i]
      BY <2>2, <1>a DEF CreatControl, WriteControl, At, Then, HasNumber, WorkerSteps, Types
    <3>2. Owned'
      BY <3>1, <1>d
    <3>3. ASSUME NEW d \in Clients, wpc'[d] = "creat" PROVE reqs'[wid'[d]] = None
      <4>1. wpc[d] = "creat" /\ d # c /\ HasNumber(d)
        BY <3>1, <3>3 DEF HasNumber, WorkerSteps
      <4>2. wid[d] \in Ids /\ wid[d] # wid[c]
        BY <3>1, <4>1 DEF SpoolInv, Numbers
      <4> QED
        BY <3>1, <4>1, <4>2, <1>d DEF NumbersFresh
    <3> QED
      BY <2>0, <3>1, <3>2, <3>3, <1>0 DEF Fresh, NumbersFresh
  <2>3. CASE ~(ReadHeader(c) \/ CreatControl(c) \/ WriteControl(c))
    BY <1>4, <2>0, <2>3, <1>1, <1>a DEF ClientThread, NoHeader, CreatData, ReadChunk,
       EndOfData, Respond, AddJob, SignalJob, Broken, Fail, UndoControl, UndoData, At, Then,
       Types, Unlinked, May
  <2> QED
    BY <2>1, <2>2, <2>3
<1> QED
  BY <1>1, <1>2, <1>3, <1>4, <1>c DEF Next, Hangup, SendHeader, SendChunk, Quit, vars

-----------------------------------------------------------------------------
(* At the first start there is no job.                                     *)
LEMMA JobsInit == Init => Ghosts /\ Kept /\ OnDisk /\ Numbered /\ Fresh
<1> SUFFICES ASSUME Init PROVE Ghosts /\ Kept /\ OnDisk /\ Numbered /\ Fresh
  OBVIOUS
<1> USE NoneIs DEF Init
<1>1. Ghosts
  BY DEF Ghosts, GhostsArePrinted
<1>2. Kept
  BY DEF Kept, KeptOf, Spooled
<1>3. OnDisk /\ Numbered
  BY DEF OnDisk, Numbered, Sends
<1>4. Fresh
  BY DEF Fresh, NumbersFresh
<1> QED
  BY <1>1, <1>2, <1>3, <1>4

(* With a complete control file goes a data file of the same client.       *)
LEMMA KeptSaysAcked == ASSUME SpoolInv, Ghosts, Kept PROVE AckedJobsKept
<1> SUFFICES ASSUME NEW c \in Clients, cl[c] = "acked", ~Printed(c), ~Reissued(c)
             PROVE  /\ data[wid[c]] # None /\ data[wid[c]].of = c
                    /\ Spooled(c)
                    /\ \/ main = "down" \/ InQueue(c) \/ InHand(c)
                       \/ wpc[c] = "add" \/ wid[c] \in todo
  BY DEF AckedJobsKept
<1>1. wid[c] # 0 /\ wpc[c] \in {"add", "signal", "done"}
  BY DEF Kept
<1>2. KeptOf(c)
  BY DEF Kept
<1>3. Spooled(c) /\ Somewhere(c)
  BY <1>2 DEF KeptOf
<1>4. wid[c] \in Ids /\ reqs[wid[c]] = c
  BY <1>1, <1>3, NoneIs DEF Spooled, SpoolInv, Types, Ids
<1>5. data[wid[c]] # None
  BY <1>4 DEF Ghosts, GhostsArePrinted
<1>6. data[wid[c]].of \in Clients /\ wid[data[wid[c]].of] = wid[c]
  BY <1>4, <1>5 DEF SpoolInv, Types, Owners, Docs
<1>7. data[wid[c]].of = c
  BY <1>6 DEF Reissued
<1> QED
  BY <1>1, <1>3, <1>5, <1>7 DEF Somewhere

(* printer_thread, client_thread: unless a call on a spool file fails, a   *)
(* complete control file without its data file is that of a job the        *)
(* printer has taken, whatever else fails.                                 *)
THEOREM GhostsHavePrinted ==
  ASSUME "disk" \notin Faults
  PROVE  Spec => []GhostsArePrinted
<1>1. SpoolInv /\ Ghosts /\ [Next]_vars => (SpoolInv /\ Ghosts)'
  BY SpoolStep, GhostsStep
<1>2. SpoolInv /\ Ghosts => GhostsArePrinted
  BY DEF Ghosts
<1> QED
  BY SpoolInit, JobsInit, <1>1, <1>2, PTL DEF Spec

(* client_thread, printer_thread, defer, build_qonstart: unless a call     *)
(* on a spool file fails, a job whose number a client was told, and that   *)
(* get_newjobno has not issued again, is kept through any number of        *)
(* crashes, restarts and refusals, until the printer has it.               *)
THEOREM JobsAreKept ==
  ASSUME "disk" \notin Faults
  PROVE  Spec => []AckedJobsKept
<1>1. SpoolInv /\ Ghosts /\ Kept /\ [Next]_vars => (SpoolInv /\ Ghosts /\ Kept)'
  BY SpoolStep, GhostsStep, KeptStep
<1> QED
  BY SpoolInit, JobsInit, <1>1, KeptSaysAcked, PTL DEF Spec

(* client_thread, printer_thread: whatever fails, what the printer gets of *)
(* a client is what its thread had read when it took the file to have      *)
(* ended, all that the print command had written by then.                  *)
THEOREM WholeFiles == Spec => PrintedWhole
<1>1. SpoolInv /\ OnDisk /\ [Next]_vars => (SpoolInv /\ OnDisk)'
  BY SpoolStep, OnDiskStep
<1>2. SpoolInv /\ OnDisk /\ [Next]_vars => [CutsNothing]_vars
  BY WholeStep
<1> QED
  BY SpoolInit, JobsInit, <1>1, <1>2, PTL DEF Spec, PrintedWhole

(* printer_thread: whatever fails, a job that the printer has taken is on  *)
(* its way out of the spool directory until its removal fails, and a job   *)
(* that has been removed does not come to the printer again; unless its    *)
(* number was issued twice.                                                *)
THEOREM PrintedAtMostOnce == Spec => PrintedOnce
<1> DEFINE Stays == \A c \in Clients : Reissued(c) \/ StaysRemoved(c)
<1>1. SpoolInv /\ Numbered /\ [Next]_vars => (SpoolInv /\ Numbered)'
  BY SpoolStep, PrintedNumbers
<1>2. SpoolInv /\ Numbered /\ [Next]_vars => Stays
  BY OnceStep
<1> HIDE DEF Stays
<1>3. Spec => [][Stays]_vars
  BY SpoolInit, JobsInit, <1>1, <1>2, PTL DEF Spec
<1> QED
  BY <1>3 DEF Stays, PrintedOnce

(* get_newjobno: as long as the daemon goes on and no call on a spool file *)
(* fails, a new job gets a number under which nothing is spooled.          *)
THEOREM FreshNumbers ==
  ASSUME Faults \cap {"crash", "disk", "noprinter"} = {}
  PROVE  Spec => []NumbersFresh
<1>1. SpoolInv /\ Fresh /\ [Next]_vars => (SpoolInv /\ Fresh)'
  BY SpoolStep, FreshStep
<1>2. SpoolInv /\ Fresh => NumbersFresh
  BY DEF Fresh
<1> QED
  BY SpoolInit, JobsInit, <1>1, <1>2, PTL DEF Spec

-----------------------------------------------------------------------------
(* The signals between the threads. *)

(* Every thread and every print command is at one of its steps, and a      *)
(* print command that has not connected has no thread.                     *)
Threads ==
  /\ wpc \in [Clients -> WorkerSteps]
  /\ cl \in [Clients -> ClientStates]
  /\ \A c \in Clients : cl[c] = "new" => wpc[c] = "none"

(* A step of client thread c to step b keeps Threads if it leaves the      *)
(* print commands alone or answers c.                                      *)
LEMMA ThreadStep ==
  ASSUME Threads, NEW c \in Clients, NEW a \in WorkerSteps \ {"none"},
         NEW b \in WorkerSteps, At(c, a), Then(c, b),
         UNCHANGED cl \/ Answer(c, "acked") \/ Answer(c, "rejected")
  PROVE  Threads'
<1>1. wpc' \in [Clients -> WorkerSteps]
  BY DEF Threads, Then
<1>2. /\ cl' \in [Clients -> ClientStates]
      /\ \A d \in Clients : cl'[d] = "new" => cl[d] = "new"
  BY DEF Threads, Answer, ClientStates
<1>3. ASSUME NEW d \in Clients, cl'[d] = "new" PROVE wpc'[d] = "none"
  <2>1. wpc[d] = "none"
    BY <1>2, <1>3 DEF Threads
  <2>2. d # c
    BY <2>1 DEF At
  <2> QED
    BY <2>1, <2>2 DEF Threads, Then
<1> QED
  BY <1>1, <1>2, <1>3 DEF Threads

LEMMA DieThreads == ASSUME Threads, Die PROVE Threads'
<1>1. wpc' \in [Clients -> WorkerSteps] /\ cl' \in [Clients -> ClientStates]
  BY DEF Threads, Die, WorkerSteps, ClientStates
<1>2. ASSUME NEW c \in Clients, cl'[c] = "new" PROVE wpc'[c] = "none"
  <2>1. cl[c] = "new"
    BY <1>2 DEF Die, Threads
  <2> QED
    BY <2>1 DEF Die, Threads
<1> QED
  BY <1>1, <1>2 DEF Threads

(* Client threads: the step a thread is at, the one it goes to, and that   *)
(* only its own print command hears of it.                                 *)
LEMMA ClientThreadStep ==
  ASSUME Threads, NEW c \in Clients, ClientThread(c)
  PROVE  /\ Threads'
         /\ main' = main
         /\ wpc[c] # "signal" => ppc' = ppc
         /\ wpc[c] = "signal" => ppc' # "waiting"
         /\ \A d \in Clients \ {c} : wpc'[d] = wpc[d]
         /\ queue' # queue => wpc'[c] = "signal"
<1>0. ASSUME NEW b, Then(c, b)
      PROVE  (\A d \in Clients \ {c} : wpc'[d] = wpc[d]) /\ wpc'[c] = b
  BY <1>0 DEF Then, Threads
<1>1. CASE ReadHeader(c) \/ NoHeader(c)
  <2>1. /\ At(c, "header")
        /\ Then(c, "creat") \/ Then(c, "done")
        /\ UNCHANGED cl \/ Answer(c, "rejected")
        /\ UNCHANGED <<main, queue, ppc>>
    BY <1>1 DEF ReadHeader, NoHeader, daemon, printer
  <2>2. Threads'
    BY <2>1, ThreadStep DEF WorkerSteps
  <2> QED
    BY <2>1, <2>2, <1>0 DEF At
<1>2. CASE CreatData(c)
  <2>1. /\ At(c, "creat") /\ Then(c, "data") /\ UNCHANGED <<cl, main, queue, ppc>>
    BY <1>2 DEF CreatData, daemon, printer, clients
  <2>2. Threads'
    BY <2>1, ThreadStep DEF WorkerSteps
  <2> QED
    BY <2>1, <2>2, <1>0 DEF At
<1>3. CASE ReadChunk(c)
  <2>1. At(c, "data") /\ UNCHANGED <<cl, wpc, main, queue, ppc>>
    BY <1>3 DEF ReadChunk, daemon, printer, workers
  <2> QED
    BY <2>1 DEF At, Threads
<1>4. CASE EndOfData(c)
  <2>1. /\ At(c, "data") /\ Then(c, "ctl") /\ UNCHANGED <<cl, main, queue, ppc>>
    BY <1>4 DEF EndOfData, daemon, printer, clients
  <2>2. Threads'
    BY <2>1, ThreadStep DEF WorkerSteps
  <2> QED
    BY <2>1, <2>2, <1>0 DEF At
<1>5. CASE CreatControl(c)
  <2>1. /\ At(c, "ctl") /\ Then(c, "ctlwrite") /\ UNCHANGED <<cl, main, queue, ppc>>
    BY <1>5 DEF CreatControl, daemon, printer, clients
  <2>2. Threads'
    BY <2>1, ThreadStep DEF WorkerSteps
  <2> QED
    BY <2>1, <2>2, <1>0 DEF At
<1>6. CASE WriteControl(c)
  <2>1. /\ At(c, "ctlwrite") /\ Then(c, "respond") /\ UNCHANGED <<cl, main, queue, ppc>>
    BY <1>6 DEF WriteControl, daemon, printer, clients
  <2>2. Threads'
    BY <2>1, ThreadStep DEF WorkerSteps
  <2> QED
    BY <2>1, <2>2, <1>0 DEF At
<1>7. CASE Respond(c)
  <2>1. /\ At(c, "respond") /\ Then(c, "add") /\ Answer(c, "acked")
        /\ UNCHANGED <<main, queue, ppc>>
    BY <1>7 DEF Respond, daemon, printer
  <2>2. Threads'
    BY <2>1, ThreadStep DEF WorkerSteps
  <2> QED
    BY <2>1, <2>2, <1>0 DEF At
<1>8. CASE AddJob(c)
  <2>1. /\ At(c, "add") /\ Then(c, "signal") /\ UNCHANGED <<cl, main, ppc>>
    BY <1>8 DEF AddJob, printer, clients
  <2>2. Threads'
    BY <2>1, ThreadStep DEF WorkerSteps
  <2> QED
    BY <2>1, <2>2, <1>0 DEF At
<1>9. CASE SignalJob(c)
  <2>1. /\ At(c, "signal") /\ Then(c, "done") /\ UNCHANGED <<cl, main, queue>>
        /\ ppc' # "waiting"
    BY <1>9 DEF SignalJob, Signal, daemon, clients
  <2>2. Threads'
    BY <2>1, ThreadStep DEF WorkerSteps
  <2> QED
    BY <2>1, <2>2, <1>0 DEF At
<1>10. CASE Broken(c)
  <2>1. /\ At(c, "creat") \/ At(c, "data") \/ At(c, "ctl") \/ At(c, "ctlwrite")
        /\ Then(c, "done") \/ Then(c, "undo.data") \/ Then(c, "undo.ctl")
        /\ Answer(c, "rejected")
        /\ UNCHANGED <<main, queue, ppc>>
    BY <1>10 DEF Broken, Fail, daemon, printer
  <2>2. Threads'
    BY <2>1, ThreadStep DEF WorkerSteps
  <2> QED
    BY <2>1, <2>2, <1>0 DEF At
<1>11. CASE UndoControl(c) \/ UndoData(c)
  <2>1. /\ At(c, "undo.ctl") \/ At(c, "undo.data")
        /\ Then(c, "undo.data") \/ Then(c, "done")
        /\ UNCHANGED <<cl, main, queue, ppc>>
    BY <1>11 DEF UndoControl, UndoData, daemon, printer, clients
  <2>2. Threads'
    BY <2>1, ThreadStep DEF WorkerSteps
  <2> QED
    BY <2>1, <2>2, <1>0 DEF At
<1> QED
  BY <1>1, <1>2, <1>3, <1>4, <1>5, <1>6, <1>7, <1>8, <1>9, <1>10, <1>11
     DEF ClientThread

(* The printer thread: it goes to sleep on an empty queue only.            *)
LEMMA PrinterThreadStep ==
  ASSUME PrinterThread
  PROVE  \/ Die
         \/ /\ UNCHANGED <<main, wpc, cl>>
            /\ ppc' = "waiting" => queue' = <<>>
<1> USE DEF Printer, workers, clients, daemon
<1>1. CASE Pick
  BY <1>1 DEF Pick
<1>2. CASE Wait
  BY <1>2 DEF Wait
<1>3. CASE UpdateJobno \/ UpdateFails
  BY <1>3 DEF UpdateJobno, UpdateFails
<1>4. CASE Config \/ NoPrinter
  BY <1>4 DEF Config, NoPrinter
<1>5. CASE Open \/ Cancel \/ Connect
  BY <1>5 DEF Open, Cancel, Connect
<1>6. CASE Send \/ Refuse \/ Confirmed
  BY <1>6 DEF Send, Refuse, Confirmed
<1>7. CASE UnlinkData \/ UnlinkReq
  BY <1>7 DEF UnlinkData, UnlinkReq
<1>8. CASE Defer \/ Wake
  BY <1>8 DEF Defer, Wake
<1> QED
  BY <1>1, <1>2, <1>3, <1>4, <1>5, <1>6, <1>7, <1>8 DEF PrinterThread

(* The steps of the client threads and of the printer thread above, those  *)
(* of the main thread and of the print commands here.                      *)
LEMMA WakeupStep ==
  ASSUME Threads, NoLostWakeup, [Next]_vars
  PROVE  Threads' /\ NoLostWakeup'
<1> USE DEF workers, clients, daemon, printer
<1>0. ASSUME UNCHANGED <<wpc, cl>> PROVE Threads'
  BY <1>0 DEF Threads
<1>1. ASSUME UNCHANGED <<wpc, queue>>,
             ppc' = "waiting" => ppc = "waiting",
             main = "scan.signal" => main' = "scan.signal"
      PROVE  NoLostWakeup'
  BY <1>1 DEF NoLostWakeup
<1>2. CASE Die
  BY <1>2, DieThreads DEF Die, NoLostWakeup
<1>3. CASE MainThread
  <2>1. CASE InitRequest
    BY <2>1, <1>0 DEF InitRequest, NoLostWakeup
  <2>2. CASE ScanSignal
    BY <2>2, <1>0 DEF ScanSignal, Signal, NoLostWakeup
  <2>3. CASE ScanDone
    BY <2>3, <1>0, <1>1 DEF ScanDone
  <2>4. ASSUME NEW i \in Ids, ScanAdd(i) PROVE Threads' /\ NoLostWakeup'
    BY <2>4, <1>0 DEF ScanAdd, NoLostWakeup
  <2>5. ASSUME NEW i \in Ids, ScanTorn(i) \/ ScanUnlink(i) \/ ScanSkip(i)
        PROVE  Threads' /\ NoLostWakeup'
    BY <2>5, <1>0, <1>1 DEF ScanTorn, ScanUnlink, ScanSkip
  <2>6. ASSUME NEW c \in Clients, Accept(c) PROVE Threads' /\ NoLostWakeup'
    <3>1. /\ cl[c] = "new" /\ wpc[c] = "none"
          /\ cl' = [cl EXCEPT ![c] = "header"]
          /\ wpc' = [wpc EXCEPT ![c] = "header"]
          /\ main = "run" /\ UNCHANGED <<main, queue, ppc>>
      BY <2>6 DEF Accept, Threads
    <3>2. Threads'
      BY <3>1 DEF Threads, WorkerSteps, ClientStates
    <3>3. \A d \in Clients : wpc[d] = "signal" => wpc'[d] = "signal"
      BY <3>1 DEF Threads
    <3> QED
      BY <3>1, <3>2, <3>3 DEF NoLostWakeup
  <2> QED
    BY <1>3, <2>1, <2>2, <2>3, <2>4, <2>5, <2>6 DEF MainThread
<1>4. CASE PrinterThread
  <2>1. CASE Die
    BY <2>1, <1>2
  <2>2. CASE UNCHANGED <<main, wpc, cl>> /\ (ppc' = "waiting" => queue' = <<>>)
    BY <2>2, <1>0 DEF NoLostWakeup
  <2> QED
    BY <1>4, <2>1, <2>2, PrinterThreadStep
<1>5. CASE Crash
  BY <1>5, <1>2 DEF Crash
<1>6. CASE Hangup
  BY <1>6, <1>0, <1>1 DEF Hangup
<1>7. ASSUME NEW c \in Clients, ClientThread(c) PROVE Threads' /\ NoLostWakeup'
  <2>1. /\ Threads'
        /\ main' = main
        /\ wpc[c] # "signal" => ppc' = ppc
        /\ wpc[c] = "signal" => ppc' # "waiting"
        /\ \A d \in Clients \ {c} : wpc'[d] = wpc[d]
        /\ queue' # queue => wpc'[c] = "signal"
    BY <1>7, ClientThreadStep
  <2>2. CASE wpc[c] = "signal" \/ queue' # queue
    BY <2>1, <2>2 DEF NoLostWakeup
  <2>3. CASE wpc[c] # "signal" /\ queue' = queue
    BY <2>1, <2>3 DEF NoLostWakeup
  <2> QED
    BY <2>1, <2>2, <2>3
<1>8. ASSUME NEW c \in Clients, SendHeader(c) \/ SendChunk(c) \/ Quit(c)
      PROVE  Threads' /\ NoLostWakeup'
  <2>1. /\ UNCHANGED <<wpc, queue, main, ppc>>
        /\ \E s \in ClientStates \ {"new"} : cl' = [cl EXCEPT ![c] = s]
    BY <1>8 DEF SendHeader, SendChunk, Quit, ClientStates
  <2>2. Threads'
    BY <2>1 DEF Threads
  <2> QED
    BY <2>1, <2>2, <1>1
<1>9. CASE UNCHANGED vars
  BY <1>9, <1>0, <1>1 DEF vars
<1> QED
  BY <1>3, <1>4, <1>5, <1>6, <1>7, <1>8, <1>9 DEF Next

(* printer_thread and add_job: while the printer thread sleeps on jobwait, *)
(* a job in the queue has a signal on its way.                             *)
THEOREM WakeupsArrive == Spec => []NoLostWakeup
<1>1. Init => Threads /\ NoLostWakeup
  BY DEF Init, Threads, NoLostWakeup, WorkerSteps, ClientStates
<1>2. Threads /\ NoLostWakeup /\ [Next]_vars => (Threads /\ NoLostWakeup)'
  BY WakeupStep
<1> QED
  BY <1>1, <1>2, PTL DEF Spec
=============================================================================
