# Verification of apue.2e

TLA+ specifications of the programs in this repository (the source of
*Advanced Programming in the UNIX Environment*, 2nd edition), configurations
that check them with TLC on small instances, and theorems checked by TLAPS.

The repository is a collection: two complete applications (`db/`, a database
library for concurrent processes, and `ipp/`, a print spooler), a support
library (`lib/`), several small servers and thread programs, and many programs
of a page that show one system call. The specifications are about the parts in
which processes, threads, signals or messages interact.

## 1. The system

| Component | State it keeps | Operations | What is hard | What makes it correct |
|---|---|---|---|---|
| **db** (`db/db.c`) | index file (free list pointer, hash table, records with a chain pointer), data file, record locks, a handle per process | `db_open`, `db_fetch`, `db_store`, `db_delete`, `db_rewind`, `db_nextrec` | several processes walk and relink lists in a file, one system call per record, under advisory locks; a process may die in between | each call is atomic; chains and free list stay disjoint, finite lists; no circle of waiting |
| **printd** (`ipp/printd.c`) | spool directory, job file, queue, `reread`, one thread per client, a printer thread | accept, spool, acknowledge, queue, print, defer, restart, SIGHUP, SIGTERM | threads and a condition variable; crash between any two files; timeouts on the client and the printer | an acknowledged job is kept until it is printed, in one place, whole, under a number of its own, and is printed |
| **printer_status** (`ipp/printd.c`) | a buffer and three offsets | parse the answer of the printer | TCP cuts the answer anywhere | success exactly when the printer took this job; it returns |
| **print** (`ipp/print.c`), **ipp_util** (`ipp/util.c`) | - | the print command; configuration file, timed reads | the two sides agree on the end of the file | part of printd's model |
| **refcount** (`threads/mutex1-3.c`) | objects with a count, a hash table, two locks | alloc, find, hold, release | a count read and written under changing locks, destruction by the last holder | no reference lost, nobody holds an object that is gone, the last release frees it |
| **jobqueue** (`threads/rwlock.c`), **condvar** (`threads/condvar.c`) | doubly linked list under a reader-writer lock; a stack under a mutex | insert, append, remove, find; put, get | pointers of neighbours; wakeups | the list is a sequence, both ways; no message is lost |
| **threadctl** (`timeout.c`, `suspend.c`, `atfork.c`, `getenv*.c`) | a list of locks, a flag, a static buffer | retry later, wait for a signal, fork, getenv | lock held across a callback, recursive mutex, signal mask | a retry runs in time and under its own lock; a SIGQUIT ends the program |
| **daemons** (`lockfile.c`, `single.c`, `reread*.c`, `lib/daemonize.c`) | a lock file with a pid | become the only daemon, reread | two daemons that start together, one that restarts | at most one runs, and its pid is in the file |
| **opend** (`opend/`, `open/`, `open.fe/`, `opend.fe/`) | table of clients | accept, request, answer, close | select and poll over changing sets; requests in pieces | each request is answered once, to its client |
| **fdpass** (`lib/sendfd.c`, `recvfd.c`, `senderr.c`) | bytes and descriptors in a stream | send a descriptor or an error, receive | a message may come in pieces | the receiver gets the descriptor or the whole error |
| **tellwait** (`lib/tellwait.c`, `ipc/tellwait.c`) | one flag and a signal mask; two pipes | TELL, WAIT | a signal before the wait; one flag for two signals | parent and child take turns, nobody waits for ever |
| **popen, system, sleep** (`lib/popen.c`, `proc/system.c`, `signals/`, `lib/sleep.c`) | table of children, dispositions, an alarm | popen, pclose, system, sleep | a signal between test and wait; a child reaped by another | the status is the child's; sleep wakes |
| **record_locks** (`lib/lockreg.c`, `lib/locktest.c`, `lock/`) | locks per region | lock, test | deadlock | part of db's model |
| **socket_services** (`sockets/`) | - | ruptime over TCP and UDP | lost datagrams | retry |
| **pty** (`pty/`, `lib/ptyfork.c`) | two processes of one loop | copy both ways | each ends the other by a signal or end of file | both end; nothing typed is lost before |
| **coprocess** (`ipc/`) | two pipes | one request, one answer | buffering | no deadlock |
| file, stdio, environment, session, terminal demos | none | single calls | nothing | - |

Interaction: `db` processes share only the files and the record locks
(`lib/lockreg.c`). `print` talks to `printd` through one TCP connection per job
(`struct printreq`, the file, `struct printresp`); `printd`'s threads share the
queue under `joblock`, the list of client threads under `workerlock` and
`reread` under `configlock`; they are one system with the spool directory, which
is all that a restart finds. `opend` and its clients exchange descriptors
through `fdpass`.

`PROJECT.json` lists every component with its status, and under `hazards` what
in this code is hard to test, each at its line and with the properties that
would catch it.

## 2. The modules

```
Db ---- DbInv ---- MCDb                 Printd ---- PrintdInv ---- MCPrintd
 |        | \----- DbScan -- MCDbScan                |
 |        |  \---- (INSTANCE) DbMap                  \---- PrintdProofs
 |        \-- DbProofs -- DbListProofs -- DbMapProofs
 |                                          \-- DbScanProofs
 |
 |                                      PrinterStatus ---- MCPrinterStatus
 |                                          \-------- StatusProofs
 |                                      Workers ---- MCWorkers
 DbOpen                                 OpenServer ---- MCOpenServer
   |                                          \-------- OpenServerProofs
   |  Signals ---- SignalsInv ---- MCSignals
   |                   |            Objects
   |                   |               |
   +-------------------+-- SmallPrograms -- JobQueue, WorkQueue, Timeout,
                             |       |      SigThread, DaemonLock, Popen, PtyLoop
                 MCSmallPrograms   SmallProofs
```

### Db, DbInv, DbMap, DbScan: the database library

`Db` has the two files (`head`, `idx`, `dat`), the record locks (`rd`, `wr`),
and for every process where it is (`pc`), its call, its `DB` structure with the
local variables in use (`db`), the offset of its index descriptor (`pos`) and
the value it will return (`res`).

One action is one system call, or one lock request. A process has descriptors
of its own (`db_open` opens the files), so an `lseek` and the `read` or `write`
after it are one step. What follows a system call up to the next one is local
and belongs to the same step. `pc` labels name the code:

| labels | code |
|---|---|
| `find.*` | `_db_find_and_lock`, one step per record of the chain |
| `fetch.dat` | `_db_readdat` |
| `del.*` | `_db_dodelete`: free list lock, blank data record, free list pointer, blank index record, `_db_writeptr` twice, unlock |
| `ins.head`, `ff.*` | `db_store` of a new key, `_db_findfree` |
| `reuse.*`, `rep.dat`, `app.*`, `link` | the four ways `db_store` writes |
| `scan.*` | `db_nextrec` |

Abstractions:

* Offsets in the index file are an order-preserving numbering: 0 is the free
  list pointer, 1..NHash the hash table, then the records. Zero ends a list, as
  in the code. The three six-digit text fields of a record are numbers; the
  only thing that their width decides, `err_quit` on a pointer above `PTR_MAX`,
  is kept (`PtrMax`).
* An index record is written by one `writev` and is written by one step. It is
  read by two system calls, header and body, which the model joins: the fields
  of the header except the chain pointer never change (`SlotsKeepTheirSize`,
  checked), and while the pointer may change every reader holds a lock that
  excludes the writer, but for `db_nextrec`, which does not use the pointer.
* `pos` is 0 when the descriptor is not at the start of a record.
  `db_nextrec` then reads bytes that are no record and ends in `err_dump`
  (`ScanDump`).
* The fields of the handle are written before they are read in each call, so a
  returning call clears them. The counters of the handle, the check of `flag`
  and of the length of the data (`EINVAL`, `err_dump`), and failing system calls
  (`err_dump`) are left out; `sprintf` in `_db_writeidx` with an overlapping
  source is taken as the copy it is meant to be.
* `Killed` is a signal that kills the process at a label in `Mortal`, and
  drops its locks; `err_quit` and `err_dump` do the same.
* `db_open` is its result: an initialised database. Its own steps are `DbOpen`.

`DbInv` states what is correct and maps `Db` to `DbMap`, a map from keys to
values on which each call takes effect at one instant. The instants are: the
write of the index record for a new key, the write of the data record for a
replacement of the same length, the erasure of the data record for a deletion
(and for a replacement of another length, which deletes first; the chain's lock
hides that from everybody but `db_nextrec`), and the reads of the other calls.
`DbScan` adds history variables to state what a sequential scan may not miss.
Keys of spaces (`BlankKeys`), which a scan takes for erased records, are in the
model and left out of the runs: `ScanComplete` does not hold for them.

### Printd, PrintdInv: the spooling daemon

`Printd` has what survives a restart (`jobno` the job file, `data` and `reqs`
the spool files), the main thread with `build_qonstart`, the printer thread,
one client thread for each connection, and the print commands. A critical
section under `joblock` or `workerlock` is one step, and so is every call on a
file or a socket. `add_job` signals `jobwait` after it has released `joblock`:
that is two steps.

| steps | code |
|---|---|
| `main`: `scan`, `scan.signal`, `scan.unlink`, `run` | `init_request`, `build_qonstart`, `accept` |
| `wpc`: `header` ... `signal`, `undo.*` | `client_thread`, `get_newjobno`, `add_job` |
| `ppc`: `check` ... `sleep` | `printer_thread`, `update_jobno`, `init_printer` on `reread`, `printer_status` (its verdict only) |
| `cl`, `net`, `left` | `print.c`; `net` counts the header and the buffers in the socket |

Abstractions:

* The print command does not close its side before it has the answer, so the
  file ends when nothing has come for 20 s, or when the client is gone
  (`EndOfData`). A stall of a client that has more to send is a fault.
* Under the fault `disk` every `open`, `creat`, `write` and `unlink` of a spool
  file may fail. Nobody looks at the result of an `unlink` (`Unlinked`): the
  file stays, and the code goes on.
* The daemon reads whole buffers; a document is the number of buffers in the
  file. `fstat` fixes the size that is announced and sent, so `Open` takes the
  document as it is then.
* SIGTERM cancels the client threads and exits without waiting for them; the
  files are left as by a crash, and both are `Crash`. The list of client threads
  (`workers`) serves only this and closing the socket of a thread that ends. It
  is the module `Workers`, which shows that a second thread corrupts it; that
  this does not spread to other memory is assumed in `Printd`.
* `status` is what `printer_status` returns, `ok` or `refused`; that a job was
  taken and its answer lost is the fault `printer`. What the parser itself makes
  of an answer is `PrinterStatus`.
* Job numbers stop at `MaxId`; the wrap of the 32-bit number is not modelled.
  Spurious wakeups, wrong `errno` tests and the text of messages are left out.

`PrintedOnce` and `PrintedWhole` are action properties and hold under every
fault. `PrintedOnce` follows a job from the answer of the printer on: it is being
removed (`Removing`), then removed (`Removed`), and stays so; `RemovalFails`
names the ways out, after which it may be printed again. `PrintedWhole` follows
a file: when it is taken to have ended, what has been read and what the print
command has not written yet add up to the whole; from then on the data file does
not change; and it is what is sent.

### PrinterStatus: the parser of the printer's answer

`printer_status` and `readmore`, position by position, on an answer made of
tokens: a status line, the two halves of the name `Content-Length`, its value,
line ends, the IPP status and request id. The connection may cut the answer
anywhere, and each piece may be too late (`TooLate`): for the 5 s of the first
read or the 1 s of `readmore`. `buf` keeps what earlier reads left behind `nr`,
and before that what the memory of `malloc` held, an earlier answer for one
(`Memories`), because the code looks at it (`ContentLength`, `Parse`). The
status line arrives in one piece, and an IPP field is one token of four bytes.
`Regular` says what HTTP and IPP say of an answer as a whole: one status line,
perhaps behind a message that informs, at most one Content-Length, a blank line
that ends the header, a status in front of the body. `MCPrinterStatus` asserts
that its answers are regular.

### Workers: the list of client threads

`add_worker`, `kill_workers` and `client_cleanup` pointer by pointer, each one
step under `workerlock`. `cell` is memory: a structure that is freed keeps what
was in it until `malloc` hands it out again.

### OpenServer: the open server, its clients and what is between them

`version` is the program: the daemon with `select`, the daemon with `poll`, or
the server each client forks for itself. The server's state is `client[]`
(`table`), the set given to `select`, what `poll` said of each entry, and the
buffer `errmsg` that all requests share; a client's is where it is in `csopen`
and what `recv_fd` gave it. `up` and `down` are the streams, which cut a request
in two and an answer anywhere. One action is one system call. Requests are of
six kinds: one that opens, one that does not, one whose message leaves one byte
of the buffer, one that fills the server's buffer and does not open, one with
too many words, one longer than the buffer. The text about the fourth and the
last is longer than `errmsg`, and `sprintf` writes it there all the same
(`Overflows`). What lies behind `errmsg` depends on the build. The model has two
outcomes: nothing that the server uses, or something whose use ends the server
by a signal, at any moment from then on (`Overflow`). A build in which the text
changes another variable, and the server goes on with it, is left out.
`FreshRevents` is what the `revents` of a connection accepted in this pass may
hold, which nobody has written. Left out: options, logging, the copying of the
file, credentials, and failing calls but for `accept` and broken connections.

### Signals, SignalsInv: programs that live on signals

The 22 programs of `Main` are sequences of their calls (`Catch`, `Block`,
`Suspend`, `Alarm`, `Fork`, ...) and of their tests and assignments of flags, as
the source has them; `Functions` are those they call (`sleep`, `system`,
`TELL_WAIT`, ...), their handlers and the code of their children. `DoCatch` to
`DoReturn` are what the kernel does for one such call, `Deliver` what it does
for a signal: it runs a handler with the mask of `sigaction`, breaks off a call
or restarts it (`Interrupts`, from `lib/signal.c`), or ends the process. An
alarm rings at any moment. A process has a stack, so that a handler may be
interrupted, may call functions, and may be left by `longjmp`. Where the source
shows a function without a caller, or a daemon without its work, the program is
the smallest one that uses it (`aborts`, `reaping`, `reread`, `reread2`).

### Objects, JobQueue, WorkQueue, Timeout, SigThread: programs with threads

`Objects` has one object of `threads/mutex1.c`, `mutex2.c` or `mutex3.c`.
`foo_hold` and `foo_rele` take the lock of the version (`CountLock`) and read
the count in one step, and write it in another; `locks` has who holds which
lock, and `Held` the references threads have. In `mutex2.c` and `mutex3.c` no
object ever gets onto its hash chain, so `foo_find` finds none, and the release
of the last reference follows a null pointer (section 6). `JobQueue` has
`j_next`, `j_prev` and the two ends of `threads/rwlock.c` next to the sequence
`jobs` of what ought to be queued. `WorkQueue` is `threads/condvar.c`;
`enqueue_msg` signals after it has released the lock, which is two steps.
`Timeout` is `threadctl/timeout.c` with times of two fields (`SECTONSEC` units
make a second) and the recursive mutex; `SigThread` is `threadctl/suspend.c`.

### DbOpen, DaemonLock, Popen, PtyLoop: processes

`DbOpen` has processes that create (`O_CREAT | O_TRUNC`) or attach to one
database, system call by system call, and may die in between; a store is one
step. Either `open` may fail, and both are done before either result is looked
at. `DaemonLock` has starts of a command that goes through `daemonize` and
`already_running`; a record lock belongs to a process, so a fork or a close
loses it. `Popen` has the table `childpid[]` and, for each pipe, who has the
parent's end open. `PtyLoop` has the two processes of `pty/loop.c`,
whose reads and writes may fail.

### SmallPrograms

`SmallPrograms` runs one of these, chosen in the initial state by `which`; they
do not interact. It exists to let one run check them all; each module has a
specification or an initial state and a next-state relation of its own.

## 3. The runs

Every property of a passing run has a mutant: a change of one definition, as a
plausible mistake would make it, under which TLC finds the property violated.

| run | asks | bounds |
|---|---|---|
| `db_lists` | do the lists of the index file stay well formed, disjoint and complete, and is every fetch, store and delete atomic (refinement of `DbMap`)? | 2 processes, 3 keys on 2 chains, 2 lengths of values, 4 calls |
| `db_crash` | what survives when a process is killed, a pointer overflows, or a misplaced scan dumps; do the locks exclude and the calls of the others return? | the same keys, 4 calls, `PtrMax` = 5 |
| `db_scan` | does a scan return only pairs that are in the database, and every key that stays, once? | a scanner, a writer, 2 keys on one chain, 7 calls |
| `printd_crash` | is no acknowledged job lost over crashes and restarts, doubled, or left asleep? | 3 clients, every crash point, printer faults, SIGHUP with a configuration without a printer |
| `printd_exact` | is a document all that had been written when its file was taken to have ended, and does a job that was taken come to the printer again only when its removal had failed? | 2 clients, files of 2 buffers, crashes, disk and printer faults, clients that pause or die |
| `printd_live` | does every job get a number of its own, is every acknowledged job printed, does every client thread end? | 2 clients that may stall or die |
| `printd_reuse` | finding, section 6 | 2 clients |
| `status_verdict` | does the verdict come, and is it right, when the answer is cut where the parser copes, each piece in time or late? | 36 answers, every cut, 5 contents of memory |
| `opend` | does each client get the answer to its own request; does the table agree with the connections; can one client end or lose the service of another; is every request answered? | 2 clients, 2 requests in all of 6 kinds, the 3 servers, a table that grows by 1 |
| `small_programs` | each small program its own questions, below | below |
| `sleep_alarm` | finding, section 6 | `critical.c`, one signal |
| `workers_lost` | finding, section 6 | 2 client threads |

The properties of `small_programs` and the programs they speak about:

| property | says | bounds |
|---|---|---|
| `NoVainSleep` | no process sleeps for a signal that it has taken already | 3 signals from the user, 4 rounds of devzero |
| `CallsLeaveNoTrace` | `sleep` and `system` restore masks and actions, and `system` returns its own child's status | the same |
| `TurnsKept` | processes that tell and wait take turns; the kernel refuses one of the two of `deadlock.c` | the same |
| `MeantDeaths` | a signal ends a program only where its text means it to; `abort` always does | the same |
| `CountsAreRefs` | the count is the number of references, and no thread is within a call when the object goes; `mutex1.c` frees it with the last reference; `mutex2.c` and `mutex3.c` crash on the last release, and on no other | 3 threads, 3 references, 3 versions |
| `JobsKept` | the list is the queue, both ways, and `job_find` finds what is in it | 4 jobs |
| `HandedOver` | no message is lost or taken twice; a retry is in time, alone, under its own lock | 2 workers, 3 messages; 9 times over 3 seconds |
| `OpensHarmless` | an initialisation under the lock wipes out no record; who has created a database finds its pointers; a lone creator whose index opens loses no data | 3 processes |
| `OneDaemon` | one daemon runs, and the lock file has its pid and nothing else | 3 starts, 1 is killed |
| `ProgramsTerminate` | programs with an alarm, a child or an answer to wait for end; `pclose` returns; both processes of `pty` end, unless its output has failed | 3 commands, 2 descriptors; 2 buffers each way |
| `ThreadsEnd` | every message is processed; main returns from its timeout; SIGQUIT ends `suspend.c` | as above |

Why these bounds. *db*: two processes are enough for every conflict of two
calls, which is what a lock is for; three keys on two chains give a chain of two
records, a second chain that shares the free list with it, and reuse across
chains; four calls suffice to append, delete, reuse and replace while another
call is in progress. Values of two lengths make a freed record fit or not. The
flags `INSERT` and `REPLACE` and fetch are tried on one key (`Everyone`), values
change their length on one key of each chain (`Writers`), and in `db_crash` on
one key only (`FewWriters`); this keeps a run at two minutes. A scan needs two
stores, a rewind and a `db_nextrec` per record and one for the end, with a
delete in between: seven calls. `PtrMax` = 5 holds three records, so the fourth
append overflows. `db_crash` takes as crash points all labels but `del.sethead`
and `del.unlink`: between the two pointer writes the chain runs into the free
list, and a death there loses the other keys of the chain. That is a limit of
the design which the code does not claim to overcome. *printd*: three jobs make
a queue with a middle; two are enough where the question is one job against
another. *status*: the answers have up to two header lines before Content-Length
and one after it, every verdict, and an interim answer in front or none; `clean`
records whether all cuts so far were of the kind the parser copes with
(`CopesWith`). *opend*: an error of the shared state needs a second client and a
request after another's; a table that grows by one entry grows, and is reused
when a client leaves. *small_programs*: three signals are one for a handler, one
during it and one after it, three threads (or processes) are one more than the
two that race, so that one finds what the two have left; four jobs have a head,
a tail, a middle and one that comes later; three commands are one that is waited
for, one started after it and one that gets the descriptor of the first again.
No larger instance of these programs has another kind of step.

Deadlock is not checked: calls are bounded by `MaxCalls`, every print command
runs once, the parser ends, requests and signals are bounded, so all of these
stop. Circular waiting is found by `CallsReturn`, `AckedJobsPrinted`,
`ClientThreadsEnd`, `Served`, `ProgramsTerminate` and `ThreadsEnd` instead.

## 4. Fairness

* `Db!FairSpec`: weak fairness of each process's steps inside a call. The
  kernel grants a free lock to a waiting `fcntl`, and a process that can run
  runs. Calls are bounded, so a lock that is free again and again but never
  granted is not in question. Nothing makes a process begin a call.
* `PrintdInv!Fairness`: weak fairness of main thread, client threads and printer
  thread. Strong fairness of `Connect`, `Send` and `Confirmed`: a printer that
  is asked again and again answers well at last. Nothing is assumed of clients:
  timeouts (`NoHeader`, `EndOfData`) end their threads. That the printer takes a
  job in the end assumes away a job that is refused for ever, which goes back to
  the head of the queue and keeps the others waiting; the code has nothing
  against it.
* `PrinterStatus!FairSpec`: the thread runs.
* `OpenServer!OpenFairness`: the server runs, and clients read answers that are
  there. Nothing makes a client ask, or leave.
* `SmallPrograms!SmallFairness`: a process or thread of the program that runs,
  takes its next step. Of `Signals` this includes that an alarm rings and that a
  pending signal is delivered; signals of the user and input from the terminal
  may never come. A command at the other end of a pipe reacts to the end of its
  pipe, and nothing else is assumed of it. In `PtyLoop` the parent and the
  child's own steps are fair; standard input and the program on the pty are not.

## 5. What is proved

TLAPS checks the 28 theorems that `PROJECT.json` lists. None bounds the number
of processes, clients, keys, chains, calls, buffers, jobs or messages; what each
assumes is in the third column. The assumptions on constants that all of them
share are the named ones of the modules (`DbAssumption`, `NamesAssumption`,
`PrintdAssumption`, ...): types, naturals, and names for "none" and "not yet"
that are nothing else, no record (key and data) either.

| theorem | states | as long as |
|---|---|---|
| `DbProofs!Typed` | `TypeOK` | |
| `DbProofs!PointersStayValid` | `PointersValid`: no read leads outside a file | |
| `DbProofs!MutualExclusion` | `Exclusion` | |
| `DbListProofs!SizesAreKept` | `SlotsKeepTheirSize` | |
| `DbListProofs!IndexStaysWellFormed` | `IndexWellFormed`: disjoint finite lists, live records on the chain they hash to, erased ones on the free list | nobody is killed at `del.sethead`, `del.unlink` |
| `DbListProofs!WalkersStayOnLiveRecords` | `WalkersOnLiveRecords` | the same |
| `DbListProofs!RecordsAreKept` | `NoRecordLost` | the same, nobody is killed with a record in its hands, and all offsets fit `PTR_MAX` |
| `DbMapProofs!KeysSurviveOthers` | `KeysSurvive` | nobody is killed at `del.sethead`, `del.unlink` |
| `DbMapProofs!MapRefinement` | `ImplementsMap`: every call of the library takes effect at one instant | no process dies (`[]Alive`) |
| `DbScanProofs!ScansAreComplete` | `ScanComplete` | a process that rewinds its handle makes no calls on it but `db_rewind` and `db_nextrec`, no key consists of spaces, and no process dies |
| `PrintdProofs!WakeupsArrive` | `NoLostWakeup` | |
| `PrintdProofs!NoJobTwice` | `OnePlace` | |
| `PrintdProofs!GhostsHavePrinted` | `GhostsArePrinted` | no call on a spool file fails |
| `PrintdProofs!JobsAreKept` | `AckedJobsKept` | no call on a spool file fails |
| `PrintdProofs!WholeFiles` | `PrintedWhole`: what is printed is what had been written when the file was taken to have ended | |
| `PrintdProofs!PrintedAtMostOnce` | `PrintedOnce`: a job that was taken is removed unless its removal fails, and does not come back | |
| `PrintdProofs!FreshNumbers` | `NumbersFresh` | the daemon does not end, and no call on a spool file fails |
| `StatusProofs!VerdictIsRight` | `Verdict`, whatever the memory held and whichever piece is late | answers are `Regular`: they have the form of HTTP and IPP |
| `OpenServerProofs!OpenServerInvariant` | the inductive invariant of the three servers | |
| `OpenServerProofs!AnswersAreMine` | `AnswersMatch` | |
| `OpenServerProofs!TableStaysTrue` | `TableAgrees` | |
| `OpenServerProofs!DaemonOutlivesClients` | `DiesOfClients`: what a client can end the server by | |
| `OpenServerProofs!OnlyNewcomersAreDropped` | `DropsNewcomersOnly` | |
| `SmallProofs!CountIsHolders` | `CountsAreRefs`: `mutex1.c` frees the object with the last reference, the other two crash there | |
| `SmallProofs!OneDaemonRuns` | `OneDaemon` | |
| `SmallProofs!OpenersDoNoHarm` | `OpensHarmless` (which excepts a lone creator whose index file did not open) | |
| `SmallProofs!NothingLostBetweenThreads` | `HandedOver` | |
| `SmallProofs!JobsStayInTheQueue` | `JobsKept` (which speaks of the list while `torn = "no"`) | |

The third column is what the code needs, and no run that passes goes beyond it.
Where it is empty, all faults of the module are meant, and what they can do is
in the property. A process killed at `del.sethead` or `del.unlink` leaves its
record on both lists; a process killed with a record that is on no list loses
it, and so does one that ends because the record's offset does not fit its
field. `Alive` is an assumption on the behaviour and not on the constants. For
the refinement: a process may be killed, or end by `err_dump` on an offset too
large or on the locked read of a scan, and up to that step the refinement holds;
after it, a call of `DbMap` would have to end without its return, with the half
of a store or of a deletion that the process has written. A crash or a failing
call between the two files of a job is what the spool directory's order of
writes cannot mend entirely (section 6). `AckedJobsKept` itself leaves out the
jobs whose numbers a restart has issued again, which is the first finding.

### The arguments

*`Typed`, `PointersStayValid`.* `TypeOK` and `PointersValid` are not inductive:
a step copies what an earlier step left in the handle, so one must know at which
label which field is set, and that a call's record has the fields its label
uses. `TypeInv` says so, and includes both. The lemmas say once what each kind
of step can do to the files: append a record, overwrite one, set a pointer
(`SetPtr`), or nothing; in each case old offsets stay valid, since files only
grow.

*`MutualExclusion`.* `LockInv` says for each lock who holds it, label by
label (a process between `find.head` and `unlock` holds its chain's lock, for
writing unless it fetches; between `del.dat` and `del.unlock`, and between
`ff.head` and `ff.unlock`, the free list's; and so on), that a writer is alone,
and that nobody holds what it is not entitled to. A step of one process changes
only its own entries (`rd`, `wr`, `pc`, `call`, `db`), so the invariant of the
others is kept by a frame lemma, and `Exclusion` follows: two processes in the
same section would both be the only holder of one lock.

*The lists.* Lists in a file are not an inductive data type, and the provers do
no induction over data. `ListState(L, R)` therefore speaks of sets: `L[l]` is
the set of places of list `l`, and `R[l]` gives each a rank, so that a place
points to the one of the next lower rank (`Linked`). Putting a record in front
gives it a rank above the others (`PutInFront`), taking one out leaves the
others theirs (`TakeOut`); neither needs to know how long the list is.
`ListInv` says that such `L` and `R` exist, with what is in the lists
(`Contents`), and for each process what it knows of them where it stands
(`Doing`): a walker stands on a member of its chain, and has passed no record
of its key; one that erases holds the record and its predecessor; a record that
is in nobody's list is held by one process (`Apart`). The steps that touch a
list of somebody else are excluded by `LockInv`; the steps that only move a
process (`QuietLists`), write data (`DatLists`), or relink are a lemma each.
That the sets are the sequences `IndexWellFormed` speaks of, which are defined
by a walk of `Len(idx)` steps, is `WalkOfList`: the number of members of lower
rank goes down with each step. `SlotInv`, for `SizesAreKept`, says that whoever
is about to write a record has found it to fit.

*The map.* `Lookup`, which walks a chain, is first stated by membership
(`FoundIs`, `LookupIs`): a key has the value of the one live record of its chain
that has it, in any order. `FilesChange` says for each step which records it
writes and by which process, so that what is found under a key stays unless a
store or a delete of that key has it in hand (`LookupStays`); `KeysSurvive`
follows, with crashes. The refinement needs more knowledge of values.
`AnswerInv` gives the result a call carries and the branch it is on, label by
label; `CarryInv` says that the data written for a new record is that of the
call, and that what a scan has read of a record is still in the file; `Placed`
that every live record is on the chain of its key or in the hands of the process
that is about to link it, for which nobody may have died. Two calls that have
taken effect and not yet written what the chain shows are never on one key
(`KeyAlone`), so `AbsMap`, defined by `CHOOSE`, has one value (`MapIs`). Then
each step is an invocation, a return, the one step by which a call takes effect
(`TakesEffect`), or changes nothing of the map, before that step
(`EarlyRefines`) or after it (`LateRefines`).

*The scan.* `ScanInv` follows the history of a scan: each key it owes is that of
a record in the file, and has been returned once if the scan is past that
record (`Passed`), and not at all if it is still before it. What makes this
inductive is in the invariants of the map: a key has one record, on its chain or
in the hands of the process that is about to link it (`OneRecord`), that record
never moves (`OwedStays`), and a key whose record is being erased is owed to
nobody. A scan goes on by one record with each step (`PassedNext`), and ends
when it is past the last. A record that a process took with it when it died
could be a second one of its key, which is why nobody may die.

*The printer's answer.* `Follows` says at each label how the buffer and the
offsets lie over the answer: behind a message that informs, `buf[k]` is the k-th
token of the rest, for all that has been read (`Copied`), and no more than four
tokens of that message are left behind it; before the name is found there is
none up to `i` (`Searching`), and when it is, the whole header has come
(`AtName`), so that the loops end at the blank line (`InHeader`) and the last
read is that of the body (`AtBody`). `Layouts` says where `Regular` puts the
name and the blank line. The labels `more.value` and `spin` are never reached
then: the parser copes.

*`WakeupsArrive`.* `NoLostWakeup` is inductive once the steps of
threads and print commands are typed and a print command that has not connected
is known to have no thread (`Threads`): else `Accept` could overwrite a thread
that has yet to signal. The queue grows in `ScanAdd` and `AddJob`, which leave
their thread at the signal, and in `Defer`, when the printer thread is awake; it
goes to sleep on an empty queue only; a signal that is sent wakes it.

*The jobs.* `SpoolInv` ties together, for each number, who has it: a client
thread between `get_newjobno` and `add_job`, the queue, the printer thread, or
the start-up scan; and what this one's files are at that step. It holds whatever
fails. Each of the results adds one conjunct that is inductive beside it and
needs what the table says: `Ghosts` (a control file whose data is gone belongs
to a printed or a reissued job, while unlinks succeed), `Kept` (an acknowledged
job is in the queue, with the printer thread, or still to be scanned, and has
both files), `OnDisk` (a thread that fills a data file still has it, and the
document that is being sent is the data file: `Unlinkings` lists who unlinks
one, and none of them has the number then), `Numbered` (what is printed had a
number), `Fresh` (every number in use is below `nextjob` and has one client).

*The open server.* `OpenServerInv` follows each conversation through the socket:
what a client has asked and not been answered is in exactly one of `up`, the
server's buffer, or `down`, in that order, and carries its name; a descriptor
that is in `client[]` is an open connection, and the other way round between two
passes; `errmsg`, which all requests share, is sent in the step sequence that
filled it. It holds for the daemon with `select`, the daemon with `poll`, and
the server that is a child of its client.

*The small programs.* `CountsAreRefs` is not inductive alone. `ObjInv` adds that
a thread that has read the count holds the lock that protects it, and the count
is still what it has read (`ObjLocked`); that a thread within a call has a
reference (`ObjRefs`); and that no object is ever on its chain, so that the
search in `foo_rele` follows `NULL` at once. A reference taken or given up
changes the cardinality of `Held` by one. `DaemonInv` says that who has passed
`lockfile` has the lock, and the others have not. `OpenInv` says what an opener
has seen of the file's size, that a creator has the write lock from before it
looks until the pointers are there, and whose open of the index succeeded.
`WorkInv` says that each message is in one place, and `TimeInv` who has the
recursive mutex, how often, and that the helper sleeps the time that was left.
`JobInv` says that while no stale pointer has been followed, `j_next` and
`j_prev` of the members of `jobs` are its neighbours; `job_remove` is the lemma
`TakenOut` about sequences without repetition.

### What is only model-checked

* `NoVainSleep`, `CallsLeaveNoTrace`, `TurnsKept`, `MeantDeaths`: `Signals` runs
  22 concrete programs; there is no parameter that a proof would free, except
  the number of signals. `ImplementsMap` and `ScanComplete` after a process has
  died, and `Verdict` on answers that no printer should send, are not claimed.
* Liveness under fairness, which TLAPS cannot prove: `CallsReturn`,
  `AckedJobsPrinted`, `ClientThreadsEnd`, `StatusReturns`, `Served`,
  `ProgramsTerminate`, `ThreadsEnd`.
* The findings, which are counterexamples.

## 6. Findings

Three have a run that ends in a counterexample:

* `printd_reuse`: the job file is written only when the printer thread picks a
  job, and is trusted at a restart: a crash before that reissues the number of a
  job that is still spooled, whose data file is then emptied.
* `workers_lost`: `add_worker` never makes a new structure the head of a list
  that is not empty. The second of two client threads is on no list: SIGTERM
  does not cancel it, and its socket stays open when it ends. The first
  structure's `prev` then points to the lost one, so when the first thread ends,
  it unlinks itself from there and leaves the head on freed memory.
* `sleep_alarm`: `sleep` restores the caller's action for SIGALRM while the
  signal may be pending. Another signal ends its wait, the alarm rings before
  `alarm(0)`, and resetting the mask delivers it to the default action, which
  ends the program.

The others are in the models, where a property leaves them out by name, or are
left to the environment:

* A scan shares its descriptor's offset with all other calls on the handle. A
  fetch or store between two `db_nextrec` makes the next one read the middle of
  a record and end in `err_dump` (`ScanDump`); the comments ask for one
  `db_rewind`, before the first call only. `ScanComplete` is about scans that
  the scanner does not interrupt.
* A key of spaces is stored and fetched, but a scan takes it for a deleted
  record (`BlankKeys`).
* `db_open` empties the data file at `open`, before it asks for the lock: with
  two creators, one may empty it after the other has initialised the index and
  stored records, whose index records then lead nowhere (`DataKept` is about a
  lone creator). A process that opens without `O_CREAT` takes no lock, and may
  find no pointers yet.
* `db_open` opens the data file even when the open of the index file has failed,
  with `O_TRUNC` for a creator, and only then returns `NULL` (`db.c:128-147`). A
  creator with no access to an existing index (or no descriptor left for it)
  empties the data file of the database, whose index still has its records
  (`EmptiesDataOnly`).
* The results of `unlink` are ignored: a printed job whose control file stays is
  queued again at the next restart, and printed if its data file stayed too.
  `PrintedOnce` names the case (`RemovalFails`).
* A piece of the printer's answer that is late by 1 s makes the daemon print a
  job again that the printer took, which the code means to do.
* A pause of 20 s, a lost connection and the end of the file all
  end the loop that spools. A file whose transfer stalls is acknowledged and
  printed in part; `req.size` is never compared with what came. `PrintedWhole`
  says what such a document is, what had been written when its file was taken to
  have ended, and that nothing else cuts one.
* The second piece of the body of the printer's answer is read
  over the first, since `readmore` gets the offset of the body and not the end
  of what has come. The parser then looks at what the buffer held before. When
  `malloc` returns the memory of an earlier answer, that may say that the
  printer took the job, and a refused job is removed. `CopesWith` excludes a
  body in two pieces, and a name cut in two.
* `foo_alloc` of `mutex2.c` (line 40) and `mutex3.c` (line 39) assigns `f_next`,
  not the object, to the hash chain. `foo_find` finds nothing, no object is ever
  freed, and the release of the last reference follows `NULL` (`segv`), which
  `CountsAreRefs` states of these two versions. `mutex3.c` returns from
  `foo_alloc` with the object's lock held.
* `job_remove` resets neither `j_prev` of a new head nor `j_next` of a new tail.
  `job_find` may then return a job that was removed, and when the new tail is
  the only job left, removing it makes the removed job the head of the list
  (`torn`).
* An answer cut inside the header behind Content-Length makes the printer thread
  loop for ever; when one read returns an interim answer and the final one, both
  are dropped and the job is printed again. `CopesWith` says which cuts
  `Verdict` and `StatusReturns` are about.
* `WAIT_PARENT` and `WAIT_CHILD` unblock the signals they waited for: the
  second wait of `devzero.c` may miss its signal between the test of the flag
  and `sigsuspend` (`MayMiss`). Linked with `ipc/tellwait.c` it does not
  (`devzero_pipe`).
* A SIGTERM that reaches the parent of `pty/loop.c` between its test and its
  `read` does not interrupt that read; it goes on until the program ends. A
  parent whose standard output fails ends in `err_sys`, or by SIGPIPE, without
  a signal to its child, which goes on waiting for input (`PtyLoopEnds` excepts
  a parent at `failed`).
* `request` formats up to `MAXLINE` bytes of a request, with text around them,
  into `errmsg[MAXLINE]`: a long request writes behind it, in the daemon that
  serves all clients. `DiesOfClients` names it among the ways in which a client
  may end the server (`srv.over`).
* The open server ends when a client dies in the middle of a request, or waits
  longer than `STALE` seconds to be accepted; a request longer than its buffer
  is answered twice; `poll`'s loop looks at `revents` of a newcomer that nobody
  has written; `buf_args` refuses without a message of its own.

## 7. Plan

1. **Refinement**: `PipeWait*` as the specification of `WAIT_*` where a process
   waits once.
2. **Proofs**: the refinement of `DbMap` with processes that die, for which
   `DbMap` needs a call that ends half done.
3. **Printd with Workers**: the dangling head of the list as a fault of the
   daemon.
4. **ruptime** over datagrams (`sockets/`), with its lost packets.

## 8. Not modelled

The programs that show one call of the file, stdio, terminal, environment,
process or session interfaces (`file/`, `stdio/`, `mycat/`, `advio/`,
`datafiles/`, `environ/`, `sess/`, `termios/`, parts of `proc/`, `ipc/` and
`streams/`) keep no state in which an interleaving could matter. Nor do
`threads/exitstatus.c` and the other programs about `pthread_exit`, `atfork.c`
(two locks, taken by its prepare handler only) and the coprocesses of `ipc/`
(one request, one answer). `getenv1.c` and `getenv3.c` return a buffer that the
next call overwrites, which is what they are there to show. The `ruptime`
services of `sockets/` answer one request per connection and keep no state
between two. In `pty/`, opening the terminal and the driver program are left
out; in `lib/`, terminal modes, `openmax` and the names of terminals. Error
reporting (`lib/error*.c`), formatting, makefiles and headers are left out. The
modules describe the kernel (record locks, sockets, signals) only as far as the
programs use it.
