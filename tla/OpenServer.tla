----------------------------- MODULE OpenServer -----------------------------
(* The open server: clients send the name of a file over a UNIX domain       *)
(* stream and receive a descriptor, or a message and a status.  `version' is  *)
(* the program that runs: the daemon with select (opend/loop.select.c) or     *)
(* with poll (opend/loop.poll.c), which serves all clients, or the child of   *)
(* one client (open.fe/, opend.fe/).  A descriptor stands for its client.     *)
EXTENDS Naturals, Sequences, FiniteSets, FiniteSetsExt

CONSTANTS
    Clients,       \* client processes
    NoClient,      \* the -1 of client[i].fd
    Listener,      \* the descriptor clients connect to
    Versions,      \* programs to look at, a subset of {"select", "poll", "fe"}
    Kinds,         \* what a client may ask for, see Requests
    QLen,          \* QLEN, connections that wait to be accepted
    NAlloc,        \* NALLOC, entries by which client[] grows
    BufLen,        \* MAXLINE of recv_fd; a piece of text counts as one
    MaxRequests,   \* bound: requests of all clients
    FreshRevents,  \* what memory from malloc may hold in revents
    OpenFaults     \* {"leave": clients die in a request, "stale": names age}

ASSUME OpenAssumption ==
    /\ NoClient \notin Clients /\ Listener \notin Clients
    /\ NoClient # Listener
    /\ Versions \subseteq {"select", "poll", "fe"}
    /\ Kinds \subseteq {"ok", "absent", "edge", "brim", "words", "long"}
    /\ QLen \in Nat \ {0} /\ NAlloc \in Nat \ {0} /\ BufLen \in Nat \ (0 .. 2)
    /\ FreshRevents \subseteq SUBSET {"in", "hup"}

VARIABLES
    version,
    name,      \* the path a client binds for serv_accept: none, fresh, stale
    backlog,   \* clients connected and not yet accepted
    conn,      \* the server's end: none, queued, open, closed
    up, down,  \* bytes on the way to the server and to the client
    cli,       \* per client: label, request in hand, what came back
    srv,       \* the server: label, rset, index, maxi, request in hand, and
               \* whether it has written beyond the end of errmsg
    table,     \* client[]
    allset,    \* descriptors given to select
    revents,   \* what poll said of pollfd[i]
    errmsg     \* the global buffer: whose request it is about, its length

netvars  == <<name, backlog, conn, up, down>>
srvvars  == <<srv, table, allset, revents, errmsg>>
openvars == <<version, netvars, cli, srvvars>>

---------------------------------------------------------------------------
(* Requests: "ok" opens; "absent" does not, and "edge" neither, with a text   *)
(* that leaves one byte of recv_fd's buffer, nor does "brim", with a text     *)
(* that errmsg has no room for; "words" has more words than buf_args takes;   *)
(* "long" exceeds the server's buffer and is read in two.                     *)

Empty == [of |-> NoClient, len |-> 0]

Pieces(c, n, k) ==
    IF k = "long"
    THEN <<[of |-> <<c, n>>, kind |-> k, last |-> FALSE],
           [of |-> <<c, n>>, kind |-> k, last |-> TRUE]>>
    ELSE <<[of |-> <<c, n>>, kind |-> k, last |-> TRUE]>>

Text(e)       == [i \in 1 .. e.len |-> [t |-> "text", of |-> e.of]]
Status(ok, r) == <<[t |-> "null"], [t |-> "status", ok |-> ok, of |-> r]>>

(* A client that ends forgets its last answer. *)
Ended(m, mid) == [m EXCEPT !.pc = "left", !.texts = {}, !.of = NoClient, !.mid = mid]

Asked == MapThenSumSet(LAMBDA c : cli[c].n, Clients)

Left(c)    == cli[c].pc = "left"
Gone(c)    == conn[c] = "closed"
Readable(c) == conn[c] = "open" /\ (up[c] # <<>> \/ Left(c))

OpenInit ==
    /\ version \in Versions
    /\ name = [c \in Clients |-> "none"]
    /\ backlog = <<>>
    /\ conn = [c \in Clients |-> "none"]
    /\ up = [c \in Clients |-> <<>>] /\ down = [c \in Clients |-> <<>>]
    /\ cli = [c \in Clients |-> [pc |-> "idle", n |-> 0, kind |-> "ok",
                                 texts |-> {}, res |-> "none", of |-> NoClient,
                                 split |-> FALSE, mid |-> FALSE]]
    /\ srv = [pc |-> "start", rset |-> {}, i |-> 1, maxi |-> 0,
              req |-> NoClient, told |-> TRUE, over |-> FALSE]
    /\ table = <<>> /\ allset = {} /\ revents = <<>>
    /\ errmsg = Empty

---------------------------------------------------------------------------
(* The client: csopen, cli_conn, recv_fd and main of open.fe.                 *)

(* cli_conn: socket, unlink, bind and chmod of a name made of the pid. *)
Bind(c) ==
    /\ version # "fe" /\ cli[c].pc = "idle"
    /\ cli' = [cli EXCEPT ![c].pc = "bound"]
    /\ name' = [name EXCEPT ![c] = "fresh"]
    /\ UNCHANGED <<version, backlog, conn, up, down, srvvars>>

(* The name gets older than STALE seconds before it is looked at. *)
NameAges(c) ==
    /\ "stale" \in OpenFaults /\ name[c] = "fresh"
    /\ name' = [name EXCEPT ![c] = "stale"]
    /\ UNCHANGED <<version, backlog, conn, up, down, cli, srvvars>>

(* serv_listen has been called. *)
Listening == srv.pc \notin {"start", "dead"}

(* connect, which err_sys ends when nobody listens. *)
Connect(c) ==
    /\ cli[c].pc = "bound"
    /\ \/ /\ ~Listening
          /\ cli' = [cli EXCEPT ![c].pc = "left"]
          /\ UNCHANGED <<backlog, conn>>
       \/ /\ Listening /\ Len(backlog) < QLen
          /\ cli' = [cli EXCEPT ![c].pc = "ready"]
          /\ backlog' = Append(backlog, c)
          /\ conn' = [conn EXCEPT ![c] = "queued"]
    /\ UNCHANGED <<version, name, up, down, srvvars>>

(* csopen of open.fe forks the server the first time, for one client. *)
Spawn(c) ==
    /\ version = "fe" /\ cli[c].pc = "idle" /\ srv.pc = "start"
    /\ cli' = [cli EXCEPT ![c].pc = "ready"]
    /\ conn' = [conn EXCEPT ![c] = "open"]
    /\ srv' = [srv EXCEPT !.pc = "loop"]
    /\ UNCHANGED <<version, name, backlog, up, down, table, allset, revents, errmsg>>

(* The writev of csopen.  Once the server is gone it raises SIGPIPE. *)
Send(c, k) ==
    /\ cli[c].pc = "ready" /\ Asked < MaxRequests
    /\ LET n == cli[c].n + 1 IN
       IF Gone(c)
       THEN cli' = [cli EXCEPT ![c] = Ended(@, FALSE)] /\ UNCHANGED up
       ELSE /\ cli' = [cli EXCEPT ![c] = [@ EXCEPT !.pc = "wait", !.n = n, !.kind = k,
                            !.texts = {}, !.of = NoClient, !.res = "none",
                            !.split = cli[c].split \/ k = "long"]]
            /\ up' = [up EXCEPT ![c] = @ \o Pieces(c, n, k)]
    /\ UNCHANGED <<version, name, backlog, conn, down, srvvars>>

(* How much a recvmsg returns: one message, or all that is there. *)
FirstMessage(d) ==
    Min({i \in DOMAIN d : \/ d[i].t = "status"
                          \/ d[i].t = "text" /\ (i = Len(d) \/ d[i+1].t = "null")})
Amounts(d) == {Min({BufLen, FirstMessage(d)}), Min({BufLen, Len(d)})}

(* One turn of the loop of recv_fd: text goes to stderr; a null byte must be   *)
(* the last but one, and the status follows.                                   *)
Recv(c) ==
    /\ cli[c].pc = "wait"
    /\ \/ /\ down[c] = <<>> /\ Gone(c)
          /\ cli' = [cli EXCEPT ![c].pc = "ready", ![c].res = "closed"]
          /\ UNCHANGED down
       \/ /\ down[c] # <<>>
          /\ \E nr \in Amounts(down[c]) :
             LET buf   == SubSeq(down[c], 1, nr)
                 nulls == {i \in 1 .. nr : buf[i].t = "null"}
                 texts == cli[c].texts \cup {buf[i].of : i \in {j \in 1 .. nr : buf[j].t = "text"}}
                 last  == buf[nr]
             IN  /\ down' = [down EXCEPT ![c] = SubSeq(@, nr + 1, Len(@))]
                 /\ cli' = [cli EXCEPT ![c] =
                      IF nulls = {} THEN [@ EXCEPT !.texts = texts]
                      ELSE IF Min(nulls) # nr - 1
                      THEN [Ended(@, TRUE) EXCEPT !.res = "dump"]
                      ELSE [@ EXCEPT !.pc = "ready", !.texts = texts, !.of = last.of,
                                     !.res = IF last.ok THEN "fd" ELSE "error"]]
    /\ UNCHANGED <<version, name, backlog, conn, up, srvvars>>

(* The client has no more names to ask for, or dies in the middle. *)
Exit(c) ==
    /\ cli[c].pc = "ready"
    /\ cli' = [cli EXCEPT ![c] = Ended(@, FALSE)]
    /\ UNCHANGED <<version, netvars, srvvars>>

Leave(c) ==
    /\ "leave" \in OpenFaults /\ cli[c].pc = "wait"
    /\ cli' = [cli EXCEPT ![c] = Ended(@, TRUE)]
    /\ UNCHANGED <<version, netvars, srvvars>>

---------------------------------------------------------------------------
(* client.c *)

ClientAlloc(tb) == tb \o [i \in 1 .. NAlloc |-> NoClient]

Slot(tb) == Min({i \in 1 .. Len(tb) + 1 : i > Len(tb) \/ tb[i] = NoClient})

ClientAdd(tb, fd) ==
    LET big == IF Slot(tb) > Len(tb) THEN ClientAlloc(tb) ELSE tb
    IN  [big EXCEPT ![Slot(tb)] = fd]

ClientDel(tb, fd) == [i \in DOMAIN tb |-> IF tb[i] = fd THEN NoClient ELSE tb[i]]

(* The server ends, by log_sys or by a signal, and its descriptors close. *)
Die ==
    /\ srv' = [srv EXCEPT !.pc = "dead", !.rset = {}, !.req = NoClient]
    /\ conn' = [c \in Clients |-> IF conn[c] = "none" THEN "none" ELSE "closed"]
    /\ backlog' = <<>>
    /\ UNCHANGED <<version, name, up, down, cli, table, allset, revents, errmsg>>

(* loop up to its for: serv_listen; with poll the listener takes entry 0. *)
ListenSelect ==
    /\ version = "select" /\ srv.pc = "start"
    /\ allset' = {Listener}
    /\ srv' = [srv EXCEPT !.pc = "loop"]
    /\ UNCHANGED <<version, netvars, cli, table, revents, errmsg>>

ListenPoll ==
    /\ version = "poll" /\ srv.pc = "start"
    /\ table' = ClientAdd(<<>>, Listener)
    /\ srv' = [srv EXCEPT !.pc = "loop", !.maxi = 1]
    /\ UNCHANGED <<version, netvars, cli, allset, revents, errmsg>>

(* select: one new connection, or a pass over the clients. *)
Select ==
    LET ready == {c \in allset \ {Listener} : Readable(c)}
                   \cup {l \in allset : l = Listener /\ backlog # <<>>}
    IN  /\ version = "select" /\ srv.pc = "loop"
        /\ ready # {}
        /\ srv' = [srv EXCEPT !.rset = ready, !.i = 1,
                              !.pc = IF Listener \in ready THEN "accept" ELSE "scan"]
        /\ UNCHANGED <<version, netvars, cli, table, allset, revents, errmsg>>

(* poll: revents of every entry up to maxi; a free entry has none. *)
Poll ==
    LET ev(i) == CASE table[i] = NoClient -> {}
                   [] table[i] = Listener -> IF backlog # <<>> THEN {"in"} ELSE {}
                   [] OTHER -> {e \in {"in", "hup"} :
                                  IF e = "in" THEN Readable(table[i]) ELSE Left(table[i])}
        now == [i \in 1 .. srv.maxi |-> ev(i)]
    IN  /\ version = "poll" /\ srv.pc = "loop"
        /\ \E i \in 1 .. srv.maxi : now[i] # {}
        /\ revents' = now
        /\ srv' = [srv EXCEPT !.i = 2, !.pc = IF now[1] # {} THEN "accept" ELSE "scan"]
        /\ UNCHANGED <<version, netvars, cli, table, allset, errmsg>>

(* serv_accept: a name that is too old is an error, and log_sys ends the       *)
(* server; else the name is removed.                                            *)
ServAccept ==
    /\ srv.pc = "accept" /\ name[Head(backlog)] # "stale"
    /\ backlog' = Tail(backlog)
    /\ name' = [name EXCEPT ![Head(backlog)] = "none"]
    /\ conn' = [conn EXCEPT ![Head(backlog)] = "open"]
    /\ table' = ClientAdd(table, Head(backlog))

AcceptFails == srv.pc = "accept" /\ name[Head(backlog)] = "stale" /\ Die

AcceptSelect ==
    /\ version = "select" /\ ServAccept
    /\ allset' = allset \cup {Head(backlog)}
    /\ srv' = [srv EXCEPT !.pc = "loop", !.maxi = Max({@, Slot(table)})]
    /\ UNCHANGED <<version, up, down, cli, revents, errmsg>>

(* The pass over the clients follows at once.  The entry of pollfd[] beyond maxi *)
(* was never polled: its revents is what malloc left there.                        *)
AcceptPoll ==
    /\ version = "poll" /\ ServAccept
    /\ IF Slot(table) > srv.maxi
       THEN \E r \in FreshRevents : revents' = Append(revents, r)
       ELSE UNCHANGED revents
    /\ srv' = [srv EXCEPT !.pc = "scan", !.maxi = Max({@, Slot(table)}),
                          !.told = Slot(table) <= srv.maxi]
    /\ UNCHANGED <<version, up, down, cli, allset, errmsg>>

(* The entries the pass has still to look at. *)
Hits == {i \in srv.i .. srv.maxi :
           /\ table[i] # NoClient
           /\ IF version = "select" THEN table[i] \in srv.rset ELSE revents[i] # {}}

PassEnds ==
    /\ srv.pc = "scan" /\ version # "fe" /\ Hits = {}
    /\ srv' = [srv EXCEPT !.pc = "loop", !.rset = {}, !.req = NoClient, !.told = TRUE]
    /\ UNCHANGED <<version, netvars, cli, table, allset, revents, errmsg>>

(* As Drop, with close(i) for close(clifd): another connection is closed. *)
DropOther(c) ==
    /\ table' = ClientDel(table, c)
    /\ allset' = allset \ {c}
    /\ conn' = [d \in Clients |-> IF d # c /\ conn[d] = "open" THEN "closed" ELSE conn[d]]

(* As Drop, without FD_CLR. *)
DropStaysSelected(c) ==
    /\ table' = ClientDel(table, c)
    /\ allset' = allset
    /\ conn' = [conn EXCEPT ![c] = "closed"]

(* The client has closed: client_del, and out of allset or pollfd[]. *)
Drop(c) ==
    /\ table' = ClientDel(table, c)
    /\ allset' = allset \ {c}
    /\ conn' = [conn EXCEPT ![c] = "closed"]

(* As Hangup, with a hangup taken for an error of poll. *)
HangupDies ==
    /\ srv.pc = "scan" /\ version = "poll" /\ Hits # {}
    /\ "hup" \in revents[Min(Hits)]
    /\ Die

Hangup ==
    /\ srv.pc = "scan" /\ version = "poll" /\ Hits # {}
    /\ LET i == Min(Hits) IN
       /\ "hup" \in revents[i]
       /\ Drop(table[i])
       /\ srv' = [srv EXCEPT !.i = i + 1]
    /\ UNCHANGED <<version, name, backlog, up, down, cli, revents, errmsg>>

(* As Request, without the message of a failed open. *)
RequestKeepsText(p) ==
    errmsg' = IF ~p.last \/ p.kind = "long" THEN [of |-> p.of, len |-> 1]
              ELSE IF p.kind = "edge" THEN [of |-> p.of, len |-> BufLen - 1]
              ELSE errmsg

(* request, up to the answer it decides on: not terminated, refused by        *)
(* buf_args, open failed (or usage), or opened.                                *)
Request(p) ==
    LET about(n) == [of |-> p.of, len |-> n] IN
    errmsg' = IF ~p.last \/ p.kind \in {"long", "absent", "brim"} THEN about(1)
              ELSE IF p.kind = "edge" THEN about(BufLen - 1)
              ELSE errmsg

(* sprintf has no bound: "request from uid ... not null terminated: " before   *)
(* MAXLINE bytes of a request, or "can't open ..." about a name of nearly as    *)
(* many, ends behind errmsg[MAXLINE].  Its length counts as one: recv_fd reads  *)
(* all of it before the status, however long it is.                             *)
Overflows(p) == ~p.last \/ p.kind = "brim"

(* As Answer, with a return after buf_args failed. *)
AnswerNotUsage(p) ==
    IF p.last /\ p.kind = "ok" THEN "send_fd"
    ELSE IF p.kind = "words" THEN "scan" ELSE "text"

(* buf_args refuses more words than argv has room for, and leaves errmsg as it is. *)
BufArgs(p) == p.kind # "words"

Answer(p) ==
    IF p.last /\ p.kind = "ok" THEN "send_fd"
    ELSE IF ~BufArgs(p) /\ errmsg = Empty THEN "status" ELSE "text"

(* The read of a client's entry: end of file, an error when the client died    *)
(* with an answer unread, or (part of) a request.  Nothing to read blocks.     *)
Read ==
    /\ srv.pc = "scan" /\ version # "fe" /\ Hits # {}
    /\ LET i == Min(Hits)
           c == table[i]
       IN  /\ version = "poll" => "hup" \notin revents[i]
           /\ \/ /\ up[c] = <<>> /\ Left(c)
                 /\ Drop(c)
                 /\ srv' = [srv EXCEPT !.i = i + 1]
                 /\ UNCHANGED <<version, name, backlog, up, down, cli, revents, errmsg>>
              \/ /\ up[c] = <<>> /\ Left(c) /\ down[c] # <<>>
                 /\ Die
              \/ /\ up[c] # <<>>
                 /\ up' = [up EXCEPT ![c] = Tail(@)]
                 /\ Request(Head(up[c]))
                 /\ srv' = [srv EXCEPT !.i = i + 1, !.req = Head(up[c]),
                                       !.pc = Answer(Head(up[c])),
                                       !.over = srv.over \/ Overflows(Head(up[c]))]
                 /\ UNCHANGED <<version, name, backlog, conn, down, cli, table, allset, revents>>

(* main of opend.fe: one client, served until its end of the pipe closes. *)
ReadStdin ==
    /\ version = "fe" /\ srv.pc \in {"loop", "scan"}
    /\ \E c \in Clients :
       /\ Readable(c)
       /\ \/ up[c] = <<>> /\ Die
          \/ /\ up[c] # <<>>
             /\ up' = [up EXCEPT ![c] = Tail(@)]
             /\ Request(Head(up[c]))
             /\ srv' = [srv EXCEPT !.req = Head(up[c]), !.pc = Answer(Head(up[c])),
                                   !.over = srv.over \/ Overflows(Head(up[c]))]
             /\ UNCHANGED <<version, name, backlog, conn, down, cli, table, allset, revents>>

(* What lay behind errmsg may be needed at any time from then on: a server that *)
(* uses it ends by a signal.  (It may also be nothing the program uses.)        *)
Overflow == srv.over /\ srv.pc \notin {"start", "dead"} /\ Die

(* One message to the client in hand.  When it is gone, SIGPIPE ends the server. *)
Deliver(msg, next) ==
    LET c == srv.req.of[1] IN
    IF Left(c) THEN Die
    ELSE /\ down' = [down EXCEPT ![c] = @ \o msg]
         /\ srv' = [srv EXCEPT !.pc = next]
         /\ UNCHANGED <<version, name, backlog, conn, up, cli, table, allset, revents, errmsg>>

(* send_err writes the text, then send_fd the status; send_fd alone passes a    *)
(* descriptor.                                                                  *)
SendText   == srv.pc = "text"    /\ Deliver(Text(errmsg), "status")
SendStatus == srv.pc = "status"  /\ Deliver(Status(FALSE, srv.req.of), "scan")
SendFd     == srv.pc = "send_fd" /\ Deliver(Status(TRUE, srv.req.of), "scan")

---------------------------------------------------------------------------

Server == \/ ListenSelect \/ ListenPoll \/ Select \/ Poll \/ AcceptFails
          \/ AcceptSelect \/ AcceptPoll \/ PassEnds \/ Hangup \/ Read
          \/ ReadStdin \/ SendText \/ SendStatus \/ SendFd \/ Overflow

OpenNext ==
    \/ Server
    \/ \E c \in Clients :
         \/ Bind(c) \/ NameAges(c) \/ Connect(c) \/ Spawn(c) \/ Recv(c)
         \/ Exit(c) \/ Leave(c)
         \/ \E k \in Kinds : Send(c, k)

OpenFairness == WF_openvars(Server) /\ \A c \in Clients : WF_openvars(Recv(c))

OpenSpec     == OpenInit /\ [][OpenNext]_openvars
OpenFairSpec == OpenSpec /\ OpenFairness

---------------------------------------------------------------------------
(* A client gets the answer to the request it has made: the descriptor of the *)
(* file it named, or a message about that file, and recv_fd tells the two       *)
(* apart.  Three inputs are outside: a request longer than the server's buffer  *)
(* is answered twice, from then on answers come one late; a text that leaves    *)
(* one byte of recv_fd's buffer is taken for a format error; too many words      *)
(* bring the text of an earlier error (which may be such a text).               *)
AnswersMatch ==
    \A c \in Clients :
        LET m == cli[c] IN
        /\ (m.pc = "ready" /\ m.n > 0 /\ ~m.split /\ m.res # "closed") =>
             /\ m.of = <<c, m.n>>
             /\ m.res = IF m.kind = "ok" THEN "fd" ELSE "error"
             /\ m.kind # "words" => m.texts \subseteq {<<c, m.n>>}
             /\ m.kind = "absent" => m.texts # {}
        /\ m.res = "dump" => m.split \/ m.kind \in {"edge", "words"}

(* Between two passes the table, the set given to select and the open          *)
(* connections agree, no client has two entries, and no entry lies beyond      *)
(* maxi, where the server would never look at it again.                        *)
TableAgrees ==
    srv.pc = "loop" /\ version # "fe" =>
        LET inTable == {table[i] : i \in DOMAIN table} \ {NoClient, Listener} IN
        /\ inTable = {c \in Clients : conn[c] = "open"}
        /\ version = "select" => allset = inTable \cup {Listener}
        /\ \A i \in DOMAIN table : table[i] # NoClient =>
             /\ i <= srv.maxi
             /\ \A j \in DOMAIN table : table[j] = table[i] => j = i

(* The daemon ends only by what the code does not guard against: a request     *)
(* about which errmsg cannot hold the text, a client that is gone in the middle *)
(* of a request, or before the second answer to a long one, or a connection     *)
(* left waiting for longer than STALE.  The child of one client ends only after *)
(* it, or by such a request.                                                    *)
DiesOfClients ==
    srv.pc = "dead" =>
        \/ srv.over
        \/ \E c \in Clients :
            IF version = "fe" THEN Left(c)
            ELSE \/ Left(c) /\ (cli[c].mid \/ cli[c].split)
                 \/ name[c] = "stale"

(* The server drops a client that is still there only in the pass of the poll  *)
(* loop that accepted it, on the word of memory nobody wrote.                   *)
DropsNewcomersOnly ==
    [][\A c \in Clients :
         (conn[c] = "open" /\ conn'[c] = "closed" /\ srv'.pc # "dead" /\ ~Left(c))
            => ~srv.told]_openvars

(* A client that waits for an answer gets one, or learns that the server is     *)
(* gone, unless the poll loop has gone to read a newcomer it had no news of.    *)
Served ==
    \A c \in Clients :
        cli[c].pc = "wait" ~> \/ cli[c].pc # "wait"
                              \/ srv.pc = "scan" /\ ~srv.told
=============================================================================
