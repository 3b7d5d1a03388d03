-------------------------- MODULE OpenServerProofs --------------------------
(* The open server for any number of clients, requests and pieces of text: *)
(* what a client is given is the answer to what it asked (request.c,       *)
(* senderr.c and recvfd.c), the daemon knows its clients (client.c with    *)
(* loop.select.c and loop.poll.c), it ends only of what the code does not  *)
(* guard against, and a client that is there is dropped only on the word   *)
(* of memory nobody wrote.                                                 *)
EXTENDS OpenServer, FiniteSetTheorems, TLAPS

(* Names for what is in the variables: a request is the client and the     *)
(* number of its request; a piece is what one read of the server returns   *)
(* of it; a message is an item on the way to the client, as send_err and   *)
(* send_fd write it.                                                       *)
Who        == (Clients \X Nat) \cup {NoClient}
Piece      == [of : Clients \X Nat, kind : Kinds, last : BOOLEAN]
Message    == [t : {"text"}, of : Who] \cup [t : {"null"}]
                \cup [t : {"status"}, ok : BOOLEAN, of : Clients \X Nat]
Client     == [pc : {"idle", "bound", "ready", "wait", "left"}, n : Nat, kind : Kinds \cup {"ok"},
               texts : SUBSET Who, res : {"none", "closed", "dump", "fd", "error"}, of : Who,
               split : BOOLEAN, mid : BOOLEAN]
Answering  == {"text", "status", "send_fd"}
SrvPcs     == {"start", "loop", "accept", "scan", "dead"} \cup Answering

(* The server: what it does now, the request it is at, and whether a text  *)
(* went beyond errmsg, which takes a client.                               *)
Overs == {b \in BOOLEAN : b => Clients # {}}
ServerRecord == [pc : SrvPcs, rset : SUBSET (Clients \cup {Listener}), i : Nat \ {0}, maxi : Nat,
                 req : Piece \cup {NoClient}, told : BOOLEAN, over : Overs]

(* The types of what clients and server share, and of the clients.         *)
NetTypes ==
    /\ version \in {"select", "poll", "fe"}
    /\ name \in [Clients -> {"none", "fresh", "stale"}]
    /\ backlog \in Seq(Clients)
    /\ conn \in [Clients -> {"none", "queued", "open", "closed"}]
    /\ up \in [Clients -> Seq(Piece)] /\ down \in [Clients -> Seq(Message)]
    /\ cli \in [Clients -> Client]
(* The types of what the server keeps.                                     *)
SrvTypes ==
    /\ srv \in ServerRecord
    /\ table \in Seq(Clients \cup {NoClient, Listener}) /\ allset \subseteq Clients \cup {Listener}
    /\ revents \in Seq(SUBSET {"in", "hup"})
    /\ errmsg \in [of : Who, len : Nat]

(* A client that has not connected has no connection and, before cli_conn, *)
(* no name; the connections that wait to be accepted wait once each;       *)
(* serv_accept is called with one waiting.                                 *)
Queue ==
    /\ \A c \in Clients : cli[c].pc \in {"idle", "bound"} => conn[c] = "none"
    /\ \A c \in Clients : cli[c].pc \in {"ready", "wait"} => conn[c] # "none"
    /\ \A c \in Clients : cli[c].pc = "idle" => name[c] = "none"
    /\ \A i \in 1 .. Len(backlog) : conn[backlog[i]] = "queued"
    /\ \A i, j \in 1 .. Len(backlog) : backlog[i] = backlog[j] => i = j
    /\ srv.pc = "accept" => backlog # <<>> /\ version # "fe"

(* The client has an entry of client[].                                    *)
Entered(c) == \E i \in 1 .. Len(table) : table[i] = c

(* client[]: one entry each, none beyond maxi, exactly the clients whose   *)
(* connection is open, and with poll the listener in entry 0; allset is    *)
(* the same set. It holds at every step of a pass, TableAgrees only        *)
(* between two of them.                                                    *)
Table ==
    version # "fe" =>
      /\ srv.pc = "start" => table = <<>> /\ allset = {} /\ srv.maxi = 0 /\ \A c \in Clients : conn[c] = "none"
      /\ \A i, j \in 1 .. Len(table) : table[i] = table[j] /\ table[i] # NoClient => i = j
      /\ \A i \in 1 .. Len(table) : table[i] # NoClient => i <= srv.maxi
      /\ srv.maxi <= Len(table)
      /\ srv.pc # "dead" => \A c \in Clients : conn[c] = "open" <=> Entered(c)
      /\ version = "select" => ~Entered(Listener)
      /\ version = "select" /\ srv.pc \notin {"start", "dead"} =>
            allset = {c \in Clients : conn[c] = "open"} \cup {Listener}
      /\ version = "poll" /\ srv.pc # "start" => srv.maxi >= 1 /\ table[1] = Listener

(* What poll said is still about the client of the entry: a hangup means   *)
(* that the client has left (and it stays away), but for the last entry in *)
(* the pass that accepted it. Before serv_accept a free entry has no news, *)
(* so a newcomer that takes one is not read.                               *)
Polled ==
    /\ srv.pc \in {"start", "loop", "accept"} => srv.told
    /\ version = "poll" /\ srv.pc \in {"accept", "scan"} \cup Answering =>
         /\ srv.i >= 2 /\ Len(revents) = srv.maxi
         /\ \A i \in 1 .. srv.maxi : "hup" \in revents[i] /\ table[i] # NoClient =>
               \/ table[i] \in Clients /\ Left(table[i])
               \/ ~srv.told /\ i = srv.maxi
         /\ srv.pc = "accept" => \A i \in 1 .. srv.maxi : table[i] = NoClient => revents[i] = {}

(* The server is about to answer this client.                              *)
InHand(c) == srv.pc \in Answering /\ srv.req.of[1] = c
(* The bytes on a connection are of its client, and the request in hand    *)
(* came by a connection that is still open.                                *)
Hands ==
    /\ \A c \in Clients : \A i \in 1 .. Len(up[c]) : up[c][i].of[1] = c
    /\ srv.pc \in Answering => srv.req \in Piece /\ conn[srv.req.of[1]] = "open"

(* What recv_fd relies on: a status behind every null byte.                *)
Framed ==
    \A c \in Clients : \A i \in 1 .. Len(down[c]) :
        down[c][i].t = "null" => i < Len(down[c]) /\ down[c][i + 1].t = "status"

(* The request the client has made, as the server reads it.                *)
Asking(c) == [of |-> <<c, cli[c].n>>, kind |-> cli[c].kind, last |-> TRUE]

(* What a client has received of the text of a failed request, and a text  *)
(* e still to come, are about that request and leave room in the buffer of *)
(* recv_fd.                                                                *)
TextsFit(c, e) ==
    LET m == cli[c] IN
    /\ m.kind # "ok" /\ e.len <= BufLen - 1
    /\ m.kind # "words" => m.texts \subseteq {<<c, m.n>>} /\ (e.len > 0 => e.of = <<c, m.n>>)
    /\ m.kind = "absent" => m.texts # {} \/ e.len > 0
    /\ m.kind \notin {"edge", "words"} => e.len <= 1
(* On the way to the client: a fitting text, and then rest.                *)
TextsThen(c, rest) == \E e \in [of : Who, len : Nat] : down[c] = Text(e) \o rest /\ TextsFit(c, e)

(* The three stages of a request: on its way to the server; in its hands,  *)
(* with the text written or not; answered, with the answer on its way.     *)
Waiting(c) == up[c] = <<Asking(c)>> /\ down[c] = <<>> /\ ~InHand(c) /\ cli[c].texts = {}
(* In the hands of the server: before, at and behind the text.             *)
Served1(c) ==
    /\ InHand(c) /\ up[c] = <<>> /\ srv.req = Asking(c)
    /\ \/ srv.pc = "send_fd" /\ cli[c].kind = "ok" /\ down[c] = <<>> /\ cli[c].texts = {}
       \/ srv.pc = "text" /\ errmsg.len > 0 /\ TextsFit(c, errmsg) /\ down[c] = <<>>
       \/ srv.pc = "status" /\ TextsThen(c, <<>>)
(* Answered: the status is on its way, behind what is left of the text.    *)
Replied(c) ==
    /\ ~InHand(c) /\ up[c] = <<>>
    /\ IF cli[c].kind = "ok" THEN down[c] = Status(TRUE, <<c, cli[c].n>>) /\ cli[c].texts = {}
       ELSE TextsThen(c, Status(FALSE, <<c, cli[c].n>>))

(* The server ended with the request in hand: what there is of its text is *)
(* on the way, and no status.                                              *)
Lost(c) == ~InHand(c) /\ up[c] = <<>> /\ \A i \in 1 .. Len(down[c]) : down[c][i].t # "null"

(* Nothing of the client is anywhere, but what a server that ended will    *)
(* not read.                                                               *)
AtRest(c) == ~InHand(c) /\ down[c] = <<>> /\ (up[c] = <<>> \/ conn[c] = "closed")

(* The client has what AnswersMatch promises.                              *)
Answered(c) ==
    LET m == cli[c] IN
    /\ m.of = <<c, m.n>>
    /\ m.res = IF m.kind = "ok" THEN "fd" ELSE "error"
    /\ m.kind # "words" => m.texts \subseteq {<<c, m.n>>}
    /\ m.kind = "absent" => m.texts # {}

(* Where a client is tells where its request is. A client that has once    *)
(* sent a request of more than the server reads at a time (split) is       *)
(* outside: it is answered twice.                                          *)
Talk(c) ==
    LET m == cli[c] IN
    /\ m.pc \in {"idle", "bound"} => m.n = 0
    /\ m.res = "dump" => m.split \/ m.kind \in {"edge", "words"}
    /\ ~m.split =>
         /\ m.pc \in {"idle", "bound", "ready"} \/ (m.pc = "left" /\ ~m.mid) => AtRest(c)
         /\ m.pc = "wait" => m.kind # "long" /\ m.res = "none"
         /\ m.pc = "wait" => Waiting(c) \/ Served1(c) \/ Replied(c) \/ Lost(c)
         /\ m.pc = "ready" /\ m.n > 0 /\ m.res # "closed" => Answered(c)

(* errmsg is as it was at the start, or has a text that fits the buffer of *)
(* recv_fd.                                                                *)
Texts == errmsg = Empty \/ errmsg.len \in 1 .. BufLen - 1

(* The inductive invariant.                                                *)
OpenServerInv == NetTypes /\ SrvTypes /\ Queue /\ Table /\ Polled /\ Hands /\ Framed /\ Texts /\ (\A c \in Clients : Talk(c)) /\ DiesOfClients

---------------------------------------------------------------------------
(* A set of numbers that is not empty has a least one.                     *)
LEMMA LeastNumber ==
  ASSUME NEW T \in SUBSET Nat, T # {}
  PROVE  \E n \in T : \A m \in T : n <= m
<1> DEFINE Below(n) == 0 .. n - 1
           X == {Below(n) : n \in T}
<1>1. X \subseteq FiniteSubsetsOf(Nat)
  <2>1. ASSUME NEW n \in T PROVE Below(n) \in FiniteSubsetsOf(Nat)
    BY FS_Interval DEF FiniteSubsetsOf
  <2> QED
    BY <2>1
<1>2. PICK x \in X : \A y \in X : ~ (<<y, x>> \in StrictSubsetOrdering(Nat))
  <2>1. X # {}
    OBVIOUS
  <2>2. IsWellFoundedOn(StrictSubsetOrdering(Nat), FiniteSubsetsOf(Nat))
    BY FS_StrictSubsetOrderingWellFounded
  <2> HIDE DEF X
  <2> QED
    BY <1>1, <2>1, <2>2, WFMin
<1>3. PICK n \in T : x = Below(n)
  OBVIOUS
<1>4. ASSUME NEW m \in T, m < n PROVE FALSE
  <2>1. Below(m) \in X /\ Below(m) \subseteq x /\ Below(m) # x
    BY <1>3, <1>4
  <2>2. Below(m) \in SUBSET Nat /\ x \in SUBSET Nat
    BY <1>3
  <2>3. <<Below(m), x>> \in StrictSubsetOrdering(Nat)
    BY <2>1, <2>2 DEF StrictSubsetOrdering
  <2> QED
    BY <1>2, <2>1, <2>3
<1> QED
  BY <1>4

(* Min of a set of numbers is its least one.                               *)
LEMMA MinIsThere ==
  ASSUME NEW T \in SUBSET Nat, T # {}
  PROVE  Min(T) \in T /\ \A m \in T : Min(T) <= m
<1>1. \E n \in T : \A m \in T : n <= m
  BY LeastNumber
<1> QED
  BY <1>1 DEF Min

(* A number that is in the set and below all others is its Min.            *)
LEMMA MinIs ==
  ASSUME NEW T \in SUBSET Nat, NEW n \in T, \A m \in T : n <= m
  PROVE  Min(T) = n
<1>1. Min(T) \in T /\ Min(T) <= n
  BY MinIsThere
<1>2. Min(T) \in Nat /\ n \in Nat /\ n <= Min(T)
  BY <1>1
<1> QED
  BY <1>1, <1>2

(* Min and Max of one and of two numbers.                                  *)
LEMMA MinOfTwo ==
  ASSUME NEW a \in Nat, NEW b \in Nat
  PROVE  Min({a, b}) = IF a <= b THEN a ELSE b
BY MinIs

(* Min of one number.                                                      *)
LEMMA MinOfOne ==
  ASSUME NEW a \in Nat
  PROVE  Min({a}) = a
BY MinIs

(* Max of two numbers.                                                     *)
LEMMA MaxOfTwo ==
  ASSUME NEW a \in Nat, NEW b \in Nat
  PROVE  Max({a, b}) = IF a <= b THEN b ELSE a
BY DEF Max

(* The entry client_add takes: the first free one, or the one behind the   *)
(* last.                                                                   *)
LEMMA SlotIs ==
  ASSUME NEW S, NEW tb \in Seq(S)
  PROVE  /\ Slot(tb) \in 1 .. Len(tb) + 1
         /\ Slot(tb) <= Len(tb) => tb[Slot(tb)] = NoClient
         /\ \A i \in 1 .. Len(tb) : tb[i] = NoClient => Slot(tb) <= i
<1> DEFINE T == {i \in 1 .. Len(tb) + 1 : i > Len(tb) \/ tb[i] = NoClient}
<1>1. Len(tb) \in Nat
  OBVIOUS
<1>2. T \in SUBSET Nat /\ Len(tb) + 1 \in T
  BY <1>1
<1>3. \A i \in 1 .. Len(tb) : tb[i] = NoClient => i \in T
  BY <1>1
<1>4. \A i \in T : i \in 1 .. Len(tb) + 1 /\ (i > Len(tb) \/ tb[i] = NoClient)
  OBVIOUS
<1>5. Slot(tb) = Min(T)
  BY DEF Slot
<1> HIDE DEF T
<1>6. Min(T) \in T /\ \A m \in T : Min(T) <= m
  BY <1>2, MinIsThere
<1> QED
  BY <1>1, <1>3, <1>4, <1>5, <1>6

(* client_add, with client_alloc when the table is full: the new entry has *)
(* the descriptor, every other entry is what it was or is free.            *)
LEMMA ClientAddIs ==
  ASSUME NEW S, NoClient \in S, NEW tb \in Seq(S), NEW fd \in S
  PROVE  /\ ClientAdd(tb, fd) \in Seq(S)
         /\ Len(ClientAdd(tb, fd)) \in Nat /\ Len(ClientAdd(tb, fd)) >= Len(tb)
         /\ Slot(tb) <= Len(ClientAdd(tb, fd)) /\ Slot(tb) \in Nat \ {0}
         /\ ClientAdd(tb, fd)[Slot(tb)] = fd
         /\ \A i \in 1 .. Len(ClientAdd(tb, fd)) :
              i # Slot(tb) => ClientAdd(tb, fd)[i] = IF i <= Len(tb) THEN tb[i] ELSE NoClient
<1> DEFINE more == [i \in 1 .. NAlloc |-> NoClient]
           big == IF Slot(tb) > Len(tb) THEN ClientAlloc(tb) ELSE tb
<1>1. NAlloc \in Nat /\ NAlloc >= 1 /\ Len(tb) \in Nat
  BY OpenAssumption
<1>2. more \in Seq(S) /\ Len(more) = NAlloc /\ \A i \in 1 .. NAlloc : more[i] = NoClient
  BY <1>1
<1>3. /\ tb \o more \in Seq(S) /\ Len(tb \o more) = Len(tb) + NAlloc
      /\ \A i \in 1 .. Len(tb) + NAlloc :
           (tb \o more)[i] = IF i <= Len(tb) THEN tb[i] ELSE NoClient
  <2> HIDE DEF more
  <2>1. tb \o more \in Seq(S) /\ Len(tb \o more) = Len(tb) + NAlloc
    BY <1>1, <1>2
  <2>2. \A i \in 1 .. Len(tb) + NAlloc :
           (tb \o more)[i] = IF i <= Len(tb) THEN tb[i] ELSE more[i - Len(tb)]
    BY <1>1, <1>2
  <2>3. \A i \in 1 .. Len(tb) + NAlloc : ~(i <= Len(tb)) => i - Len(tb) \in 1 .. NAlloc
    BY <1>1
  <2> QED
    BY <1>2, <2>1, <2>2, <2>3
<1>4. /\ big \in Seq(S) /\ Len(big) \in Nat /\ Len(big) >= Len(tb)
      /\ \A i \in 1 .. Len(big) : big[i] = IF i <= Len(tb) THEN tb[i] ELSE NoClient
  <2>1. CASE Slot(tb) > Len(tb)
    <3>1. big = tb \o more
      BY <2>1 DEF ClientAlloc
    <3> HIDE DEF more, big
    <3> QED
      BY <1>1, <1>3, <3>1
  <2>2. CASE ~(Slot(tb) > Len(tb))
    BY <1>1, <2>2
  <2> QED
    BY <2>1, <2>2
<1>5. Slot(tb) \in 1 .. Len(tb) + 1
  BY SlotIs
<1>6. Slot(tb) \in 1 .. Len(big)
  <2>1. CASE Slot(tb) > Len(tb)
    <3>1. Len(big) = Len(tb) + NAlloc
      BY <1>3, <2>1 DEF ClientAlloc
    <3> HIDE DEF big
    <3> QED
      BY <1>1, <1>5, <3>1
  <2>2. CASE ~(Slot(tb) > Len(tb))
    BY <1>1, <1>5, <2>2
  <2> QED
    BY <2>1, <2>2
<1>7. ClientAdd(tb, fd) = [big EXCEPT ![Slot(tb)] = fd]
  BY DEF ClientAdd
<1> HIDE DEF big, more
<1>8. ClientAdd(tb, fd) \in Seq(S) /\ Len(ClientAdd(tb, fd)) = Len(big)
  BY <1>4, <1>6, <1>7
<1>9. \A i \in 1 .. Len(big) : ClientAdd(tb, fd)[i] = IF i = Slot(tb) THEN fd ELSE big[i]
  BY <1>4, <1>6, <1>7
<1>10. Slot(tb) \in Nat \ {0} /\ Slot(tb) <= Len(big)
  BY <1>4, <1>6
<1> QED
  BY <1>4, <1>6, <1>8, <1>9, <1>10

(* client_del: the entry becomes free, the table keeps its length.         *)
LEMMA ClientDelIs ==
  ASSUME NEW S, NoClient \in S, NEW tb \in Seq(S), NEW fd
  PROVE  /\ ClientDel(tb, fd) \in Seq(S) /\ Len(ClientDel(tb, fd)) = Len(tb)
         /\ \A i \in 1 .. Len(tb) :
              ClientDel(tb, fd)[i] = IF tb[i] = fd THEN NoClient ELSE tb[i]
<1>1. DOMAIN tb = 1 .. Len(tb) /\ Len(tb) \in Nat /\ \A i \in 1 .. Len(tb) : tb[i] \in S
  OBVIOUS
<1>2. ClientDel(tb, fd) = [i \in 1 .. Len(tb) |-> IF tb[i] = fd THEN NoClient ELSE tb[i]]
  BY <1>1 DEF ClientDel
<1> QED
  BY <1>1, <1>2

---------------------------------------------------------------------------
(* What an item on the way to a client can be.                             *)
LEMMA MessageIs ==
  ASSUME NEW m \in Message
  PROVE  /\ m.t \in {"text", "null", "status"}
         /\ m.t = "text" => m.of \in Who
         /\ m.t = "status" => m.of \in Clients \X Nat /\ m.of \in Who /\ m.ok \in BOOLEAN
BY DEF Message, Who

(* send_fd writes a null byte and a status.                                *)
LEMMA StatusIs ==
  ASSUME NEW ok \in BOOLEAN, NEW r \in Clients \X Nat
  PROVE  /\ Status(ok, r) \in Seq(Message) /\ Len(Status(ok, r)) = 2
         /\ Status(ok, r)[1].t = "null" /\ Status(ok, r)[2].t = "status"
         /\ Status(ok, r)[2].ok = ok /\ Status(ok, r)[2].of = r
<1> DEFINE a == [t |-> "null"]
           b == [t |-> "status", ok |-> ok, of |-> r]
<1>1. a \in Message /\ b \in Message
  BY DEF Message
<1>2. a.t = "null" /\ b.t = "status" /\ b.ok = ok /\ b.of = r
  OBVIOUS
<1>3. Status(ok, r) = <<a, b>>
  BY DEF Status
<1> HIDE DEF a, b
<1> QED
  BY <1>1, <1>2, <1>3

(* send_err writes the text of errmsg first.                               *)
LEMMA TextIs ==
  ASSUME NEW e \in [of : Who, len : Nat]
  PROVE  /\ Text(e) \in Seq(Message) /\ Len(Text(e)) = e.len
         /\ \A i \in 1 .. e.len : Text(e)[i] = [t |-> "text", of |-> e.of]
<1>1. [t |-> "text", of |-> e.of] \in Message /\ e.len \in Nat
  BY DEF Message
<1> QED
  BY <1>1 DEF Text

(* The pieces of a request are of that request; all but a long one come in *)
(* one.                                                                    *)
LEMMA PiecesAre ==
  ASSUME NEW c \in Clients, NEW n \in Nat, NEW k \in Kinds
  PROVE  /\ Pieces(c, n, k) \in Seq(Piece)
         /\ \A i \in 1 .. Len(Pieces(c, n, k)) : Pieces(c, n, k)[i].of = <<c, n>>
         /\ k # "long" => Pieces(c, n, k) = <<[of |-> <<c, n>>, kind |-> k, last |-> TRUE]>>
<1> DEFINE a == [of |-> <<c, n>>, kind |-> k, last |-> FALSE]
           b == [of |-> <<c, n>>, kind |-> k, last |-> TRUE]
<1>1. a \in Piece /\ b \in Piece /\ a.of = <<c, n>> /\ b.of = <<c, n>>
  BY DEF Piece
<1>2. Pieces(c, n, k) = IF k = "long" THEN <<a, b>> ELSE <<b>>
  BY DEF Pieces
<1> HIDE DEF a, b
<1>3. Pieces(c, n, k) \in Seq(Piece) /\ \A i \in 1 .. Len(Pieces(c, n, k)) : Pieces(c, n, k)[i].of = <<c, n>>
  <2>1. CASE k = "long"
    BY <1>1, <1>2, <2>1
  <2>2. CASE k # "long"
    BY <1>1, <1>2, <2>2
  <2> QED
    BY <2>1, <2>2
<1> QED
  BY <1>2, <1>3 DEF b

(* A step of one client leaves the others alone.                           *)
LEMMA ClientMoves ==
  ASSUME NetTypes, NEW c \in Clients, NEW m \in Client, cli' = [cli EXCEPT ![c] = m]
  PROVE  /\ cli' \in [Clients -> Client] /\ cli'[c] = m
         /\ \A d \in Clients \ {c} : cli'[d] = cli[d]
BY DEF NetTypes

(* A client that ends keeps what it asked for last and whether it was      *)
(* split.                                                                  *)
LEMMA EndedIs ==
  ASSUME NEW m \in Client, NEW mid \in BOOLEAN
  PROVE  /\ Ended(m, mid) \in Client
         /\ Ended(m, mid).pc = "left" /\ Ended(m, mid).mid = mid /\ Ended(m, mid).split = m.split
         /\ Ended(m, mid).kind = m.kind /\ Ended(m, mid).res = m.res /\ Ended(m, mid).n = m.n
BY DEF Ended, Client, Who

(* request: an answer is always decided on, and a text to be written has   *)
(* been put into errmsg (by this request, or, when buf_args refuses the    *)
(* words, by an earlier one).                                              *)
LEMMA RequestIs ==
  ASSUME SrvTypes, NEW p \in Piece, Request(p)
  PROVE  /\ errmsg' \in [of : Who, len : Nat]
         /\ Answer(p) \in Answering
         /\ Texts => Texts'
         /\ p.last /\ p.kind = "ok" => Answer(p) = "send_fd"
         /\ ~(p.last /\ p.kind = "ok") => Answer(p) \in {"text", "status"}
         /\ Answer(p) = "text" => errmsg' # Empty
         /\ Answer(p) = "status" => p.kind = "words"
         /\ p.last /\ p.kind \in {"absent", "brim"} => errmsg' = [of |-> p.of, len |-> 1]
         /\ p.last /\ p.kind = "edge" => errmsg' = [of |-> p.of, len |-> BufLen - 1]
<1>1. BufLen \in Nat /\ BufLen - 1 \in Nat /\ BufLen - 1 >= 2
  BY OpenAssumption
<1>2. p.of \in Who /\ p.kind \in Kinds /\ p.last \in BOOLEAN
  BY DEF Piece, Who
<1>3. errmsg' \in [of : Who, len : Nat] /\ (Texts => Texts')
  BY <1>1, <1>2 DEF SrvTypes, Request, Texts
<1>4. Answer(p) = "text" => errmsg' # Empty
  <2> SUFFICES ASSUME Answer(p) = "text", errmsg' = Empty PROVE FALSE
    OBVIOUS
  <2>1. errmsg'.len = 0
    BY DEF Empty
  <2>2. p.kind \notin {"edge", "absent", "brim", "long"} /\ p.last /\ errmsg' = errmsg
    BY <1>1, <1>2, <2>1 DEF Request
  <2> QED
    BY <1>2, <2>2, OpenAssumption DEF Answer, BufArgs
<1> QED
  BY <1>2, <1>3, <1>4 DEF Request, Answer, BufArgs, Answering

(* What UNCHANGED says of the tuples of variables.                         *)
LEMMA NetSame == ASSUME UNCHANGED netvars PROVE name' = name /\ backlog' = backlog /\ conn' = conn /\ up' = up /\ down' = down
BY DEF netvars

(* The same for the variables of the server.                               *)
LEMMA SrvSame ==
  ASSUME UNCHANGED srvvars
  PROVE  srv' = srv /\ table' = table /\ allset' = allset /\ revents' = revents /\ errmsg' = errmsg
BY DEF srvvars

(* The fields a client changes keep their types.                           *)
LEMMA ClientFields ==
  ASSUME NEW m \in Client
  PROVE  /\ \A pc \in {"bound", "left", "ready"} : [m EXCEPT !.pc = pc] \in Client
         /\ [m EXCEPT !.pc = "ready", !.res = "closed"] \in Client
         /\ \A n \in Nat, k \in Kinds, s \in BOOLEAN :
              [m EXCEPT !.pc = "wait", !.n = n, !.kind = k, !.texts = {}, !.of = NoClient,
                        !.res = "none", !.split = s] \in Client
BY ZenonT(30) DEF Client, Who

---------------------------------------------------------------------------
(* The next entry the pass looks at belongs to a client whose connection   *)
(* is open, and not to the listener.                                       *)
LEMMA HitsAre ==
  ASSUME NetTypes, SrvTypes, Table, Polled, srv.pc = "scan", version # "fe", Hits # {}
  PROVE  /\ Min(Hits) \in Nat \ {0} /\ Min(Hits) >= srv.i /\ Min(Hits) <= srv.maxi
         /\ Min(Hits) \in 1 .. Len(table)
         /\ table[Min(Hits)] \in Clients
         /\ conn[table[Min(Hits)]] = "open"
<1> DEFINE i == Min(Hits)
<1>1. srv.i \in Nat \ {0} /\ srv.maxi \in Nat /\ Len(table) \in Nat /\ srv.maxi <= Len(table)
  BY DEF SrvTypes, ServerRecord, Table
<1>2. Hits \in SUBSET Nat /\ \A k \in Hits : k \in srv.i .. srv.maxi /\ table[k] # NoClient
  BY <1>1 DEF Hits
<1>3. i \in Hits
  BY <1>2, MinIsThere
<1>4. i \in srv.i .. srv.maxi /\ table[i] # NoClient
  BY <1>2, <1>3
<1> HIDE DEF i
<1>5. i \in 1 .. Len(table) /\ i \in Nat \ {0} /\ i >= srv.i /\ i <= srv.maxi
  BY <1>1, <1>4
<1>6. table[i] # Listener
  <2>1. CASE version = "select"
    BY <1>5, <2>1 DEF Table, Entered
  <2>2. CASE version = "poll"
    <3>1. srv.i >= 2 /\ 1 \in 1 .. Len(table) /\ table[1] = Listener /\ Listener # NoClient
      BY <1>1, <1>5, <2>2, OpenAssumption DEF Table, Polled
    <3> QED
      BY <1>1, <1>5, <2>2, <3>1 DEF Table
  <2> QED
    BY <2>1, <2>2 DEF NetTypes
<1>7. table[i] \in Clients
  BY <1>4, <1>5, <1>6 DEF SrvTypes, ServerRecord
<1>8. conn[table[i]] = "open"
  BY <1>5, <1>7 DEF Table, Entered
<1> QED
  BY <1>5, <1>7, <1>8 DEF i

(* The read of a connection takes its first piece off.                     *)
LEMMA FirstPiece ==
  ASSUME NetTypes, Hands, NEW c \in Clients, up[c] # <<>>
  PROVE  /\ Head(up[c]) \in Piece /\ Head(up[c]).of[1] = c /\ Head(up[c]).of \in Clients \X Nat
         /\ [up EXCEPT ![c] = Tail(@)] \in [Clients -> Seq(Piece)]
         /\ [up EXCEPT ![c] = Tail(@)][c] = Tail(up[c])
         /\ \A d \in Clients \ {c} : [up EXCEPT ![c] = Tail(@)][d] = up[d]
<1>1. up \in [Clients -> Seq(Piece)] /\ up[c] \in Seq(Piece)
  BY DEF NetTypes
<1>2. 1 \in 1 .. Len(up[c]) /\ Head(up[c]) = up[c][1] /\ Head(up[c]) \in Piece /\ Tail(up[c]) \in Seq(Piece)
  BY <1>1
<1>3. Head(up[c]).of[1] = c
  BY <1>2 DEF Hands
<1>4. Head(up[c]).of \in Clients \X Nat
  BY <1>2 DEF Piece
<1> QED
  BY <1>1, <1>2, <1>3, <1>4

(* What a read by the server does, whichever program it is.                *)
TakesRequest(c) ==
    /\ c \in Clients /\ conn[c] = "open" /\ up[c] # <<>> /\ up' = [up EXCEPT ![c] = Tail(@)]
    /\ Request(Head(up[c]))
    /\ srv' = [srv EXCEPT !.i = srv'.i, !.req = Head(up[c]), !.pc = Answer(Head(up[c])),
                          !.over = srv.over \/ Overflows(Head(up[c]))]
    /\ srv'.i \in Nat \ {0} /\ srv'.i >= srv.i
    /\ srv.pc \in {"loop", "scan"} /\ (version # "fe" => srv.pc = "scan")
    /\ UNCHANGED <<version, name, backlog, conn, down, cli, table, allset, revents>>

(* The server drops a client, and on what grounds.                         *)
Drops(c) ==
    /\ c \in Clients /\ conn[c] = "open" /\ srv.pc = "scan" /\ version # "fe"
    /\ Drop(c)
    /\ srv' = [srv EXCEPT !.i = srv'.i] /\ srv'.i \in Nat \ {0} /\ srv'.i >= srv.i
    /\ \/ Left(c) /\ up[c] = <<>>
       \/ version = "poll" /\ \E i \in 1 .. srv.maxi : i \in 1 .. Len(table) /\ table[i] = c /\ "hup" \in revents[i]
    /\ UNCHANGED <<version, name, backlog, up, down, cli, revents, errmsg>>

(* A hangup drops a client whose connection is open.                       *)
LEMMA HangupIs ==
  ASSUME NetTypes, SrvTypes, Table, Polled, Hangup
  PROVE  \E c \in Clients : Drops(c)
<1> DEFINE i == Min(Hits)
<1>1. srv.pc = "scan" /\ version = "poll" /\ Hits # {}
  BY DEF Hangup
<1>2. /\ i \in Nat \ {0} /\ i >= srv.i /\ i <= srv.maxi /\ i \in 1 .. Len(table)
      /\ table[i] \in Clients /\ conn[table[i]] = "open"
  BY <1>1, HitsAre
<1>3. /\ "hup" \in revents[i] /\ Drop(table[i]) /\ srv' = [srv EXCEPT !.i = i + 1]
      /\ UNCHANGED <<version, name, backlog, up, down, cli, revents, errmsg>>
  BY DEF Hangup
<1> HIDE DEF i
<1>4. srv'.i = i + 1 /\ srv.i \in Nat \ {0} /\ srv.maxi \in Nat
  BY <1>3 DEF SrvTypes, ServerRecord
<1>5. i \in 1 .. srv.maxi /\ i + 1 \in Nat \ {0} /\ i + 1 >= srv.i
  BY <1>2, <1>4
<1> QED
  BY <1>1, <1>2, <1>3, <1>4, <1>5 DEF Drops

(* A read of the daemon drops its client, takes a request, or ends the     *)
(* daemon.                                                                 *)
LEMMA ReadIs ==
  ASSUME NetTypes, SrvTypes, Table, Polled, Read
  PROVE  \/ \E c \in Clients : Drops(c) \/ TakesRequest(c)
         \/ Die /\ srv.pc = "scan" /\ version # "fe" /\ \E c \in Clients : Left(c) /\ down[c] # <<>>
<1> DEFINE i == Min(Hits)
           c == table[i]
<1>1. srv.pc = "scan" /\ version # "fe" /\ Hits # {}
  BY DEF Read
<1>2. /\ i \in Nat \ {0} /\ i >= srv.i /\ i <= srv.maxi /\ i \in 1 .. Len(table)
      /\ c \in Clients /\ conn[c] = "open"
  BY <1>1, HitsAre
<1>3. srv.i \in Nat \ {0} /\ i + 1 \in Nat \ {0} /\ i + 1 >= srv.i
  BY <1>2 DEF SrvTypes, ServerRecord
<1>4. \/ /\ up[c] = <<>> /\ Left(c) /\ Drop(c) /\ srv' = [srv EXCEPT !.i = i + 1]
         /\ UNCHANGED <<version, name, backlog, up, down, cli, revents, errmsg>>
      \/ up[c] = <<>> /\ Left(c) /\ down[c] # <<>> /\ Die
      \/ /\ up[c] # <<>> /\ up' = [up EXCEPT ![c] = Tail(@)] /\ Request(Head(up[c]))
         /\ srv' = [srv EXCEPT !.i = i + 1, !.req = Head(up[c]), !.pc = Answer(Head(up[c])),
                                !.over = srv.over \/ Overflows(Head(up[c]))]
         /\ UNCHANGED <<version, name, backlog, conn, down, cli, table, allset, revents>>
  BY DEF Read
<1> HIDE DEF i, c
<1>5. CASE /\ up[c] = <<>> /\ Left(c) /\ Drop(c) /\ srv' = [srv EXCEPT !.i = i + 1]
           /\ UNCHANGED <<version, name, backlog, up, down, cli, revents, errmsg>>
  <2>1. srv'.i = i + 1
    BY <1>5 DEF SrvTypes, ServerRecord
  <2>2. Drops(c)
    BY <1>1, <1>2, <1>3, <1>5, <2>1 DEF Drops
  <2> QED
    BY <1>2, <2>2
<1>6. CASE up[c] = <<>> /\ Left(c) /\ down[c] # <<>> /\ Die
  BY <1>1, <1>2, <1>6
<1>7. CASE /\ up[c] # <<>> /\ up' = [up EXCEPT ![c] = Tail(@)] /\ Request(Head(up[c]))
           /\ srv' = [srv EXCEPT !.i = i + 1, !.req = Head(up[c]), !.pc = Answer(Head(up[c])),
                                !.over = srv.over \/ Overflows(Head(up[c]))]
           /\ UNCHANGED <<version, name, backlog, conn, down, cli, table, allset, revents>>
  <2>1. srv'.i = i + 1
    BY <1>7 DEF SrvTypes, ServerRecord
  <2>2. TakesRequest(c)
    BY <1>1, <1>2, <1>3, <1>7, <2>1 DEF TakesRequest
  <2> QED
    BY <1>2, <2>2
<1> QED
  BY <1>4, <1>5, <1>6, <1>7

(* A read of the child of one client takes a request, or ends the child.   *)
LEMMA ReadStdinIs ==
  ASSUME NetTypes, SrvTypes, ReadStdin
  PROVE  \/ \E c \in Clients : TakesRequest(c)
         \/ Die /\ version = "fe" /\ \E c \in Clients : Left(c)
<1>1. PICK c \in Clients : Readable(c) /\ \/ up[c] = <<>> /\ Die
                                          \/ /\ up[c] # <<>>
                                             /\ up' = [up EXCEPT ![c] = Tail(@)]
                                             /\ Request(Head(up[c]))
                                             /\ srv' = [srv EXCEPT !.req = Head(up[c]),
                                                                   !.pc = Answer(Head(up[c])),
                                                                   !.over = srv.over \/ Overflows(Head(up[c]))]
                                             /\ UNCHANGED <<version, name, backlog, conn, down, cli, table, allset, revents>>
  BY DEF ReadStdin
<1>2. version = "fe" /\ srv.pc \in {"loop", "scan"} /\ conn[c] = "open"
  BY <1>1 DEF ReadStdin, Readable
<1>3. CASE up[c] = <<>> /\ Die
  BY <1>1, <1>2, <1>3 DEF Readable
<1>4. CASE /\ up[c] # <<>> /\ up' = [up EXCEPT ![c] = Tail(@)] /\ Request(Head(up[c]))
           /\ srv' = [srv EXCEPT !.req = Head(up[c]), !.pc = Answer(Head(up[c])),
                                !.over = srv.over \/ Overflows(Head(up[c]))]
           /\ UNCHANGED <<version, name, backlog, conn, down, cli, table, allset, revents>>
  <2>1. /\ srv'.i = srv.i /\ srv.i \in Nat \ {0}
        /\ srv' = [srv EXCEPT !.i = srv'.i, !.req = Head(up[c]), !.pc = Answer(Head(up[c])),
                              !.over = srv.over \/ Overflows(Head(up[c]))]
    BY <1>4 DEF SrvTypes, ServerRecord
  <2>2. TakesRequest(c)
    BY <1>2, <1>4, <2>1 DEF TakesRequest
  <2> QED
    BY <2>2
<1> QED
  BY <1>1, <1>3, <1>4

(* One message to the client in hand.                                      *)
Delivers(c) ==
    /\ c \in Clients /\ InHand(c) /\ ~Left(c)
    /\ \/ srv.pc = "text"    /\ down' = [down EXCEPT ![c] = @ \o Text(errmsg)] /\ srv' = [srv EXCEPT !.pc = "status"]
       \/ /\ srv.pc = "status"  /\ srv' = [srv EXCEPT !.pc = "scan"]
          /\ down' = [down EXCEPT ![c] = @ \o Status(FALSE, srv.req.of)]
       \/ /\ srv.pc = "send_fd" /\ srv' = [srv EXCEPT !.pc = "scan"]
          /\ down' = [down EXCEPT ![c] = @ \o Status(TRUE, srv.req.of)]
    /\ UNCHANGED <<version, name, backlog, conn, up, cli, table, allset, revents, errmsg>>

(* The server ends, and of whom.                                           *)
DiesOf(c) ==
    /\ c \in Clients /\ Die /\ srv.pc # "start"
    /\ \/ srv.pc = "accept" /\ version # "fe" /\ name[c] = "stale"
       \/ srv.pc \in {"loop", "scan"} /\ version = "fe" /\ Left(c)
       \/ srv.pc = "scan" /\ Left(c) /\ down[c] # <<>>
       \/ InHand(c) /\ Left(c)
       \/ srv.over

(* A message to the client in hand is written, or the write ends the       *)
(* server.                                                                 *)
LEMMA DeliverIs ==
  ASSUME SrvTypes, Hands, SendText \/ SendStatus \/ SendFd
  PROVE  \E c \in Clients : Delivers(c) \/ DiesOf(c)
<1> DEFINE c == srv.req.of[1]
<1>1. srv.pc \in Answering /\ srv.req \in Piece
  BY DEF SendText, SendStatus, SendFd, Answering, Hands
<1>2. c \in Clients
  BY <1>1 DEF Piece
<1>3. CASE Left(c)
  <2>1. DiesOf(c)
    BY <1>1, <1>2, <1>3 DEF SendText, SendStatus, SendFd, Deliver, DiesOf, InHand, Answering
  <2> QED
    BY <1>2, <2>1
<1>4. CASE ~Left(c)
  <2>1. Delivers(c)
    BY <1>1, <1>2, <1>4 DEF SendText, SendStatus, SendFd, Deliver, Delivers, InHand
  <2> QED
    BY <1>2, <2>1
<1> QED
  BY <1>3, <1>4

(* The steps of the server, by what they do.                               *)
ServerDoes ==
    \/ ListenSelect \/ ListenPoll \/ Select \/ Poll \/ AcceptSelect \/ AcceptPoll \/ PassEnds
    \/ \E c \in Clients : Drops(c) \/ TakesRequest(c) \/ Delivers(c) \/ DiesOf(c)

(* Every step of the server is one of those.                               *)
LEMMA ServerIs ==
  ASSUME NetTypes, SrvTypes, Queue, Table, Polled, Hands, Server
  PROVE  ServerDoes
<1>1. ASSUME AcceptFails PROVE \E c \in Clients : DiesOf(c)
  <2>1. backlog \in Seq(Clients) /\ backlog # <<>> /\ srv.pc = "accept" /\ name[Head(backlog)] = "stale" /\ Die
    BY <1>1 DEF AcceptFails, NetTypes, Queue
  <2>2. Head(backlog) \in Clients
    BY <2>1
  <2>3. version # "fe"
    BY <2>1 DEF Queue
  <2> QED
    BY <2>1, <2>2, <2>3 DEF DiesOf
<1>2. ASSUME Hangup PROVE ServerDoes
  BY <1>2, HangupIs DEF ServerDoes
<1>3. ASSUME Read PROVE ServerDoes
  <2>1. \/ \E c \in Clients : Drops(c) \/ TakesRequest(c)
        \/ Die /\ srv.pc = "scan" /\ version # "fe" /\ \E c \in Clients : Left(c) /\ down[c] # <<>>
    BY <1>3, ReadIs
  <2> QED
    BY <2>1 DEF ServerDoes, DiesOf
<1>4. ASSUME ReadStdin PROVE ServerDoes
  <2>1. \/ \E c \in Clients : TakesRequest(c)
        \/ Die /\ version = "fe" /\ \E c \in Clients : Left(c)
    BY <1>4, ReadStdinIs
  <2>2. srv.pc \in {"loop", "scan"}
    BY <1>4 DEF ReadStdin
  <2> QED
    BY <2>1, <2>2 DEF ServerDoes, DiesOf
<1>5. ASSUME SendText \/ SendStatus \/ SendFd PROVE ServerDoes
  BY <1>5, DeliverIs DEF ServerDoes
<1>6. ASSUME Overflow PROVE ServerDoes
  <2>1. PICK c \in Clients : TRUE
    BY <1>6 DEF Overflow, SrvTypes, ServerRecord, Overs
  <2>2. DiesOf(c)
    BY <1>6, <2>1 DEF Overflow, DiesOf
  <2> QED
    BY <2>1, <2>2 DEF ServerDoes
<1> QED
  BY <1>1, <1>2, <1>3, <1>4, <1>5, <1>6 DEF Server, ServerDoes

(* Every step of the system is a step of the server, of a client, or none. *)
LEMMA EachStep ==
  ASSUME NetTypes, SrvTypes, Queue, Table, Polled, Hands, [OpenNext]_openvars
  PROVE  \/ UNCHANGED openvars \/ ServerDoes
         \/ \E c \in Clients :
              \/ Bind(c) \/ NameAges(c) \/ Connect(c) \/ Spawn(c) \/ Recv(c) \/ Exit(c) \/ Leave(c)
              \/ \E k \in Kinds : Send(c, k)
BY ServerIs DEF OpenNext

---------------------------------------------------------------------------
(* What recv_fd makes of the first nr items on the way to a client.        *)
Nulls(d, nr)  == {i \in 1 .. nr : SubSeq(d, 1, nr)[i].t = "null"}
(* The texts among them.                                                   *)
TextsIn(d, nr) == {SubSeq(d, 1, nr)[i].of : i \in {j \in 1 .. nr : SubSeq(d, 1, nr)[j].t = "text"}}
(* The client that recv_fd makes of them.                                  *)
Got(m, d, nr) ==
    IF Nulls(d, nr) = {} THEN [m EXCEPT !.texts = m.texts \cup TextsIn(d, nr)]
    ELSE IF Min(Nulls(d, nr)) # nr - 1 THEN [Ended(m, TRUE) EXCEPT !.res = "dump"]
    ELSE [m EXCEPT !.pc = "ready", !.texts = m.texts \cup TextsIn(d, nr), !.of = SubSeq(d, 1, nr)[nr].of,
                   !.res = IF SubSeq(d, 1, nr)[nr].ok THEN "fd" ELSE "error"]

(* A recvmsg that returns one message ends behind a text or a status.      *)
LEMMA FirstMessageIs ==
  ASSUME NetTypes, Framed, NEW c \in Clients, down[c] # <<>>
  PROVE  /\ FirstMessage(down[c]) \in 1 .. Len(down[c])
         /\ down[c][FirstMessage(down[c])].t # "null"
         /\ \A i \in 1 .. Len(down[c]) :
              down[c][i].t = "status" \/ (down[c][i].t = "text" /\ (i = Len(down[c]) \/ down[c][i + 1].t = "null"))
                => FirstMessage(down[c]) <= i
<1> DEFINE d == down[c]
           Ends == {i \in DOMAIN d : \/ d[i].t = "status"
                                     \/ d[i].t = "text" /\ (i = Len(d) \/ d[i+1].t = "null")}
<1>1. d \in Seq(Message) /\ Len(d) \in Nat /\ Len(d) \in 1 .. Len(d) /\ DOMAIN d = 1 .. Len(d)
  BY DEF NetTypes
<1>2. d[Len(d)].t \in {"text", "status"}
  <2>1. d[Len(d)].t \in {"text", "null", "status"}
    BY <1>1, MessageIs
  <2> QED
    BY <1>1, <2>1 DEF Framed
<1>3. FirstMessage(d) = Min(Ends)
  BY DEF FirstMessage
<1> HIDE DEF d
<1>4. Ends \in SUBSET Nat /\ Ends \subseteq 1 .. Len(d) /\ Len(d) \in Ends
  BY <1>1, <1>2
<1>5. \A i \in 1 .. Len(d) :
        d[i].t = "status" \/ (d[i].t = "text" /\ (i = Len(d) \/ d[i + 1].t = "null")) => i \in Ends
  BY <1>1
<1>7. \A i \in Ends : d[i].t # "null"
  OBVIOUS
<1> HIDE DEF Ends
<1>6. Min(Ends) \in Ends /\ \A i \in Ends : Min(Ends) <= i
  BY <1>4, MinIsThere
<1> QED
  BY <1>3, <1>4, <1>5, <1>6, <1>7 DEF d

(* How much a recvmsg returns.                                             *)
LEMMA AmountsAre ==
  ASSUME NetTypes, Framed, NEW c \in Clients, down[c] # <<>>, NEW nr \in Amounts(down[c])
  PROVE  /\ nr \in 1 .. Len(down[c]) /\ Len(down[c]) \in Nat
         /\ nr = (IF BufLen <= FirstMessage(down[c]) THEN BufLen ELSE FirstMessage(down[c]))
            \/ nr = (IF BufLen <= Len(down[c]) THEN BufLen ELSE Len(down[c]))
<1>1. BufLen \in Nat /\ BufLen >= 3
  BY OpenAssumption
<1>2. Len(down[c]) \in Nat /\ FirstMessage(down[c]) \in 1 .. Len(down[c])
  BY FirstMessageIs DEF NetTypes
<1>3. nr = Min({BufLen, FirstMessage(down[c])}) \/ nr = Min({BufLen, Len(down[c])})
  BY DEF Amounts
<1> QED
  BY <1>1, <1>2, <1>3, MinOfTwo

(* What is in the buffer and what stays behind.                            *)
LEMMA BufferIs ==
  ASSUME NEW d \in Seq(Message), NEW nr \in 1 .. Len(d)
  PROVE  /\ SubSeq(d, 1, nr) \in Seq(Message) /\ Len(SubSeq(d, 1, nr)) = nr
         /\ \A i \in 1 .. nr : SubSeq(d, 1, nr)[i] = d[i]
         /\ SubSeq(d, nr + 1, Len(d)) \in Seq(Message) /\ Len(SubSeq(d, nr + 1, Len(d))) = Len(d) - nr
         /\ \A i \in 1 .. Len(d) - nr : SubSeq(d, nr + 1, Len(d))[i] = d[i + nr]
         /\ Nulls(d, nr) = {i \in 1 .. nr : d[i].t = "null"}
         /\ TextsIn(d, nr) = {d[i].of : i \in {j \in 1 .. nr : d[j].t = "text"}}
         /\ Nulls(d, nr) \in SUBSET Nat
<1>1. Len(d) \in Nat /\ nr \in Nat /\ 1 <= nr /\ nr <= Len(d)
  OBVIOUS
<1>2. SubSeq(d, 1, nr) \in Seq(Message) /\ Len(SubSeq(d, 1, nr)) = nr /\ \A i \in 1 .. nr : SubSeq(d, 1, nr)[i] = d[i]
  BY <1>1
<1>3. /\ SubSeq(d, nr + 1, Len(d)) \in Seq(Message) /\ Len(SubSeq(d, nr + 1, Len(d))) = Len(d) - nr
      /\ \A i \in 1 .. Len(d) - nr : SubSeq(d, nr + 1, Len(d))[i] = d[i + nr]
  <2>1. SubSeq(d, nr + 1, Len(d)) \in Seq(Message)
    BY <1>1
  <2>2. Len(SubSeq(d, nr + 1, Len(d))) = Len(d) - nr
    BY <1>1
  <2>3. \A i \in 1 .. Len(d) - nr : SubSeq(d, nr + 1, Len(d))[i] = d[i + nr]
    BY <1>1
  <2> QED
    BY <2>1, <2>2, <2>3
<1>4. Nulls(d, nr) = {i \in 1 .. nr : d[i].t = "null"} /\ Nulls(d, nr) \in SUBSET Nat
  BY <1>2 DEF Nulls
<1>5. TextsIn(d, nr) = {d[i].of : i \in {j \in 1 .. nr : d[j].t = "text"}}
  BY <1>2 DEF TextsIn
<1> QED
  BY <1>2, <1>3, <1>4, <1>5

(* What recv_fd makes of it is a client again.                             *)
LEMMA GotIs ==
  ASSUME NetTypes, Framed, NEW c \in Clients, NEW nr \in 1 .. Len(down[c])
  PROVE  Got(cli[c], down[c], nr) \in Client
<1> DEFINE d == down[c]
           m == cli[c]
           N == Nulls(d, nr)
           T == TextsIn(d, nr)
<1>1. d \in Seq(Message) /\ m \in Client /\ Len(d) \in Nat /\ nr \in Nat /\ nr <= Len(d)
  BY DEF NetTypes
<1>2. /\ N = {i \in 1 .. nr : d[i].t = "null"} /\ N \in SUBSET Nat
      /\ SubSeq(d, 1, nr)[nr] = d[nr]
      /\ T = {d[i].of : i \in {j \in 1 .. nr : d[j].t = "text"}}
  BY <1>1, BufferIs
<1>3. \A i \in 1 .. nr : d[i] \in Message /\ i \in 1 .. Len(d)
  BY <1>1
<1>4. T \in SUBSET Who
  BY <1>2, <1>3, MessageIs
<1>5. \A i \in N : i < Len(d) /\ d[i + 1].t = "status" /\ i \in 1 .. nr
  BY <1>2, <1>3 DEF Framed
<1> HIDE DEF d, m, N, T
<1>6. CASE N = {}
  <2>1. Got(m, d, nr) = [m EXCEPT !.texts = m.texts \cup T]
    BY <1>6 DEF Got, N, T
  <2> QED
    BY <1>1, <1>4, <2>1 DEF Client, d, m
<1>7. CASE N # {} /\ Min(N) # nr - 1
  <2>1. Got(m, d, nr) = [Ended(m, TRUE) EXCEPT !.res = "dump"]
    BY <1>7 DEF Got, N
  <2>2. Ended(m, TRUE) \in Client
    BY <1>1, EndedIs
  <2> QED
    BY <2>1, <2>2 DEF Client, d, m
<1>8. CASE N # {} /\ Min(N) = nr - 1
  <2>1. d[nr].t = "status"
    <3>1. nr - 1 \in N
      BY <1>2, <1>8, MinIsThere
    <3>2. d[nr - 1 + 1].t = "status" /\ nr - 1 + 1 = nr
      BY <1>1, <1>5, <3>1
    <3> QED
      BY <3>2
  <2>2. d[nr].of \in Who /\ d[nr].ok \in BOOLEAN
    BY <1>1, <1>3, <2>1, MessageIs
  <2>3. Got(m, d, nr) = [m EXCEPT !.pc = "ready", !.texts = m.texts \cup T, !.of = d[nr].of,
                                  !.res = IF d[nr].ok THEN "fd" ELSE "error"]
    BY <1>2, <1>8 DEF Got, N, T
  <2> QED
    BY <1>1, <1>4, <2>2, <2>3, ZenonT(30) DEF Client, d, m
<1> QED
  BY <1>6, <1>7, <1>8 DEF d, m

(* recv_fd goes on, returns, or ends its process; the request stays the    *)
(* same.                                                                   *)
LEMMA GotPc ==
  ASSUME NEW m \in Client, NEW d, NEW nr
  PROVE  /\ Got(m, d, nr).pc \in {m.pc, "ready", "left"}
         /\ Got(m, d, nr).n = m.n /\ Got(m, d, nr).kind = m.kind /\ Got(m, d, nr).split = m.split
         /\ Got(m, d, nr).pc = "left" => m.pc = "left" \/ Got(m, d, nr).mid = TRUE
<1>1. CASE Nulls(d, nr) = {}
  <2>1. Got(m, d, nr) = [m EXCEPT !.texts = m.texts \cup TextsIn(d, nr)]
    BY <1>1 DEF Got
  <2> QED
    BY <2>1 DEF Client
<1>2. CASE Nulls(d, nr) # {} /\ Min(Nulls(d, nr)) # nr - 1
  <2>1. Got(m, d, nr) = [Ended(m, TRUE) EXCEPT !.res = "dump"]
    BY <1>2 DEF Got
  <2> DEFINE e == Ended(m, TRUE)
  <2>2. e \in Client /\ e.pc = "left" /\ e.mid = TRUE /\ e.split = m.split /\ e.kind = m.kind /\ e.n = m.n
    BY EndedIs
  <2>3. Got(m, d, nr) = [e EXCEPT !.res = "dump"]
    BY <2>1
  <2> HIDE DEF e
  <2> QED
    BY <2>2, <2>3 DEF Client
<1>3. CASE Nulls(d, nr) # {} /\ Min(Nulls(d, nr)) = nr - 1
  <2>1. Got(m, d, nr) = [m EXCEPT !.pc = "ready", !.texts = m.texts \cup TextsIn(d, nr),
                                  !.of = SubSeq(d, 1, nr)[nr].of,
                                  !.res = IF SubSeq(d, 1, nr)[nr].ok THEN "fd" ELSE "error"]
    BY <1>3 DEF Got
  <2> QED
    BY <2>1 DEF Client
<1> QED
  BY <1>1, <1>2, <1>3

(* Recv in these words.                                                    *)
LEMMA RecvIs ==
  ASSUME NetTypes, Framed, NEW c \in Clients, Recv(c)
  PROVE  /\ cli[c].pc = "wait" /\ UNCHANGED <<version, name, backlog, conn, up, srvvars>>
         /\ \/ /\ down[c] = <<>> /\ Gone(c) /\ UNCHANGED down
               /\ cli' = [cli EXCEPT ![c] = [cli[c] EXCEPT !.pc = "ready", !.res = "closed"]]
            \/ /\ down[c] # <<>>
               /\ \E nr \in Amounts(down[c]) :
                    /\ down' = [down EXCEPT ![c] = SubSeq(down[c], nr + 1, Len(down[c]))]
                    /\ cli' = [cli EXCEPT ![c] = Got(cli[c], down[c], nr)]
BY DEF Recv, Got, Nulls, TextsIn, NetTypes

---------------------------------------------------------------------------
(* The server keeps the types.                                             *)
LEMMA ServerKeepsTypes ==
  ASSUME NetTypes, SrvTypes, Queue, Table, Polled, Hands, Framed, ServerDoes
  PROVE  NetTypes' /\ SrvTypes'
<1>0. /\ srv \in ServerRecord /\ srv.maxi \in Nat /\ {"loop", "accept", "scan", "dead", "status"} \subseteq SrvPcs
      /\ 1 \in Nat \ {0} /\ 2 \in Nat \ {0} /\ {} \in SUBSET (Clients \cup {Listener})
  BY DEF SrvTypes, ServerRecord, SrvPcs, Answering
<1>1. CASE ListenSelect
  <2>1. srv' \in ServerRecord /\ UNCHANGED netvars /\ allset' = {Listener} /\ UNCHANGED <<version, cli, table, revents, errmsg>>
    BY <1>0, <1>1 DEF ServerRecord, ListenSelect
  <2> QED
    BY <2>1, NetSame DEF NetTypes, SrvTypes
<1>2. CASE ListenPoll
  <2>1. table' \in Seq(Clients \cup {NoClient, Listener})
    <3> DEFINE S == Clients \cup {NoClient, Listener}
    <3>1. NoClient \in S /\ <<>> \in Seq(S) /\ Listener \in S
      OBVIOUS
    <3> HIDE DEF S
    <3>2. ClientAdd(<<>>, Listener) \in Seq(S)
      BY <3>1, ClientAddIs
    <3> QED
      BY <1>2, <3>2 DEF ListenPoll, S
  <2> QED
    <3>1. srv' \in ServerRecord /\ UNCHANGED netvars /\ UNCHANGED <<version, cli, allset, revents, errmsg>>
      BY <1>0, <1>2 DEF ServerRecord, ListenPoll
    <3> QED
      BY <2>1, <3>1, NetSame DEF NetTypes, SrvTypes
<1>3. CASE Select
  <2> DEFINE ready == {c \in allset \ {Listener} : Readable(c)} \cup {l \in allset : l = Listener /\ backlog # <<>>}
  <2>1. ready \subseteq Clients \cup {Listener}
    BY DEF SrvTypes
  <2>2. /\ srv' = [srv EXCEPT !.rset = ready, !.i = 1, !.pc = IF Listener \in ready THEN "accept" ELSE "scan"]
        /\ UNCHANGED <<version, netvars, cli, table, allset, revents, errmsg>>
    BY <1>3 DEF Select
  <2> HIDE DEF ready
  <2> QED
    <3>1. srv' \in ServerRecord
      BY <1>0, <2>1, <2>2 DEF ServerRecord
    <3> QED
      BY <2>2, <3>1, NetSame DEF NetTypes, SrvTypes
<1>4. CASE Poll
  <2> DEFINE ev(i) == CASE table[i] = NoClient -> {}
                       [] table[i] = Listener -> IF backlog # <<>> THEN {"in"} ELSE {}
                       [] OTHER -> {e \in {"in", "hup"} :
                                      IF e = "in" THEN Readable(table[i]) ELSE Left(table[i])}
             now == [i \in 1 .. srv.maxi |-> ev(i)]
  <2>1. /\ revents' = now /\ srv' = [srv EXCEPT !.i = 2, !.pc = IF now[1] # {} THEN "accept" ELSE "scan"]
        /\ UNCHANGED <<version, netvars, cli, table, allset, errmsg>>
    BY <1>4 DEF Poll
  <2>2. \A i \in 1 .. srv.maxi : ev(i) \in SUBSET {"in", "hup"}
    OBVIOUS
  <2>3. srv.maxi \in Nat
    BY <1>0
  <2> HIDE DEF ev
  <2>4. now \in Seq(SUBSET {"in", "hup"})
    BY <2>2, <2>3
  <2> HIDE DEF now
  <2> QED
    <3>1. srv' \in ServerRecord
      BY <1>0, <2>1 DEF ServerRecord
    <3> QED
      BY <2>1, <2>4, <3>1, NetSame DEF NetTypes, SrvTypes
<1>5. ASSUME ServAccept
      PROVE  /\ Head(backlog) \in Clients /\ backlog' \in Seq(Clients)
             /\ name' \in [Clients -> {"none", "fresh", "stale"}]
             /\ conn' \in [Clients -> {"none", "queued", "open", "closed"}]
             /\ table' \in Seq(Clients \cup {NoClient, Listener})
             /\ Slot(table) \in Nat /\ Max({srv.maxi, Slot(table)}) \in Nat
  <2>1. backlog \in Seq(Clients) /\ backlog # <<>>
    BY <1>5 DEF ServAccept, NetTypes, Queue
  <2>2. Head(backlog) \in Clients /\ Tail(backlog) \in Seq(Clients)
    BY <2>1
  <2>3. table' = ClientAdd(table, Head(backlog)) /\ table \in Seq(Clients \cup {NoClient, Listener})
    BY <1>5 DEF ServAccept, SrvTypes
  <2>4. table' \in Seq(Clients \cup {NoClient, Listener})
    <3> DEFINE S == Clients \cup {NoClient, Listener}
    <3>1. NoClient \in S /\ table \in Seq(S) /\ Head(backlog) \in S
      BY <2>2, <2>3
    <3> HIDE DEF S
    <3>2. ClientAdd(table, Head(backlog)) \in Seq(S)
      BY <3>1, ClientAddIs
    <3> QED
      BY <2>3, <3>2 DEF S
  <2>5. Slot(table) \in Nat /\ srv.maxi \in Nat
    BY <1>0, <2>3, SlotIs
  <2> QED
    BY <1>5, <2>2, <2>4, <2>5, MaxOfTwo DEF ServAccept, NetTypes
<1>6. CASE AcceptSelect
  <2>1. ServAccept
    BY <1>6 DEF AcceptSelect
  <2> QED
    <3>1. srv' \in ServerRecord
      BY <1>0, <1>5, <1>6, <2>1 DEF ServerRecord, AcceptSelect
    <3>2. allset' \subseteq Clients \cup {Listener} /\ UNCHANGED <<version, up, down, cli, revents, errmsg>>
      BY <1>5, <1>6, <2>1 DEF AcceptSelect, SrvTypes
    <3> QED
      BY <1>5, <2>1, <3>1, <3>2 DEF NetTypes, SrvTypes
<1>7. CASE AcceptPoll
  <2>1. ServAccept
    BY <1>7 DEF AcceptPoll
  <2>2. revents' \in Seq(SUBSET {"in", "hup"})
    <3>1. revents \in Seq(SUBSET {"in", "hup"}) /\ \A r \in FreshRevents : r \in SUBSET {"in", "hup"}
      BY OpenAssumption DEF SrvTypes
    <3>2. revents' = revents \/ \E r \in FreshRevents : revents' = Append(revents, r)
      BY <1>7 DEF AcceptPoll
    <3> QED
      BY <3>1, <3>2
  <2> QED
    <3>1. srv' \in ServerRecord
      <4>1. (Slot(table) <= srv.maxi) \in BOOLEAN
        OBVIOUS
      <4> QED
        BY <1>0, <1>5, <1>7, <2>1, <4>1 DEF ServerRecord, AcceptPoll
    <3>2. UNCHANGED <<version, up, down, cli, allset, errmsg>>
      BY <1>7 DEF AcceptPoll
    <3> QED
      BY <1>5, <2>1, <2>2, <3>1, <3>2 DEF NetTypes, SrvTypes
<1>8. CASE PassEnds
  <2>1. srv' \in ServerRecord /\ UNCHANGED netvars /\ UNCHANGED <<version, cli, table, allset, revents, errmsg>>
    BY <1>0, <1>8 DEF ServerRecord, PassEnds
  <2> QED
    BY <2>1, NetSame DEF NetTypes, SrvTypes
<1>9. ASSUME NEW c \in Clients, Drops(c) PROVE NetTypes' /\ SrvTypes'
  <2>1. table' \in Seq(Clients \cup {NoClient, Listener})
    <3> DEFINE S == Clients \cup {NoClient, Listener}
    <3>1. NoClient \in S /\ table \in Seq(S)
      BY DEF SrvTypes
    <3> HIDE DEF S
    <3>2. ClientDel(table, c) \in Seq(S)
      BY <3>1, ClientDelIs
    <3> QED
      BY <1>9, <3>2 DEF Drops, Drop, S
  <2> QED
    <3>1. srv' \in ServerRecord
      BY <1>0, <1>9 DEF ServerRecord, Drops
    <3> QED
      BY <1>9, <2>1, <3>1 DEF Drops, Drop, NetTypes, SrvTypes
<1>10. ASSUME NEW c \in Clients, TakesRequest(c) PROVE NetTypes' /\ SrvTypes'
  <2>1. Head(up[c]) \in Piece /\ up' \in [Clients -> Seq(Piece)]
    BY <1>10, FirstPiece DEF TakesRequest
  <2>2. errmsg' \in [of : Who, len : Nat] /\ Answer(Head(up[c])) \in SrvPcs
    BY <1>10, <2>1, RequestIs DEF TakesRequest, SrvPcs
  <2>3. srv' \in ServerRecord
    <3> DEFINE o == srv.over \/ Overflows(Head(up[c]))
    <3>1. o \in Overs /\ srv'.i \in Nat \ {0}
      BY <1>10 DEF TakesRequest, Overs
    <3>2. srv' = [srv EXCEPT !.i = srv'.i, !.req = Head(up[c]), !.pc = Answer(Head(up[c])), !.over = o]
      BY <1>10 DEF TakesRequest
    <3> HIDE DEF o
    <3> QED
      BY <1>0, <2>1, <2>2, <3>1, <3>2 DEF ServerRecord
  <2> QED
    BY <1>10, <2>1, <2>2, <2>3 DEF TakesRequest, NetTypes, SrvTypes
<1>11. ASSUME NEW c \in Clients, Delivers(c) PROVE NetTypes' /\ SrvTypes'
  <2>1. srv.req.of \in Clients \X Nat /\ errmsg \in [of : Who, len : Nat] /\ down[c] \in Seq(Message)
    BY <1>11 DEF Delivers, InHand, Hands, Piece, SrvTypes, NetTypes
  <2>2. /\ down[c] \o Text(errmsg) \in Seq(Message)
        /\ \A ok \in BOOLEAN : down[c] \o Status(ok, srv.req.of) \in Seq(Message)
    <3>1. Text(errmsg) \in Seq(Message) /\ \A ok \in BOOLEAN : Status(ok, srv.req.of) \in Seq(Message)
      BY <2>1, TextIs, StatusIs
    <3> QED
      BY <2>1, <3>1
  <2>3. down' \in [Clients -> Seq(Message)]
    BY <1>11, <2>2 DEF Delivers, NetTypes
  <2> QED
    <3>1. srv' \in ServerRecord
      BY <1>0, <1>11 DEF ServerRecord, Delivers
    <3> QED
      BY <1>11, <2>3, <3>1 DEF Delivers, NetTypes, SrvTypes
<1>12. ASSUME NEW c \in Clients, DiesOf(c) PROVE NetTypes' /\ SrvTypes'
  <2>1. srv' \in ServerRecord /\ backlog' = <<>> /\ UNCHANGED <<version, name, up, down, cli, table, allset, revents, errmsg>>
    BY <1>0, <1>12 DEF ServerRecord, DiesOf, Die
  <2>2. conn' \in [Clients -> {"none", "queued", "open", "closed"}]
    BY <1>12 DEF DiesOf, Die
  <2> QED
    BY <2>1, <2>2 DEF NetTypes, SrvTypes
<1> QED
  BY <1>1, <1>2, <1>3, <1>4, <1>6, <1>7, <1>8, <1>9, <1>10, <1>11, <1>12 DEF ServerDoes

(* A client keeps the types.                                               *)
LEMMA ClientKeepsTypes ==
  ASSUME NetTypes, SrvTypes, Framed, NEW c \in Clients,
         \/ Bind(c) \/ NameAges(c) \/ Connect(c) \/ Spawn(c) \/ Recv(c) \/ Exit(c) \/ Leave(c)
         \/ \E k \in Kinds : Send(c, k)
  PROVE  NetTypes' /\ SrvTypes'
<1>0. cli[c] \in Client /\ cli \in [Clients -> Client]
  BY DEF NetTypes
<1>1. CASE Bind(c) \/ NameAges(c) \/ Connect(c)
  <2>1. UNCHANGED srvvars /\ UNCHANGED <<version, up, down>>
    BY <1>1 DEF Bind, NameAges, Connect
  <2>2. cli' \in [Clients -> Client]
    <3>1. cli' = cli \/ \E pc \in {"bound", "left", "ready"} : cli' = [cli EXCEPT ![c] = [cli[c] EXCEPT !.pc = pc]]
      BY <1>0, <1>1 DEF Bind, NameAges, Connect
    <3> QED
      BY <1>0, <3>1, ClientFields
  <2>3. /\ name' \in [Clients -> {"none", "fresh", "stale"}] /\ backlog' \in Seq(Clients)
        /\ conn' \in [Clients -> {"none", "queued", "open", "closed"}]
    <3>1. CASE Bind(c) \/ NameAges(c)
      BY <3>1 DEF Bind, NameAges, NetTypes
    <3>2. CASE Connect(c)
      <4>1. backlog' = backlog \/ backlog' = Append(backlog, c)
        BY <3>2 DEF Connect
      <4>2. backlog \in Seq(Clients)
        BY DEF NetTypes
      <4>3. backlog' \in Seq(Clients)
        BY <4>1, <4>2
      <4> QED
        BY <3>2, <4>3 DEF Connect, NetTypes
    <3> QED
      BY <1>1, <3>1, <3>2
  <2> QED
    BY <2>1, <2>2, <2>3, SrvSame DEF NetTypes, SrvTypes
<1>2. CASE Spawn(c)
  <2>1. UNCHANGED <<version, name, backlog, up, down, table, allset, revents, errmsg>>
    BY <1>2 DEF Spawn
  <2>2. cli' \in [Clients -> Client]
    BY <1>0, <1>2, ClientFields DEF Spawn
  <2>3. srv' \in ServerRecord
    <3>1. srv \in ServerRecord /\ "loop" \in SrvPcs
      BY DEF SrvTypes, SrvPcs
    <3> QED
      BY <1>2, <3>1 DEF Spawn, ServerRecord
  <2>4. conn' \in [Clients -> {"none", "queued", "open", "closed"}]
    BY <1>2 DEF Spawn, NetTypes
  <2> QED
    BY <2>1, <2>2, <2>3, <2>4 DEF NetTypes, SrvTypes
<1>3. CASE Recv(c)
  <2>1. UNCHANGED <<version, name, backlog, conn, up, srvvars>>
    BY <1>3 DEF Recv
  <2>2. CASE UNCHANGED down /\ cli' = [cli EXCEPT ![c] = [cli[c] EXCEPT !.pc = "ready", !.res = "closed"]]
    <3>1. cli' \in [Clients -> Client]
      BY <1>0, <2>2, ClientFields
    <3> QED
      BY <2>1, <2>2, <3>1, SrvSame DEF NetTypes, SrvTypes
  <2>3. ASSUME down[c] # <<>>, NEW nr \in Amounts(down[c]),
               down' = [down EXCEPT ![c] = SubSeq(down[c], nr + 1, Len(down[c]))],
               cli' = [cli EXCEPT ![c] = Got(cli[c], down[c], nr)]
        PROVE  NetTypes' /\ SrvTypes'
    <3>1. nr \in 1 .. Len(down[c]) /\ down[c] \in Seq(Message)
      BY <2>3, AmountsAre DEF NetTypes
    <3>2. SubSeq(down[c], nr + 1, Len(down[c])) \in Seq(Message)
      BY <3>1, BufferIs
    <3>3. Got(cli[c], down[c], nr) \in Client
      BY <3>1, GotIs
    <3> QED
      BY <2>1, <2>3, <3>2, <3>3, SrvSame DEF NetTypes, SrvTypes
  <2> QED
    BY <1>3, <2>2, <2>3, RecvIs
<1>4. CASE Exit(c) \/ Leave(c)
  <2>1. Ended(cli[c], FALSE) \in Client /\ Ended(cli[c], TRUE) \in Client
    BY <1>0, EndedIs
  <2> QED
    <3>1. cli' \in [Clients -> Client] /\ UNCHANGED netvars /\ UNCHANGED srvvars /\ version' = version
      BY <1>0, <1>4, <2>1 DEF Exit, Leave
    <3> QED
      BY <3>1, NetSame, SrvSame DEF NetTypes, SrvTypes
<1>5. ASSUME NEW k \in Kinds, Send(c, k) PROVE NetTypes' /\ SrvTypes'
  <2> DEFINE n == cli[c].n + 1
             m == [cli[c] EXCEPT !.pc = "wait", !.n = n, !.kind = k, !.texts = {}, !.of = NoClient,
                                 !.res = "none", !.split = cli[c].split \/ k = "long"]
  <2>1. n \in Nat /\ m \in Client
    <3>1. cli[c].n \in Nat /\ cli[c].split \in BOOLEAN
      BY <1>0 DEF Client
    <3>2. n \in Nat /\ (cli[c].split \/ k = "long") \in BOOLEAN
      BY <3>1
    <3> HIDE DEF n
    <3> QED
      BY <1>0, <3>2, ClientFields
  <2>2. Ended(cli[c], FALSE) \in Client
    BY <1>0, EndedIs
  <2>3. up[c] \o Pieces(c, n, k) \in Seq(Piece)
    BY <2>1, PiecesAre DEF NetTypes
  <2>4. /\ UNCHANGED <<version, name, backlog, conn, down, srvvars>>
        /\ \/ cli' = [cli EXCEPT ![c] = Ended(cli[c], FALSE)] /\ UNCHANGED up
           \/ cli' = [cli EXCEPT ![c] = m] /\ up' = [up EXCEPT ![c] = up[c] \o Pieces(c, n, k)]
    <3>1. UNCHANGED <<version, name, backlog, conn, down, srvvars>>
      BY <1>5 DEF Send
    <3>2. CASE Gone(c)
      BY <1>0, <1>5, <3>1, <3>2 DEF Send
    <3>3. CASE ~Gone(c)
      <4>1. cli' = [cli EXCEPT ![c] = [@ EXCEPT !.pc = "wait", !.n = n, !.kind = k,
                            !.texts = {}, !.of = NoClient, !.res = "none",
                            !.split = cli[c].split \/ k = "long"]]
        BY <1>5, <3>3 DEF Send
      <4>2. up' = [up EXCEPT ![c] = @ \o Pieces(c, n, k)]
        BY <1>5, <3>3 DEF Send
      <4>3. cli' = [cli EXCEPT ![c] = m]
        BY <1>0, <4>1
      <4>4. up' = [up EXCEPT ![c] = up[c] \o Pieces(c, n, k)]
        BY <4>2 DEF NetTypes
      <4> QED
        BY <3>1, <4>3, <4>4
    <3> QED
      BY <3>2, <3>3
  <2> HIDE DEF m, n
  <2> QED
    <3>1. cli' \in [Clients -> Client] /\ up' \in [Clients -> Seq(Piece)]
      BY <1>0, <2>1, <2>2, <2>3, <2>4 DEF NetTypes
    <3> QED
      BY <2>4, <3>1, SrvSame DEF NetTypes, SrvTypes
<1> QED
  BY <1>1, <1>2, <1>3, <1>4, <1>5

---------------------------------------------------------------------------
(* serv_accept takes the first connection that waits; it waits no more.    *)
LEMMA AcceptIs ==
  ASSUME NetTypes, SrvTypes, Queue, Table, ServAccept
  PROVE  LET c == Head(backlog) IN
         /\ srv.pc = "accept" /\ version # "fe" /\ c \in Clients /\ conn[c] = "queued"
         /\ backlog' \in Seq(Clients) /\ Len(backlog) = Len(backlog') + 1
         /\ \A i \in 1 .. Len(backlog') : backlog'[i] = backlog[i + 1] /\ i + 1 \in 1 .. Len(backlog) /\ backlog'[i] # c
         /\ conn' = [conn EXCEPT ![c] = "open"] /\ name' = [name EXCEPT ![c] = "none"]
         /\ table' = ClientAdd(table, c)
<1>1. backlog \in Seq(Clients) /\ backlog # <<>> /\ srv.pc = "accept" /\ version # "fe"
  BY DEF NetTypes, Queue, ServAccept
<1>2. /\ Head(backlog) = backlog[1] /\ Head(backlog) \in Clients /\ 1 \in 1 .. Len(backlog)
      /\ backlog' \in Seq(Clients) /\ Len(backlog) = Len(backlog') + 1 /\ Len(backlog') \in Nat
  BY <1>1 DEF ServAccept
<1>3. \A i \in 1 .. Len(backlog') : backlog'[i] = backlog[i + 1] /\ i + 1 \in 1 .. Len(backlog) /\ i + 1 # 1
  BY <1>1, <1>2 DEF ServAccept
<1>4. \A i \in 1 .. Len(backlog') : backlog'[i] # Head(backlog)
  BY <1>2, <1>3 DEF Queue
<1> QED
  BY <1>1, <1>2, <1>3, <1>4 DEF ServAccept, Queue

(* The server keeps the queue of connections: it only takes the first.     *)
LEMMA ServerKeepsQueue ==
  ASSUME NetTypes, SrvTypes, Queue, Table, Polled, Hands, Framed, ServerDoes
  PROVE  Queue'
<1>0. srv \in ServerRecord /\ Listener \notin Clients /\ Listener # NoClient
  BY OpenAssumption DEF SrvTypes
<1>1. CASE ListenSelect \/ ListenPoll \/ PassEnds
  <2>1. UNCHANGED netvars /\ cli' = cli /\ srv'.pc = "loop"
    BY <1>0, <1>1 DEF ListenSelect, ListenPoll, PassEnds, ServerRecord
  <2> QED
    BY <2>1, NetSame DEF Queue
<1>2. CASE Select
  <2> DEFINE ready == {c \in allset \ {Listener} : Readable(c)} \cup {l \in allset : l = Listener /\ backlog # <<>>}
  <2>1. UNCHANGED netvars /\ cli' = cli /\ version' = version /\ version = "select"
    BY <1>2 DEF Select
  <2>2. srv'.pc = IF Listener \in ready THEN "accept" ELSE "scan"
    BY <1>0, <1>2 DEF Select, ServerRecord
  <2>3. Listener \in ready => backlog # <<>>
    OBVIOUS
  <2> HIDE DEF ready
  <2> QED
    BY <2>1, <2>2, <2>3, NetSame DEF Queue
<1>3. CASE Poll
  <2> DEFINE ev(i) == CASE table[i] = NoClient -> {}
                       [] table[i] = Listener -> IF backlog # <<>> THEN {"in"} ELSE {}
                       [] OTHER -> {e \in {"in", "hup"} :
                                      IF e = "in" THEN Readable(table[i]) ELSE Left(table[i])}
             now == [i \in 1 .. srv.maxi |-> ev(i)]
  <2>1. UNCHANGED netvars /\ cli' = cli /\ version' = version /\ version = "poll" /\ srv.pc = "loop"
    BY <1>3 DEF Poll
  <2>2. srv'.pc = IF now[1] # {} THEN "accept" ELSE "scan"
    BY <1>0, <1>3 DEF Poll, ServerRecord
  <2>3. srv.maxi \in Nat /\ srv.maxi >= 1 /\ table[1] = Listener
    BY <1>0, <2>1 DEF Table, ServerRecord
  <2>4. now[1] # {} => backlog # <<>>
    <3>1. 1 \in 1 .. srv.maxi /\ table[1] # NoClient
      BY <1>0, <2>3
    <3>2. ev(1) = IF backlog # <<>> THEN {"in"} ELSE {}
      BY <2>3, <3>1
    <3>3. now[1] = ev(1)
      BY <3>1
    <3> HIDE DEF now, ev
    <3> QED
      BY <3>2, <3>3
  <2> HIDE DEF now
  <2> QED
    BY <2>1, <2>2, <2>4, NetSame DEF Queue
<1>4. CASE AcceptSelect \/ AcceptPoll
  <2>1. ServAccept /\ cli' = cli /\ srv'.pc # "accept"
    BY <1>0, <1>4 DEF AcceptSelect, AcceptPoll, ServerRecord
  <2> DEFINE c == Head(backlog)
  <2>2. /\ c \in Clients /\ conn[c] = "queued"
        /\ \A i \in 1 .. Len(backlog') : backlog'[i] = backlog[i + 1] /\ i + 1 \in 1 .. Len(backlog) /\ backlog'[i] # c
        /\ conn' = [conn EXCEPT ![c] = "open"] /\ name' = [name EXCEPT ![c] = "none"]
        /\ Len(backlog') \in Nat /\ backlog' \in Seq(Clients)
    BY <2>1, AcceptIs
  <2> HIDE DEF c
  <2>3. \A i \in 1 .. Len(backlog') : conn'[backlog'[i]] = "queued"
    <3> SUFFICES ASSUME NEW i \in 1 .. Len(backlog') PROVE conn'[backlog'[i]] = "queued"
      OBVIOUS
    <3>1. conn[backlog'[i]] = "queued" /\ backlog'[i] # c
      BY <2>2 DEF Queue
    <3>2. \A d \in Clients \ {c} : conn'[d] = conn[d]
      BY <2>2 DEF NetTypes
    <3>3. backlog'[i] \in Clients
      BY <2>2
    <3> QED
      BY <3>1, <3>2, <3>3
  <2>4. \A i, j \in 1 .. Len(backlog') : backlog'[i] = backlog'[j] => i = j
    <3> SUFFICES ASSUME NEW i \in 1 .. Len(backlog'), NEW j \in 1 .. Len(backlog'), backlog'[i] = backlog'[j]
                 PROVE  i = j
      OBVIOUS
    <3>1. i + 1 = j + 1
      BY <2>2 DEF Queue
    <3> QED
      BY <3>1
  <2> QED
    BY <2>1, <2>2, <2>3, <2>4 DEF Queue, NetTypes
<1>5. ASSUME NEW c \in Clients, Drops(c) PROVE Queue'
  <2>1. /\ conn[c] = "open" /\ conn' = [conn EXCEPT ![c] = "closed"] /\ UNCHANGED <<version, name, backlog, cli>>
        /\ srv'.pc = srv.pc
    BY <1>0, <1>5 DEF Drops, Drop, ServerRecord
  <2> QED
    BY <2>1 DEF Queue, NetTypes
<1>6. ASSUME NEW c \in Clients, TakesRequest(c) PROVE Queue'
  <2>1. Head(up[c]) \in Piece
    BY <1>6, FirstPiece DEF TakesRequest
  <2>2. Answer(Head(up[c])) \in Answering
    BY <1>6, <2>1, RequestIs DEF TakesRequest
  <2>3. UNCHANGED <<version, name, backlog, conn, cli>> /\ srv'.pc # "accept"
    BY <1>0, <1>6, <2>2 DEF TakesRequest, ServerRecord, Answering
  <2> QED
    BY <2>3 DEF Queue
<1>7. ASSUME NEW c \in Clients, Delivers(c) PROVE Queue'
  <2>1. UNCHANGED <<version, name, backlog, conn, cli>> /\ srv'.pc # "accept"
    BY <1>0, <1>7 DEF Delivers, ServerRecord
  <2> QED
    BY <2>1 DEF Queue
<1>8. ASSUME NEW c \in Clients, DiesOf(c) PROVE Queue'
  <2>1. /\ backlog' = <<>> /\ UNCHANGED <<version, name, cli>> /\ srv'.pc = "dead"
        /\ conn' = [d \in Clients |-> IF conn[d] = "none" THEN "none" ELSE "closed"]
    BY <1>0, <1>8 DEF DiesOf, Die, ServerRecord
  <2> QED
    BY <2>1 DEF Queue
<1> QED
  BY <1>1, <1>2, <1>3, <1>4, <1>5, <1>6, <1>7, <1>8 DEF ServerDoes

(* What a step of a client leaves alone, and how its connection changes.   *)
ClientSteps(c) ==
    /\ c \in Clients
    /\ \A d \in Clients \ {c} : cli'[d] = cli[d] /\ conn'[d] = conn[d] /\ up'[d] = up[d] /\ down'[d] = down[d]
    /\ Left(c) => cli'[c] = cli[c]
    /\ \A d \in Clients : name[d] = "stale" => name'[d] = "stale"
    /\ UNCHANGED <<version, table, allset, revents, errmsg>>
    /\ \/ conn' = conn /\ srv' = srv
       \/ conn[c] = "none" /\ conn'[c] = "queued" /\ srv' = srv /\ srv.pc \notin {"start", "dead"}
       \/ conn[c] = "none" /\ conn'[c] = "open" /\ version = "fe" /\ srv.pc = "start" /\ srv' = [srv EXCEPT !.pc = "loop"]

(* Every step of a client is like that.                                    *)
LEMMA ClientStepIs ==
  ASSUME NetTypes, SrvTypes, Queue, Framed, NEW c \in Clients,
         \/ Bind(c) \/ NameAges(c) \/ Connect(c) \/ Spawn(c) \/ Recv(c) \/ Exit(c) \/ Leave(c)
         \/ \E k \in Kinds : Send(c, k)
  PROVE  ClientSteps(c)
<1>1. CASE Bind(c)
  <2>1. name[c] = "none"
    BY <1>1 DEF Bind, Queue
  <2> QED
    BY <1>1, <2>1, SrvSame DEF Bind, ClientSteps, Left, NetTypes
<1>2. CASE NameAges(c)
  BY <1>2, SrvSame DEF NameAges, ClientSteps, Left, NetTypes
<1>3. CASE Connect(c)
  <2>1. conn[c] = "none" /\ cli[c].pc = "bound"
    BY <1>3 DEF Connect, Queue
  <2> QED
    BY <1>3, <2>1, SrvSame DEF Connect, Listening, ClientSteps, Left, NetTypes
<1>4. CASE Spawn(c)
  <2>1. conn[c] = "none" /\ cli[c].pc = "idle"
    BY <1>4 DEF Spawn, Queue
  <2> QED
    BY <1>4, <2>1 DEF Spawn, ClientSteps, Left, NetTypes
<1>5. CASE Recv(c)
  BY <1>5, RecvIs, SrvSame DEF ClientSteps, Left, NetTypes
<1>6. CASE Exit(c) \/ Leave(c)
  BY <1>6, NetSame, SrvSame DEF Exit, Leave, ClientSteps, Left, NetTypes
<1>7. ASSUME NEW k \in Kinds, Send(c, k) PROVE ClientSteps(c)
  BY <1>7, SrvSame DEF Send, ClientSteps, Left, NetTypes
<1> QED
  BY <1>1, <1>2, <1>3, <1>4, <1>5, <1>6, <1>7

(* A client keeps the queue of connections: it connects once.              *)
LEMMA ClientKeepsQueue ==
  ASSUME NetTypes, SrvTypes, Queue, Framed, NEW c \in Clients,
         \/ Bind(c) \/ NameAges(c) \/ Connect(c) \/ Spawn(c) \/ Recv(c) \/ Exit(c) \/ Leave(c)
         \/ \E k \in Kinds : Send(c, k)
  PROVE  Queue'
<1>0. srv \in ServerRecord /\ cli \in [Clients -> Client] /\ cli[c] \in Client
  BY DEF SrvTypes, NetTypes
<1>1. CASE Bind(c)
  <2>1. UNCHANGED <<version, backlog, conn, srv>>
    BY <1>1, SrvSame DEF Bind
  <2>2. /\ cli[c].pc = "idle" /\ cli'[c].pc = "bound" /\ \A d \in Clients \ {c} : cli'[d] = cli[d]
        /\ \A d \in Clients \ {c} : name'[d] = name[d]
    BY <1>0, <1>1 DEF Bind, Client, NetTypes
  <2> QED
    BY <2>1, <2>2 DEF Queue
<1>2. CASE NameAges(c)
  <2>1. UNCHANGED <<version, backlog, conn, srv, cli>> /\ name[c] = "fresh" /\ name' = [name EXCEPT ![c] = "stale"]
    BY <1>2, SrvSame DEF NameAges
  <2> QED
    BY <2>1 DEF Queue, NetTypes
<1>3. CASE Connect(c)
  <2>1. UNCHANGED <<version, name, srv>> /\ cli[c].pc = "bound" /\ conn[c] = "none"
    BY <1>3, SrvSame DEF Connect, Queue
  <2>2. CASE cli' = [cli EXCEPT ![c].pc = "left"] /\ UNCHANGED <<backlog, conn>>
    <3>1. cli'[c].pc = "left" /\ \A d \in Clients \ {c} : cli'[d] = cli[d]
      BY <1>0, <2>2 DEF Client
    <3> QED
      BY <2>1, <2>2, <3>1 DEF Queue
  <2>3. CASE cli' = [cli EXCEPT ![c].pc = "ready"] /\ backlog' = Append(backlog, c) /\ conn' = [conn EXCEPT ![c] = "queued"]
    <3>1. cli'[c].pc = "ready" /\ \A d \in Clients \ {c} : cli'[d] = cli[d]
      BY <1>0, <2>3 DEF Client
    <3>2. backlog \in Seq(Clients) /\ Len(backlog) \in Nat /\ \A i \in 1 .. Len(backlog) : backlog[i] # c
      BY <2>1 DEF NetTypes, Queue
    <3>3. /\ Len(backlog') = Len(backlog) + 1 /\ backlog'[Len(backlog) + 1] = c /\ backlog' # <<>>
          /\ \A i \in 1 .. Len(backlog) : backlog'[i] = backlog[i]
      BY <2>3, <3>2
    <3>4. \A i \in 1 .. Len(backlog') : i \in 1 .. Len(backlog) \/ i = Len(backlog) + 1
      BY <3>2, <3>3
    <3>5. conn'[c] = "queued" /\ \A d \in Clients \ {c} : conn'[d] = conn[d]
      BY <2>3 DEF NetTypes
    <3>6. \A i \in 1 .. Len(backlog') : conn'[backlog'[i]] = "queued"
      <4>1. \A i \in 1 .. Len(backlog) : backlog[i] \in Clients \ {c} /\ conn[backlog[i]] = "queued"
        BY <3>2 DEF Queue
      <4> QED
        BY <3>3, <3>4, <3>5, <4>1
    <3>7. \A i, j \in 1 .. Len(backlog') : backlog'[i] = backlog'[j] => i = j
      BY <3>2, <3>3, <3>4 DEF Queue
    <3> QED
      BY <2>1, <3>1, <3>3, <3>5, <3>6, <3>7 DEF Queue
  <2> QED
    BY <1>3, <2>2, <2>3 DEF Connect
<1>4. CASE Spawn(c)
  <2>1. UNCHANGED <<version, name, backlog>> /\ version = "fe" /\ cli[c].pc = "idle" /\ conn[c] = "none" /\ srv'.pc = "loop"
    BY <1>0, <1>4 DEF Spawn, Queue, ServerRecord
  <2>2. /\ cli'[c].pc = "ready" /\ \A d \in Clients \ {c} : cli'[d] = cli[d]
        /\ conn'[c] = "open" /\ \A d \in Clients \ {c} : conn'[d] = conn[d]
    BY <1>0, <1>4 DEF Spawn, Client, NetTypes
  <2>3. \A i \in 1 .. Len(backlog) : backlog[i] \in Clients \ {c}
    BY <2>1 DEF Queue, NetTypes
  <2>4. \A i \in 1 .. Len(backlog') : conn'[backlog'[i]] = "queued"
    BY <2>1, <2>2, <2>3 DEF Queue
  <2>5. \A d \in Clients : d = c \/ d \in Clients \ {c}
    OBVIOUS
  <2>6. /\ \A d \in Clients : cli'[d].pc \in {"idle", "bound"} => conn'[d] = "none"
        /\ \A d \in Clients : cli'[d].pc \in {"ready", "wait"} => conn'[d] # "none"
        /\ \A d \in Clients : cli'[d].pc = "idle" => name'[d] = "none"
    BY <2>1, <2>2, <2>5 DEF Queue
  <2> QED
    BY <2>1, <2>4, <2>6 DEF Queue
<1>5. CASE Recv(c) \/ Exit(c) \/ Leave(c) \/ \E k \in Kinds : Send(c, k)
  <2>1. UNCHANGED <<version, name, backlog, conn, srv>>
    BY <1>5, NetSame, SrvSame DEF Recv, Exit, Leave, Send
  <2>2. cli[c].pc \in {"ready", "wait"} /\ \A d \in Clients \ {c} : cli'[d] = cli[d]
    BY <1>0, <1>5 DEF Recv, Exit, Leave, Send
  <2>3. cli'[c].pc \in {"ready", "wait", "left"}
    <3>1. CASE Recv(c)
      <4>1. CASE cli' = [cli EXCEPT ![c] = [cli[c] EXCEPT !.pc = "ready", !.res = "closed"]]
        BY <1>0, <4>1 DEF Client
      <4>2. ASSUME NEW nr, cli' = [cli EXCEPT ![c] = Got(cli[c], down[c], nr)]
            PROVE  cli'[c].pc \in {"ready", "wait", "left"}
        BY <1>0, <2>2, <4>2, GotPc, ZenonT(30)
      <4> QED
        BY <3>1, <4>1, <4>2, RecvIs
    <3>2. Ended(cli[c], FALSE).pc = "left" /\ Ended(cli[c], TRUE).pc = "left"
      BY <1>0, EndedIs
    <3>3. CASE Exit(c) \/ Leave(c)
      BY <1>0, <3>2, <3>3 DEF Exit, Leave
    <3>4. ASSUME NEW k \in Kinds, Send(c, k) PROVE cli'[c].pc \in {"ready", "wait", "left"}
      <4>1. CASE Gone(c)
        BY <1>0, <3>2, <3>4, <4>1 DEF Send
      <4>2. CASE ~Gone(c)
        <5>1. cli' = [cli EXCEPT ![c] = [@ EXCEPT !.pc = "wait", !.n = cli[c].n + 1, !.kind = k,
                            !.texts = {}, !.of = NoClient, !.res = "none",
                            !.split = cli[c].split \/ k = "long"]]
          BY <3>4, <4>2 DEF Send
        <5>2. cli'[c].pc = "wait"
          BY <1>0, <5>1 DEF Client
        <5> QED
          BY <5>2
      <4> QED
        BY <4>1, <4>2
    <3> QED
      BY <1>5, <3>1, <3>3, <3>4
  <2> QED
    BY <2>1, <2>2, <2>3 DEF Queue
<1> QED
  BY <1>1, <1>2, <1>3, <1>4, <1>5

---------------------------------------------------------------------------
(* The table is kept when nobody touches it and the same connections are   *)
(* open.                                                                   *)
LEMMA TableStays ==
  ASSUME Table, version' = version, table' = table, allset' = allset, srv'.maxi = srv.maxi,
         \A c \in Clients : conn'[c] = "open" <=> conn[c] = "open",
         srv.pc # "start" /\ srv'.pc # "start",
         srv'.pc = "dead" \/ srv.pc # "dead"
  PROVE  Table'
<1>1. \A c : Entered(c)' <=> Entered(c)
  BY DEF Entered
<1> QED
  BY <1>1 DEF Table

(* The server keeps the table: client_add takes a free entry and maxi      *)
(* follows it; client_del frees the one entry of the client whose          *)
(* connection is closed.                                                   *)
LEMMA ServerKeepsTable ==
  ASSUME NetTypes, SrvTypes, Queue, Table, Polled, Hands, Framed, ServerDoes
  PROVE  Table'
<1>0. /\ srv \in ServerRecord /\ srv.maxi \in Nat /\ Listener \notin Clients /\ Listener # NoClient
      /\ NoClient \notin Clients
  BY OpenAssumption DEF SrvTypes, ServerRecord
<1> DEFINE S == Clients \cup {NoClient, Listener}
<1>s. NoClient \in S /\ Listener \in S /\ Clients \subseteq S /\ table \in Seq(S) /\ Len(table) \in Nat
  BY DEF SrvTypes
<1> HIDE DEF S
<1>1. CASE ListenSelect
  <2>1. /\ version = "select" /\ version' = version /\ srv.pc = "start" /\ srv'.pc = "loop" /\ srv'.maxi = srv.maxi
        /\ allset' = {Listener} /\ UNCHANGED netvars /\ table' = table
    BY <1>0, <1>1 DEF ListenSelect, ServerRecord
  <2>2. table = <<>> /\ srv.maxi = 0 /\ \A c \in Clients : conn[c] = "none"
    BY <2>1 DEF Table
  <2>3. conn' = conn
    BY <2>1, NetSame
  <2>4. \A c : ~Entered(c)'
    BY <2>1, <2>2 DEF Entered
  <2>5. \A i \in 1 .. Len(table') : FALSE
    BY <2>1, <2>2
  <2> QED
    BY <2>1, <2>2, <2>3, <2>4, <2>5 DEF Table
<1>2. CASE ListenPoll
  <2>1. /\ version = "poll" /\ version' = version /\ srv.pc = "start" /\ srv'.pc = "loop" /\ srv'.maxi = 1
        /\ table' = ClientAdd(<<>>, Listener) /\ UNCHANGED netvars
    BY <1>0, <1>2 DEF ListenPoll, ServerRecord
  <2>2. conn' = conn /\ \A c \in Clients : conn[c] = "none"
    BY <2>1, NetSame DEF Table
  <2>3. <<>> \in Seq(S) /\ Len(<<>>) = 0 /\ 0 + 1 = 1
    OBVIOUS
  <2>4. Slot(<<>>) \in 1 .. Len(<<>>) + 1
    BY <2>3, SlotIs
  <2>5. Slot(<<>>) = 1
    BY <2>3, <2>4
  <2>6. /\ Len(table') \in Nat /\ 1 <= Len(table') /\ table'[1] = Listener
        /\ \A i \in 1 .. Len(table') : i # 1 => table'[i] = NoClient
    <3>1. NoClient \in S /\ <<>> \in Seq(S) /\ Listener \in S
      BY <1>s, <2>3
    <3> DEFINE t == ClientAdd(<<>>, Listener)
    <3>2. /\ Len(t) \in Nat /\ Slot(<<>>) <= Len(t) /\ t[Slot(<<>>)] = Listener
          /\ \A i \in 1 .. Len(t) : i # Slot(<<>>) => t[i] = IF i <= Len(<<>>) THEN <<>>[i] ELSE NoClient
      BY <3>1, ClientAddIs
    <3>3. \A i \in 1 .. Len(t) : i # 1 => t[i] = NoClient
      BY <2>3, <2>5, <3>2
    <3> QED
      BY <2>1, <2>5, <3>2, <3>3
  <2>7. \A c \in Clients : ~Entered(c)'
    BY <1>0, <2>6 DEF Entered
  <2>8. /\ \A i, j \in 1 .. Len(table') : table'[i] = table'[j] /\ table'[i] # NoClient => i = j
        /\ \A i \in 1 .. Len(table') : table'[i] # NoClient => i <= 1
    BY <2>6
  <2> QED
    BY <2>1, <2>2, <2>6, <2>7, <2>8 DEF Table
<1>3. CASE Select \/ Poll \/ PassEnds
  <2>1. /\ srv.pc # "start" /\ srv.pc # "dead" /\ srv'.pc # "start" /\ srv'.maxi = srv.maxi
        /\ UNCHANGED <<version, netvars, table, allset>>
    BY <1>0, <1>3 DEF Select, Poll, PassEnds, ServerRecord
  <2>2. \A c \in Clients : conn'[c] = "open" <=> conn[c] = "open"
    BY <2>1, NetSame
  <2> QED
    BY <2>1, <2>2, TableStays
<1>4. CASE AcceptSelect \/ AcceptPoll
  <2> DEFINE c == Head(backlog)
             s == Slot(table)
  <2>1. ServAccept /\ version' = version /\ srv'.maxi = Max({srv.maxi, s}) /\ srv'.pc \in {"loop", "scan"}
    BY <1>0, <1>4 DEF AcceptSelect, AcceptPoll, ServerRecord
  <2>2. /\ srv.pc = "accept" /\ c \in Clients /\ conn[c] = "queued" /\ table' = ClientAdd(table, c)
        /\ version # "fe" /\ conn' = [conn EXCEPT ![c] = "open"]
    BY <2>1, AcceptIs
  <2>3. /\ s \in Nat \ {0} /\ s \in 1 .. Len(table) + 1
        /\ s <= Len(table) => table[s] = NoClient
    BY <1>s, SlotIs
  <2>4. /\ Len(table') \in Nat /\ Len(table') >= Len(table) /\ s <= Len(table') /\ table'[s] = c
        /\ \A i \in 1 .. Len(table') : i # s => table'[i] = IF i <= Len(table) THEN table[i] ELSE NoClient
    <3>1. NoClient \in S /\ table \in Seq(S) /\ c \in S
      BY <1>s, <2>2
    <3> DEFINE t == ClientAdd(table, c)
    <3>2. /\ Len(t) \in Nat /\ Len(t) >= Len(table) /\ s <= Len(t) /\ t[s] = c
          /\ \A i \in 1 .. Len(t) : i # s => t[i] = IF i <= Len(table) THEN table[i] ELSE NoClient
      <4> HIDE DEF c
      <4> QED
        BY <3>1, ClientAddIs
    <3> QED
      BY <2>2, <3>2
  <2>5. version = "select" => allset' = allset \cup {c}
    BY <1>4 DEF AcceptSelect, AcceptPoll
  <2> HIDE DEF c, s
  <2>6. /\ srv'.maxi \in Nat /\ srv.maxi <= srv'.maxi /\ s <= srv'.maxi
        /\ srv'.maxi = srv.maxi \/ srv'.maxi = s
    BY <1>0, <2>1, <2>3, MaxOfTwo
  <2>7. /\ \A i, j \in 1 .. Len(table) : table[i] = table[j] /\ table[i] # NoClient => i = j
        /\ \A i \in 1 .. Len(table) : table[i] # NoClient => i <= srv.maxi
        /\ srv.maxi <= Len(table)
        /\ \A d \in Clients : conn[d] = "open" <=> Entered(d)
        /\ version = "select" => ~Entered(Listener) /\ allset = {d \in Clients : conn[d] = "open"} \cup {Listener}
        /\ version = "poll" => srv.maxi >= 1 /\ table[1] = Listener
    BY <2>2 DEF Table
  <2>8. ~Entered(c)
    BY <2>2, <2>7
  <2>9. \A i \in 1 .. Len(table') : i # s => table'[i] = NoClient \/ (i \in 1 .. Len(table) /\ table'[i] = table[i])
    BY <1>s, <2>4
  <2>10. \A i \in 1 .. Len(table) : table[i] # NoClient => i \in 1 .. Len(table') /\ i # s /\ table'[i] = table[i]
    BY <1>s, <2>3, <2>4
  <2>11. s \in 1 .. Len(table')
    BY <2>3, <2>4
  <2>12. \A i, j \in 1 .. Len(table') : table'[i] = table'[j] /\ table'[i] # NoClient => i = j
    BY <1>0, <2>2, <2>4, <2>7, <2>8, <2>9 DEF Entered
  <2>13. \A i \in 1 .. Len(table') : table'[i] # NoClient => i <= srv'.maxi
    <3> SUFFICES ASSUME NEW i \in 1 .. Len(table'), table'[i] # NoClient PROVE i <= srv'.maxi
      OBVIOUS
    <3>1. CASE i = s
      BY <2>6, <3>1
    <3>2. CASE i # s
      <4>1. i <= srv.maxi
        BY <2>7, <2>9, <3>2
      <4> QED
        BY <1>0, <2>6, <4>1
    <3> QED
      BY <3>1, <3>2
  <2>14. srv'.maxi <= Len(table')
    BY <1>0, <1>s, <2>4, <2>6, <2>7
  <2>15. \A d : d # NoClient => (Entered(d)' <=> d = c \/ Entered(d))
    <3> SUFFICES ASSUME NEW d, d # NoClient PROVE Entered(d)' <=> d = c \/ Entered(d)
      OBVIOUS
    <3>1. ASSUME Entered(d)' PROVE d = c \/ Entered(d)
      BY <2>4, <2>9, <3>1 DEF Entered
    <3>2. ASSUME d = c \/ Entered(d) PROVE Entered(d)'
      BY <2>4, <2>10, <2>11, <3>2 DEF Entered
    <3> QED
      BY <3>1, <3>2
  <2>16. \A d \in Clients : conn'[d] = "open" <=> (d = c \/ conn[d] = "open")
    BY <2>2 DEF NetTypes
  <2>17. \A d \in Clients : conn'[d] = "open" <=> Entered(d)'
    BY <1>0, <2>7, <2>15, <2>16
  <2>18. version = "select" => ~Entered(Listener)' /\ allset' = {d \in Clients : conn'[d] = "open"} \cup {Listener}
    BY <1>0, <2>2, <2>5, <2>7, <2>15, <2>16
  <2>19. version = "poll" => srv'.maxi >= 1 /\ table'[1] = Listener
    <3> SUFFICES ASSUME version = "poll" PROVE srv'.maxi >= 1 /\ table'[1] = Listener
      OBVIOUS
    <3>1. 1 \in 1 .. Len(table) /\ table[1] = Listener
      BY <1>0, <1>s, <2>7
    <3> QED
      BY <1>0, <2>6, <2>7, <2>10, <3>1
  <2> QED
    BY <2>1, <2>12, <2>13, <2>14, <2>17, <2>18, <2>19 DEF Table
<1>5. ASSUME NEW c \in Clients, Drops(c) PROVE Table'
  <2>1. /\ conn[c] = "open" /\ srv.pc = "scan" /\ version # "fe" /\ version' = version
        /\ table' = ClientDel(table, c) /\ allset' = allset \ {c} /\ conn' = [conn EXCEPT ![c] = "closed"]
        /\ srv'.pc = "scan" /\ srv'.maxi = srv.maxi
    BY <1>0, <1>5 DEF Drops, Drop, ServerRecord
  <2>2. Len(table') = Len(table) /\ \A i \in 1 .. Len(table) : table'[i] = IF table[i] = c THEN NoClient ELSE table[i]
    BY <1>s, <2>1, ClientDelIs
  <2>3. /\ \A i, j \in 1 .. Len(table) : table[i] = table[j] /\ table[i] # NoClient => i = j
        /\ \A i \in 1 .. Len(table) : table[i] # NoClient => i <= srv.maxi
        /\ srv.maxi <= Len(table)
        /\ \A d \in Clients : conn[d] = "open" <=> Entered(d)
        /\ version = "select" => ~Entered(Listener) /\ allset = {d \in Clients : conn[d] = "open"} \cup {Listener}
        /\ version = "poll" => srv.maxi >= 1 /\ table[1] = Listener
    BY <2>1 DEF Table
  <2>4. \A d : d # NoClient => (Entered(d)' <=> d # c /\ Entered(d))
    BY <2>2 DEF Entered
  <2>5. \A d \in Clients : conn'[d] = "open" <=> d # c /\ conn[d] = "open"
    BY <2>1 DEF NetTypes
  <2>6. \A d \in Clients : conn'[d] = "open" <=> Entered(d)'
    BY <1>0, <2>3, <2>4, <2>5
  <2>7. version = "select" => ~Entered(Listener)' /\ allset' = {d \in Clients : conn'[d] = "open"} \cup {Listener}
    BY <1>0, <2>1, <2>3, <2>4, <2>5
  <2>8. version = "poll" => srv'.maxi >= 1 /\ table'[1] = Listener
    <3> SUFFICES ASSUME version = "poll" PROVE srv'.maxi >= 1 /\ table'[1] = Listener
      OBVIOUS
    <3>1. 1 \in 1 .. Len(table) /\ table[1] = Listener
      BY <1>0, <1>s, <2>3
    <3> QED
      BY <1>0, <2>1, <2>2, <2>3, <3>1
  <2>9. /\ \A i, j \in 1 .. Len(table') : table'[i] = table'[j] /\ table'[i] # NoClient => i = j
        /\ \A i \in 1 .. Len(table') : table'[i] # NoClient => i <= srv'.maxi
        /\ srv'.maxi <= Len(table')
    BY <2>1, <2>2, <2>3
  <2> QED
    BY <2>1, <2>6, <2>7, <2>8, <2>9 DEF Table
<1>6. ASSUME NEW c \in Clients, TakesRequest(c) PROVE Table'
  <2>1. Head(up[c]) \in Piece
    BY <1>6, FirstPiece DEF TakesRequest
  <2>2. Answer(Head(up[c])) \in Answering
    BY <1>6, <2>1, RequestIs DEF TakesRequest
  <2>3. /\ UNCHANGED <<version, conn, table, allset>> /\ srv'.pc \in Answering /\ srv'.maxi = srv.maxi
        /\ srv.pc \in {"loop", "scan"}
    BY <1>0, <1>6, <2>2 DEF TakesRequest, ServerRecord
  <2> QED
    BY <2>3, TableStays DEF Answering
<1>7. ASSUME NEW c \in Clients, Delivers(c) PROVE Table'
  <2>1. /\ UNCHANGED <<version, conn, table, allset>> /\ srv'.pc \in {"status", "scan"} /\ srv'.maxi = srv.maxi
        /\ srv.pc \in Answering
    BY <1>0, <1>7 DEF Delivers, InHand, ServerRecord
  <2> QED
    BY <2>1, TableStays DEF Answering
<1>8. ASSUME NEW c \in Clients, DiesOf(c) PROVE Table'
  <2>1. UNCHANGED <<version, table, allset>> /\ srv'.pc = "dead" /\ srv'.maxi = srv.maxi /\ srv.pc # "start"
    BY <1>0, <1>8 DEF DiesOf, Die, ServerRecord
  <2> QED
    BY <2>1 DEF Table, Entered
<1> QED
  BY <1>1, <1>2, <1>3, <1>4, <1>5, <1>6, <1>7, <1>8 DEF ServerDoes

(* No client opens or closes a connection of the daemon.                   *)
LEMMA ClientKeepsTable ==
  ASSUME NetTypes, SrvTypes, Table, NEW c \in Clients, ClientSteps(c)
  PROVE  Table'
<1>1. CASE version # "fe"
  <2>1. /\ UNCHANGED <<version, table, allset, srv>>
        /\ \A d \in Clients : conn'[d] = "open" <=> conn[d] = "open"
        /\ srv.pc = "start" => \A d \in Clients : conn'[d] = conn[d]
    BY <1>1 DEF ClientSteps
  <2>2. \A d : Entered(d)' <=> Entered(d)
    BY <2>1 DEF Entered
  <2>3. {d \in Clients : conn'[d] = "open"} = {d \in Clients : conn[d] = "open"}
    BY <2>1
  <2> QED
    BY <2>1, <2>2, <2>3 DEF Table
<1>2. CASE version = "fe"
  BY <1>2 DEF ClientSteps, Table
<1> QED
  BY <1>1, <1>2

---------------------------------------------------------------------------
(* The server keeps what poll said true: the entry of a newcomer had no    *)
(* news or is the last, and dropping a client frees its entry.             *)
LEMMA ServerKeepsPolled ==
  ASSUME NetTypes, SrvTypes, Queue, Table, Polled, Hands, Framed, ServerDoes
  PROVE  Polled'
<1>0. /\ srv \in ServerRecord /\ srv.maxi \in Nat /\ srv.i \in Nat /\ Listener \notin Clients
      /\ Listener # NoClient /\ NoClient \notin Clients
  BY OpenAssumption DEF SrvTypes, ServerRecord
<1> DEFINE S == Clients \cup {NoClient, Listener}
<1>s. NoClient \in S /\ Clients \subseteq S /\ table \in Seq(S) /\ Len(table) \in Nat
  BY DEF SrvTypes
<1> HIDE DEF S
<1>1. CASE ListenSelect \/ ListenPoll \/ PassEnds
  <2>1. srv'.pc = "loop"
    BY <1>0, <1>1 DEF ListenSelect, ListenPoll, PassEnds, ServerRecord
  <2>2. srv'.told
    <3>1. CASE ListenSelect \/ ListenPoll
      <4>1. srv'.told = srv.told /\ srv.pc = "start"
        BY <1>0, <3>1 DEF ListenSelect, ListenPoll, ServerRecord
      <4> QED
        BY <4>1 DEF Polled
    <3>2. CASE PassEnds
      BY <1>0, <3>2 DEF PassEnds, ServerRecord
    <3> QED
      BY <1>1, <3>1, <3>2
  <2> QED
    BY <2>1, <2>2 DEF Polled, Answering
<1>2. CASE Select
  BY <1>0, <1>2 DEF Select, ServerRecord, Polled, Answering
<1>3. CASE Poll
  <2> DEFINE ev(i) == CASE table[i] = NoClient -> {}
                       [] table[i] = Listener -> IF backlog # <<>> THEN {"in"} ELSE {}
                       [] OTHER -> {e \in {"in", "hup"} :
                                      IF e = "in" THEN Readable(table[i]) ELSE Left(table[i])}
             now == [i \in 1 .. srv.maxi |-> ev(i)]
  <2>1. /\ revents' = now /\ UNCHANGED <<version, cli, table>> /\ version = "poll" /\ srv.pc = "loop"
        /\ srv' = [srv EXCEPT !.i = 2, !.pc = IF now[1] # {} THEN "accept" ELSE "scan"]
    BY <1>3 DEF Poll
  <2>2. \A i \in 1 .. srv.maxi : now[i] = ev(i)
    OBVIOUS
  <2>3. \A i \in 1 .. srv.maxi : table[i] = NoClient => ev(i) = {}
    BY <1>0
  <2>4. \A i \in 1 .. srv.maxi : table[i] # NoClient /\ "hup" \in ev(i) => table[i] # Listener /\ Left(table[i])
    OBVIOUS
  <2>5. Len(now) = srv.maxi
    BY <1>0
  <2>6. \A i \in 1 .. srv.maxi : table[i] \in Clients \cup {NoClient, Listener}
    BY <1>0, <1>s, <2>1 DEF Table, S
  <2> HIDE DEF now, ev
  <2>7. srv'.i = 2 /\ srv'.maxi = srv.maxi /\ srv'.told = srv.told /\ srv.told
    BY <1>0, <2>1 DEF ServerRecord, Polled
  <2> QED
    BY <2>1, <2>2, <2>3, <2>4, <2>5, <2>6, <2>7 DEF Polled, Left
<1>4. CASE AcceptSelect
  BY <1>0, <1>4 DEF AcceptSelect, ServAccept, ServerRecord, Polled, Answering
<1>5. CASE AcceptPoll
  <2> DEFINE c == Head(backlog)
             s == Slot(table)
  <2>1. /\ ServAccept /\ version' = version /\ version = "poll" /\ cli' = cli
        /\ srv' = [srv EXCEPT !.pc = "scan", !.maxi = Max({@, s}), !.told = s <= srv.maxi]
        /\ \/ s > srv.maxi /\ \E r \in FreshRevents : revents' = Append(revents, r)
           \/ ~(s > srv.maxi) /\ revents' = revents
    BY <1>5 DEF AcceptPoll
  <2>2. srv.pc = "accept" /\ c \in Clients /\ table' = ClientAdd(table, c)
    BY <2>1, AcceptIs
  <2>3. /\ s \in Nat \ {0} /\ s \in 1 .. Len(table) + 1
        /\ s <= Len(table) => table[s] = NoClient
        /\ \A i \in 1 .. Len(table) : table[i] = NoClient => s <= i
    BY <1>s, SlotIs
  <2>4. /\ Len(table') \in Nat /\ s <= Len(table') /\ table'[s] = c
        /\ \A i \in 1 .. Len(table') : i # s => table'[i] = IF i <= Len(table) THEN table[i] ELSE NoClient
    <3>1. NoClient \in S /\ table \in Seq(S) /\ c \in S
      BY <1>s, <2>2
    <3> DEFINE t == ClientAdd(table, c)
    <3>2. /\ Len(t) \in Nat /\ s <= Len(t) /\ t[s] = c
          /\ \A i \in 1 .. Len(t) : i # s => t[i] = IF i <= Len(table) THEN table[i] ELSE NoClient
      <4> HIDE DEF c
      <4> QED
        BY <3>1, ClientAddIs
    <3> QED
      BY <2>2, <3>2
  <2>5. srv'.maxi = Max({srv.maxi, s}) /\ srv'.i = srv.i /\ srv'.told = (s <= srv.maxi) /\ srv'.pc = "scan"
    BY <1>0, <2>1 DEF ServerRecord
  <2> HIDE DEF c, s
  <2>6. srv'.maxi = IF s > srv.maxi THEN s ELSE srv.maxi
    BY <1>0, <2>3, <2>5, MaxOfTwo
  <2>7. /\ srv.maxi <= Len(table) /\ \A i \in 1 .. Len(table) : table[i] # NoClient => i <= srv.maxi
    BY <2>1 DEF Table
  <2>8. s <= srv.maxi + 1
    <3>1. CASE srv.maxi < Len(table)
      <4>1. srv.maxi + 1 \in 1 .. Len(table) /\ ~(srv.maxi + 1 <= srv.maxi)
        BY <1>0, <1>s, <3>1
      <4> QED
        BY <2>3, <2>7, <4>1
    <3>2. CASE srv.maxi = Len(table)
      BY <1>s, <2>3, <3>2
    <3> QED
      BY <1>0, <1>s, <2>7, <3>1, <3>2
  <2>9. /\ srv.i >= 2 /\ Len(revents) = srv.maxi /\ revents \in Seq(SUBSET {"in", "hup"})
        /\ srv.told
        /\ \A i \in 1 .. srv.maxi : "hup" \in revents[i] /\ table[i] # NoClient => table[i] \in Clients /\ Left(table[i])
        /\ \A i \in 1 .. srv.maxi : table[i] = NoClient => revents[i] = {}
    BY <2>1, <2>2 DEF Polled, SrvTypes
  <2>10. Len(revents') = srv'.maxi /\ \A i \in 1 .. srv.maxi : revents'[i] = revents[i]
    <3>1. CASE s > srv.maxi
      <4>1. s = srv.maxi + 1
        BY <1>0, <2>3, <2>8, <3>1
      <4> QED
        BY <1>0, <2>1, <2>6, <2>9, <3>1, <4>1
    <3>2. CASE ~(s > srv.maxi)
      BY <2>1, <2>6, <2>9, <3>2
    <3> QED
      BY <3>1, <3>2
  <2>11. ASSUME NEW i \in 1 .. srv'.maxi, "hup" \in revents'[i], table'[i] # NoClient
         PROVE  \/ table'[i] \in Clients /\ Left(table'[i])
                \/ ~srv'.told /\ i = srv'.maxi
    <3>1. CASE i = s
      <4>1. CASE s > srv.maxi
        <5>1. ~(s <= srv.maxi) /\ srv'.maxi = s
          BY <1>0, <2>3, <2>6, <4>1
        <5>2. ~srv'.told
          BY <2>5, <5>1
        <5> QED
          BY <3>1, <5>1, <5>2
      <4>2. CASE ~(s > srv.maxi)
        <5>1. i \in 1 .. srv.maxi /\ s <= Len(table)
          BY <1>0, <1>s, <2>3, <2>7, <3>1, <4>2
        <5>2. revents'[i] = {}
          BY <2>3, <2>9, <2>10, <3>1, <5>1
        <5> QED
          BY <2>11, <5>2
      <4> QED
        BY <4>1, <4>2
    <3>2. CASE i # s
      <4>1. i \in 1 .. srv.maxi /\ i \in 1 .. Len(table)
        BY <1>0, <1>s, <2>3, <2>6, <2>7, <2>8, <3>2
      <4>2. i \in 1 .. Len(table')
        <5>1. CASE s > srv.maxi
          BY <1>0, <2>3, <2>4, <4>1, <5>1
        <5>2. CASE ~(s > srv.maxi)
          <6>1. Len(table') >= Len(table)
            <7>1. NoClient \in S /\ table \in Seq(S) /\ c \in S
              BY <1>s, <2>2
            <7>2. Len(ClientAdd(table, c)) >= Len(table)
              BY <7>1, ClientAddIs
            <7> QED
              BY <2>2, <7>2
          <6> QED
            BY <1>s, <2>4, <4>1, <6>1
        <5> QED
          BY <5>1, <5>2
      <4>3. table'[i] = table[i]
        BY <2>4, <3>2, <4>1, <4>2
      <4> QED
        BY <2>9, <2>10, <2>11, <4>1, <4>3
    <3> QED
      BY <3>1, <3>2
  <2>12. \A d : Left(d)' <=> Left(d)
    BY <2>1 DEF Left
  <2> QED
    BY <2>1, <2>5, <2>9, <2>10, <2>11, <2>12 DEF Polled
<1>6. ASSUME NEW c \in Clients, Drops(c) PROVE Polled'
  <2>1. /\ srv.pc = "scan" /\ version # "fe" /\ UNCHANGED <<version, cli, revents>>
        /\ table' = ClientDel(table, c)
        /\ srv'.pc = "scan" /\ srv'.maxi = srv.maxi /\ srv'.told = srv.told /\ srv'.i >= srv.i /\ srv'.i \in Nat
    BY <1>0, <1>6 DEF Drops, Drop, ServerRecord
  <2>2. Len(table') = Len(table) /\ \A i \in 1 .. Len(table) : table'[i] = IF table[i] = c THEN NoClient ELSE table[i]
    BY <1>s, <2>1, ClientDelIs
  <2>3. \A i \in 1 .. srv.maxi : i \in 1 .. Len(table)
    BY <1>0, <1>s, <2>1 DEF Table
  <2>4. version = "poll" => srv'.i >= 2
    BY <1>0, <2>1 DEF Polled
  <2> QED
    BY <2>1, <2>2, <2>3, <2>4 DEF Polled, Left, Answering
<1>7. ASSUME NEW c \in Clients, TakesRequest(c) PROVE Polled'
  <2>1. Head(up[c]) \in Piece
    BY <1>7, FirstPiece DEF TakesRequest
  <2>2. Answer(Head(up[c])) \in Answering
    BY <1>7, <2>1, RequestIs DEF TakesRequest
  <2>3. /\ UNCHANGED <<version, cli, table, revents>> /\ srv'.pc \in Answering /\ srv'.maxi = srv.maxi
        /\ srv'.told = srv.told /\ srv'.i >= srv.i /\ srv'.i \in Nat /\ (version # "fe" => srv.pc = "scan")
    BY <1>0, <1>7, <2>2 DEF TakesRequest, ServerRecord
  <2>4. version = "poll" => srv'.i >= 2
    BY <1>0, <2>3 DEF Polled
  <2> QED
    BY <2>3, <2>4 DEF Polled, Left, Answering
<1>8. ASSUME NEW c \in Clients, Delivers(c) PROVE Polled'
  <2>1. /\ UNCHANGED <<version, cli, table, revents>> /\ srv'.pc \in {"status", "scan"} /\ srv'.maxi = srv.maxi
        /\ srv'.told = srv.told /\ srv'.i = srv.i /\ srv.pc \in Answering
    BY <1>0, <1>8 DEF Delivers, InHand, ServerRecord
  <2> QED
    BY <2>1 DEF Polled, Left, Answering
<1>9. ASSUME NEW c \in Clients, DiesOf(c) PROVE Polled'
  <2>1. srv'.pc = "dead"
    BY <1>0, <1>9 DEF DiesOf, Die, ServerRecord
  <2> QED
    BY <2>1 DEF Polled, Answering
<1> QED
  BY <1>1, <1>2, <1>3, <1>4, <1>5, <1>6, <1>7, <1>8, <1>9 DEF ServerDoes

(* A client that has left does not come back.                              *)
LEMMA ClientKeepsPolled ==
  ASSUME NetTypes, SrvTypes, Polled, NEW c \in Clients, ClientSteps(c)
  PROVE  Polled'
<1>1. \A d \in Clients : Left(d) => Left(d)'
  BY DEF ClientSteps, Left
<1>2. UNCHANGED <<version, table, revents>>
  BY DEF ClientSteps
<1>3. CASE srv' = srv
  BY <1>1, <1>2, <1>3 DEF Polled
<1>4. CASE version = "fe" /\ srv.pc = "start" /\ srv' = [srv EXCEPT !.pc = "loop"]
  <2>1. srv'.pc = "loop" /\ srv'.told = srv.told
    BY <1>4 DEF SrvTypes, ServerRecord
  <2> QED
    BY <1>2, <1>4, <2>1 DEF Polled
<1> QED
  BY <1>3, <1>4 DEF ClientSteps

---------------------------------------------------------------------------
(* The client after csopen has written its request.                        *)
Requesting(m, k) == [m EXCEPT !.pc = "wait", !.n = m.n + 1, !.kind = k, !.texts = {}, !.of = NoClient,
                              !.res = "none", !.split = m.split \/ k = "long"]

(* A client asks for a file.                                               *)
Asks(c) ==
    /\ cli[c].pc = "ready" /\ ~Gone(c) /\ UNCHANGED <<down, conn, srv>>
    /\ \E k \in Kinds : cli'[c] = Requesting(cli[c], k) /\ up'[c] = up[c] \o Pieces(c, cli[c].n + 1, k)

(* A client reads what there is, or learns that the server is gone.        *)
Gets(c) ==
    /\ cli[c].pc = "wait" /\ UNCHANGED <<conn, up, srv>>
    /\ \/ down[c] = <<>> /\ Gone(c) /\ down'[c] = <<>> /\ cli'[c] = [cli[c] EXCEPT !.pc = "ready", !.res = "closed"]
       \/ /\ down[c] # <<>>
          /\ \E nr \in Amounts(down[c]) :
               /\ down'[c] = SubSeq(down[c], nr + 1, Len(down[c]))
               /\ cli'[c] = Got(cli[c], down[c], nr)

(* Every other step: it binds, connects, or ends.                          *)
Moves(c) ==
    /\ UNCHANGED <<up, down>>
    /\ \/ cli' = cli
       \/ cli[c].pc \in {"idle", "bound"} /\ \E pc \in {"bound", "ready", "left"} : cli'[c] = [cli[c] EXCEPT !.pc = pc]
       \/ cli[c].pc = "ready" /\ cli'[c] = Ended(cli[c], FALSE)
       \/ cli[c].pc = "wait" /\ cli'[c] = Ended(cli[c], TRUE)

(* Every step of a client is one of the three.                             *)
LEMMA ClientDoes ==
  ASSUME NetTypes, SrvTypes, Queue, Framed, NEW c \in Clients,
         \/ Bind(c) \/ NameAges(c) \/ Connect(c) \/ Spawn(c) \/ Recv(c) \/ Exit(c) \/ Leave(c)
         \/ \E k \in Kinds : Send(c, k)
  PROVE  ClientSteps(c) /\ (Asks(c) \/ Gets(c) \/ Moves(c))
<1>0. ClientSteps(c)
  BY ClientStepIs
<1>1. CASE Bind(c) \/ NameAges(c) \/ Connect(c) \/ Spawn(c)
  BY <1>0, <1>1 DEF Bind, NameAges, Connect, Spawn, Moves, NetTypes
<1>2. CASE Exit(c) \/ Leave(c)
  <2>1. UNCHANGED <<up, down>>
    BY <1>2, NetSame DEF Exit, Leave
  <2> QED
    BY <1>0, <1>2, <2>1 DEF Exit, Leave, Moves, NetTypes
<1>3. CASE Recv(c)
  <2>1. UNCHANGED <<conn, up, srv>> /\ cli[c].pc = "wait"
    BY <1>3, RecvIs, SrvSame
  <2>2. CASE UNCHANGED down /\ down[c] = <<>> /\ Gone(c)
             /\ cli' = [cli EXCEPT ![c] = [cli[c] EXCEPT !.pc = "ready", !.res = "closed"]]
    BY <1>0, <2>1, <2>2 DEF Gets, NetTypes
  <2>3. CASE down[c] # <<>> /\ \E nr \in Amounts(down[c]) :
                    /\ down' = [down EXCEPT ![c] = SubSeq(down[c], nr + 1, Len(down[c]))]
                    /\ cli' = [cli EXCEPT ![c] = Got(cli[c], down[c], nr)]
    <3>1. PICK nr \in Amounts(down[c]) :
                    /\ down' = [down EXCEPT ![c] = SubSeq(down[c], nr + 1, Len(down[c]))]
                    /\ cli' = [cli EXCEPT ![c] = Got(cli[c], down[c], nr)]
      BY <2>3
    <3>2. down'[c] = SubSeq(down[c], nr + 1, Len(down[c])) /\ cli'[c] = Got(cli[c], down[c], nr)
      BY <3>1 DEF NetTypes
    <3> QED
      BY <1>0, <2>1, <2>3, <3>2 DEF Gets
  <2> QED
    BY <1>3, <2>2, <2>3, RecvIs
<1>4. ASSUME NEW k \in Kinds, Send(c, k) PROVE Asks(c) \/ Moves(c)
  <2>1. cli[c].pc = "ready" /\ UNCHANGED <<conn, down, srvvars>>
    BY <1>4 DEF Send
  <2>2. CASE Gone(c)
    BY <1>4, <2>1, <2>2 DEF Send, Moves, NetTypes
  <2>3. CASE ~Gone(c)
    <3>1. /\ cli' = [cli EXCEPT ![c] = [@ EXCEPT !.pc = "wait", !.n = cli[c].n + 1, !.kind = k,
                            !.texts = {}, !.of = NoClient, !.res = "none",
                            !.split = cli[c].split \/ k = "long"]]
          /\ up' = [up EXCEPT ![c] = @ \o Pieces(c, cli[c].n + 1, k)]
      BY <1>4, <2>3 DEF Send
    <3>2. cli'[c] = Requesting(cli[c], k) /\ up'[c] = up[c] \o Pieces(c, cli[c].n + 1, k)
      BY <3>1 DEF NetTypes, Requesting
    <3> QED
      BY <2>1, <2>3, <3>2, SrvSame DEF Asks
  <2> QED
    BY <2>2, <2>3
<1> QED
  BY <1>0, <1>1, <1>2, <1>3, <1>4

---------------------------------------------------------------------------
(* The server takes pieces off in order and answers where they came from.  *)
LEMMA ServerKeepsHands ==
  ASSUME NetTypes, SrvTypes, Queue, Table, Polled, Hands, Framed, ServerDoes
  PROVE  Hands'
<1>0. srv \in ServerRecord
  BY DEF SrvTypes
<1>1. CASE ListenSelect \/ ListenPoll \/ Select \/ Poll \/ PassEnds
  <2>1. UNCHANGED netvars /\ srv'.pc \notin Answering
    BY <1>0, <1>1 DEF ListenSelect, ListenPoll, Select, Poll, PassEnds, ServerRecord, Answering
  <2> QED
    BY <2>1, NetSame DEF Hands
<1>2. CASE AcceptSelect \/ AcceptPoll
  <2>1. up' = up /\ srv'.pc \notin Answering
    BY <1>0, <1>2 DEF AcceptSelect, AcceptPoll, ServerRecord, Answering
  <2> QED
    BY <2>1 DEF Hands
<1>3. ASSUME NEW c \in Clients, Drops(c) PROVE Hands'
  <2>1. up' = up /\ srv'.pc \notin Answering
    BY <1>0, <1>3 DEF Drops, ServerRecord, Answering
  <2> QED
    BY <2>1 DEF Hands
<1>4. ASSUME NEW c \in Clients, TakesRequest(c) PROVE Hands'
  <2>1. /\ Head(up[c]) \in Piece /\ Head(up[c]).of[1] = c /\ up'[c] = Tail(up[c])
        /\ \A d \in Clients \ {c} : up'[d] = up[d]
    BY <1>4, FirstPiece DEF TakesRequest
  <2>2. srv'.req = Head(up[c]) /\ conn' = conn /\ conn[c] = "open" /\ up[c] \in Seq(Piece) /\ up[c] # <<>>
    BY <1>0, <1>4 DEF TakesRequest, ServerRecord, NetTypes
  <2>3. Len(Tail(up[c])) \in Nat /\ \A i \in 1 .. Len(Tail(up[c])) : Tail(up[c])[i] = up[c][i + 1] /\ i + 1 \in 1 .. Len(up[c])
    BY <2>2
  <2>4. \A i \in 1 .. Len(up'[c]) : up'[c][i].of[1] = c
    BY <2>1, <2>3 DEF Hands
  <2>5. \A d \in Clients : \A i \in 1 .. Len(up'[d]) : up'[d][i].of[1] = d
    BY <2>1, <2>4 DEF Hands
  <2>6. srv'.req \in Piece /\ conn'[srv'.req.of[1]] = "open"
    BY <2>1, <2>2
  <2> QED
    BY <2>5, <2>6 DEF Hands
<1>5. ASSUME NEW c \in Clients, Delivers(c) PROVE Hands'
  <2>1. UNCHANGED <<up, conn>> /\ srv'.req = srv.req /\ srv.pc \in Answering
    BY <1>0, <1>5 DEF Delivers, InHand, ServerRecord
  <2> QED
    BY <2>1 DEF Hands
<1>6. ASSUME NEW c \in Clients, DiesOf(c) PROVE Hands'
  <2>1. up' = up /\ srv'.pc \notin Answering
    BY <1>0, <1>6 DEF DiesOf, Die, ServerRecord, Answering
  <2> QED
    BY <2>1 DEF Hands
<1> QED
  BY <1>1, <1>2, <1>3, <1>4, <1>5, <1>6 DEF ServerDoes

(* A client puts its own pieces on its own connection.                     *)
LEMMA ClientKeepsHands ==
  ASSUME NetTypes, SrvTypes, Hands, NEW c \in Clients, ClientSteps(c), Asks(c) \/ Gets(c) \/ Moves(c)
  PROVE  Hands'
<1>1. \A d \in Clients : \A i \in 1 .. Len(up'[d]) : up'[d][i].of[1] = d
  <2>1. \A d \in Clients \ {c} : up'[d] = up[d]
    BY DEF ClientSteps
  <2>2. CASE up' = up
    BY <2>2 DEF Hands
  <2>3. CASE Asks(c)
    <3>1. PICK k \in Kinds : up'[c] = up[c] \o Pieces(c, cli[c].n + 1, k)
      BY <2>3 DEF Asks
    <3>2. cli[c].n \in Nat /\ up[c] \in Seq(Piece)
      BY DEF NetTypes, Client
    <3> DEFINE n == cli[c].n + 1
               p == Pieces(c, n, k)
    <3>3. n \in Nat
      BY <3>2
    <3> HIDE DEF n
    <3>4. p \in Seq(Piece) /\ \A i \in 1 .. Len(p) : p[i].of = <<c, n>>
      BY <3>3, PiecesAre
    <3>5. \A i \in 1 .. Len(p) : p[i].of[1] = c
      BY <3>4
    <3>6. up'[c] = up[c] \o p
      BY <3>1 DEF n
    <3> HIDE DEF p
    <3>7. \A i \in 1 .. Len(up[c]) : up[c][i].of[1] = c
      BY DEF Hands
    <3>8. \A i \in 1 .. Len(up[c] \o p) : (up[c] \o p)[i].of[1] = c
      <4>1. Len(up[c]) \in Nat /\ Len(p) \in Nat /\ Len(up[c] \o p) = Len(up[c]) + Len(p)
        BY <3>2, <3>4
      <4>2. \A i \in 1 .. Len(up[c]) : (up[c] \o p)[i] = up[c][i]
        BY <3>2, <3>4
      <4>3. \A i \in 1 .. Len(up[c]) + Len(p) : ~(i <= Len(up[c])) =>
              i - Len(up[c]) \in 1 .. Len(p) /\ (up[c] \o p)[i] = p[i - Len(up[c])]
        BY <3>2, <3>4, <4>1
      <4> QED
        BY <3>5, <3>7, <4>1, <4>2, <4>3
    <3> QED
      BY <2>1, <3>6, <3>8 DEF Hands
  <2> QED
    BY <2>2, <2>3 DEF Gets, Moves
<1>2. srv'.pc \in Answering => srv' = srv /\ \A d \in Clients : conn[d] = "open" => conn'[d] = "open"
  <2>1. CASE srv' = [srv EXCEPT !.pc = "loop"]
    <3>1. srv'.pc = "loop"
      BY <2>1 DEF SrvTypes, ServerRecord
    <3> QED
      BY <3>1 DEF Answering
  <2>2. \A d \in Clients \ {c} : conn'[d] = conn[d]
    BY DEF ClientSteps
  <2>3. CASE conn' = conn /\ srv' = srv
    BY <2>3
  <2>4. CASE conn[c] = "none" /\ srv' = srv
    BY <2>2, <2>4
  <2> QED
    BY <2>1, <2>3, <2>4 DEF ClientSteps
<1>3. srv'.pc \in Answering => srv'.req \in Piece /\ conn'[srv'.req.of[1]] = "open"
  <2> SUFFICES ASSUME srv'.pc \in Answering PROVE srv'.req \in Piece /\ conn'[srv'.req.of[1]] = "open"
    OBVIOUS
  <2>1. srv.pc \in Answering /\ srv.req \in Piece /\ conn[srv.req.of[1]] = "open" /\ srv' = srv
    BY <1>2 DEF Hands
  <2>2. srv.req.of[1] \in Clients
    BY <2>1 DEF Piece
  <2> QED
    BY <1>2, <2>1, <2>2
<1> QED
  BY <1>1, <1>3 DEF Hands

---------------------------------------------------------------------------
(* send_err and send_fd keep a status behind every null byte.              *)
LEMMA FramedTexts ==
  ASSUME NetTypes, SrvTypes, Hands, Framed, NEW c \in Clients, Delivers(c)
  PROVE  Framed'
<1>1. /\ down[c] \in Seq(Message) /\ errmsg \in [of : Who, len : Nat] /\ srv.req.of \in Clients \X Nat
      /\ \A d \in Clients \ {c} : down'[d] = down[d]
  BY DEF Delivers, InHand, Hands, Piece, NetTypes, SrvTypes
<1>2. PICK s \in Seq(Message) :
        /\ down'[c] = down[c] \o s
        /\ \A i \in 1 .. Len(s) : s[i].t = "null" => i < Len(s) /\ s[i + 1].t = "status"
  <2>1. CASE srv.pc = "text"
    <3>1. down'[c] = down[c] \o Text(errmsg)
      BY <2>1 DEF Delivers, NetTypes
    <3>2. Text(errmsg) \in Seq(Message) /\ Len(Text(errmsg)) = errmsg.len
          /\ \A i \in 1 .. errmsg.len : Text(errmsg)[i] = [t |-> "text", of |-> errmsg.of]
      BY <1>1, TextIs
    <3>3. \A i \in 1 .. Len(Text(errmsg)) : Text(errmsg)[i].t # "null"
      BY <3>2
    <3> QED
      BY <3>1, <3>2, <3>3
  <2>2. ASSUME NEW ok \in BOOLEAN, down' = [down EXCEPT ![c] = @ \o Status(ok, srv.req.of)]
        PROVE  down'[c] = down[c] \o Status(ok, srv.req.of) /\ Status(ok, srv.req.of) \in Seq(Message)
               /\ \A i \in 1 .. Len(Status(ok, srv.req.of)) : Status(ok, srv.req.of)[i].t = "null" =>
                     i < Len(Status(ok, srv.req.of)) /\ Status(ok, srv.req.of)[i + 1].t = "status"
    <3>1. down'[c] = down[c] \o Status(ok, srv.req.of)
      BY <2>2 DEF NetTypes
    <3>2. /\ Status(ok, srv.req.of) \in Seq(Message) /\ Len(Status(ok, srv.req.of)) = 2
          /\ Status(ok, srv.req.of)[1].t = "null" /\ Status(ok, srv.req.of)[2].t = "status"
      BY <1>1, StatusIs
    <3>3. \A i \in 1 .. 2 : i = 1 \/ i = 2
      OBVIOUS
    <3> QED
      BY <3>1, <3>2, <3>3
  <2>3. CASE srv.pc \in {"status", "send_fd"}
    <3>1. PICK ok \in BOOLEAN : down' = [down EXCEPT ![c] = @ \o Status(ok, srv.req.of)]
      BY <2>3 DEF Delivers
    <3> QED
      BY <2>2, <3>1
  <2> QED
    BY <2>1, <2>3 DEF Delivers
<1> DEFINE d == down[c]
<1>3. /\ Len(d) \in Nat /\ Len(s) \in Nat /\ Len(d \o s) = Len(d) + Len(s)
      /\ \A i \in 1 .. Len(d) : (d \o s)[i] = d[i]
      /\ \A i \in 1 .. Len(s) : (d \o s)[Len(d) + i] = s[i]
  BY <1>1
<1>4. \A i \in 1 .. Len(d) : d[i].t = "null" => i < Len(d) /\ d[i + 1].t = "status"
  BY DEF Framed
<1>5. d \o s = down'[c]
  BY <1>2
<1> HIDE DEF d
<1>6. ASSUME NEW i \in 1 .. Len(d \o s), (d \o s)[i].t = "null"
      PROVE  i < Len(d \o s) /\ (d \o s)[i + 1].t = "status"
  <2>1. CASE i <= Len(d)
    <3>1. i \in 1 .. Len(d) /\ i < Len(d) /\ d[i + 1].t = "status"
      BY <1>3, <1>4, <1>6, <2>1
    <3>2. i + 1 \in 1 .. Len(d)
      BY <1>3, <3>1
    <3> QED
      BY <1>3, <3>1, <3>2
  <2>2. CASE ~(i <= Len(d))
    <3>1. PICK j \in 1 .. Len(s) : i = Len(d) + j
      <4>1. i - Len(d) \in 1 .. Len(s) /\ i = Len(d) + (i - Len(d))
        BY <1>3, <2>2
      <4> QED
        BY <4>1
    <3>2. j < Len(s) /\ s[j + 1].t = "status"
      BY <1>2, <1>3, <1>6, <3>1
    <3>3. j + 1 \in 1 .. Len(s) /\ i + 1 = Len(d) + (j + 1) /\ i < Len(d) + Len(s)
      BY <1>3, <3>1, <3>2
    <3> QED
      BY <1>3, <3>2, <3>3
  <2> QED
    BY <2>1, <2>2
<1>7. \A i \in 1 .. Len(down'[c]) : down'[c][i].t = "null" =>
         i < Len(down'[c]) /\ down'[c][i + 1].t = "status"
  BY <1>5, <1>6
<1>8. \A x \in Clients : x = c \/ down'[x] = down[x]
  BY <1>1
<1> QED
  BY <1>7, <1>8 DEF Framed

(* Nothing else of the server writes to a client.                          *)
LEMMA ServerKeepsFramed ==
  ASSUME NetTypes, SrvTypes, Queue, Table, Polled, Hands, Framed, ServerDoes
  PROVE  Framed'
<1>1. CASE ListenSelect \/ ListenPoll \/ Select \/ Poll \/ PassEnds
  <2>1. down' = down
    BY <1>1, NetSame DEF ListenSelect, ListenPoll, Select, Poll, PassEnds
  <2> QED
    BY <2>1 DEF Framed
<1>2. CASE AcceptSelect \/ AcceptPoll
  BY <1>2 DEF AcceptSelect, AcceptPoll, Framed
<1>3. ASSUME NEW c \in Clients, Drops(c) \/ TakesRequest(c) \/ DiesOf(c) PROVE Framed'
  BY <1>3 DEF Drops, TakesRequest, DiesOf, Die, Framed
<1> QED
  BY <1>1, <1>2, <1>3, FramedTexts DEF ServerDoes

(* recv_fd takes items off the front, which keeps the rest framed.         *)
LEMMA ClientKeepsFramed ==
  ASSUME NetTypes, SrvTypes, Framed, NEW c \in Clients, ClientSteps(c), Asks(c) \/ Gets(c) \/ Moves(c)
  PROVE  Framed'
<1>1. \A d \in Clients \ {c} : down'[d] = down[d]
  BY DEF ClientSteps
<1>2. CASE down' = down
  BY <1>2 DEF Framed
<1>3. CASE Gets(c) /\ down[c] = <<>> /\ down'[c] = <<>>
  BY <1>1, <1>3 DEF Framed
<1>4. CASE Gets(c) /\ down[c] # <<>>
  <2>1. PICK nr \in Amounts(down[c]) : down'[c] = SubSeq(down[c], nr + 1, Len(down[c]))
    BY <1>4 DEF Gets
  <2> DEFINE d == down[c]
             r == SubSeq(d, nr + 1, Len(d))
  <2>2. nr \in 1 .. Len(d) /\ Len(d) \in Nat /\ d \in Seq(Message)
    BY <1>4, AmountsAre DEF NetTypes
  <2>3. Len(r) = Len(d) - nr /\ \A i \in 1 .. Len(d) - nr : r[i] = d[i + nr]
    BY <2>2, BufferIs
  <2>4. \A i \in 1 .. Len(d) : d[i].t = "null" => i < Len(d) /\ d[i + 1].t = "status"
    BY DEF Framed
  <2>5. r = down'[c]
    BY <2>1
  <2> HIDE DEF r, d
  <2>6. ASSUME NEW i \in 1 .. Len(r), r[i].t = "null"
        PROVE  i < Len(r) /\ r[i + 1].t = "status"
    <3>1. i \in 1 .. Len(d) - nr /\ i + nr \in 1 .. Len(d)
      BY <2>2, <2>3
    <3>2. i + nr < Len(d) /\ d[i + nr + 1].t = "status"
      BY <2>3, <2>4, <2>6, <3>1
    <3>3. i + 1 \in 1 .. Len(d) - nr /\ i + 1 + nr = i + nr + 1 /\ i < Len(d) - nr
      BY <2>2, <3>1, <3>2
    <3> QED
      BY <2>3, <3>2, <3>3
  <2> QED
    BY <1>1, <2>5, <2>6 DEF Framed
<1> QED
  BY <1>2, <1>3, <1>4 DEF Asks, Gets, Moves

---------------------------------------------------------------------------
(* Only request changes errmsg.                                            *)
LEMMA ServerKeepsTexts ==
  ASSUME NetTypes, SrvTypes, Queue, Table, Polled, Hands, Texts, ServerDoes
  PROVE  Texts'
<1>1. CASE errmsg' = errmsg
  BY <1>1 DEF Texts
<1>2. ASSUME NEW c \in Clients, TakesRequest(c) PROVE Texts'
  <2>1. Head(up[c]) \in Piece /\ Request(Head(up[c]))
    BY <1>2, FirstPiece DEF TakesRequest
  <2> QED
    BY <2>1, RequestIs
<1> QED
  BY <1>1, <1>2 DEF ServerDoes, ListenSelect, ListenPoll, Select, Poll, PassEnds, AcceptSelect, AcceptPoll,
                    Drops, Delivers, DiesOf, Die

(* The server ends by a stale name, of a client that is gone while         *)
(* something of its is still under way, which Talk allows only in the      *)
(* middle of a request or after a long one, or of a text beyond errmsg.    *)
LEMMA ServerKeepsDies ==
  ASSUME NetTypes, SrvTypes, Queue, Table, Polled, Hands, \A c \in Clients : Talk(c), ServerDoes
  PROVE  DiesOfClients'
<1>0. srv \in ServerRecord
  BY DEF SrvTypes
<1>1. CASE ListenSelect \/ ListenPoll \/ Select \/ Poll \/ PassEnds \/ AcceptSelect \/ AcceptPoll
  <2>1. srv'.pc # "dead"
    BY <1>0, <1>1 DEF ListenSelect, ListenPoll, Select, Poll, PassEnds, AcceptSelect, AcceptPoll, ServerRecord
  <2> QED
    BY <2>1 DEF DiesOfClients
<1>2. ASSUME NEW c \in Clients, Drops(c) \/ Delivers(c) PROVE DiesOfClients'
  <2>1. srv'.pc # "dead"
    BY <1>0, <1>2 DEF Drops, Delivers, ServerRecord
  <2> QED
    BY <2>1 DEF DiesOfClients
<1>3. ASSUME NEW c \in Clients, TakesRequest(c) PROVE DiesOfClients'
  <2>1. Head(up[c]) \in Piece
    BY <1>3, FirstPiece DEF TakesRequest
  <2>2. Answer(Head(up[c])) # "dead"
    BY <1>3, <2>1, RequestIs DEF TakesRequest, Answering
  <2>3. srv'.pc # "dead"
    BY <1>0, <1>3, <2>2 DEF TakesRequest, ServerRecord
  <2> QED
    BY <2>3 DEF DiesOfClients
<1>4. ASSUME NEW c \in Clients, DiesOf(c) PROVE DiesOfClients'
  <2>1. UNCHANGED <<version, name, cli>>
    BY <1>4 DEF DiesOf, Die
  <2>2. CASE srv.pc = "accept" /\ version # "fe" /\ name[c] = "stale"
    BY <2>1, <2>2 DEF DiesOfClients
  <2>3. CASE version = "fe" /\ Left(c)
    BY <2>1, <2>3 DEF DiesOfClients, Left
  <2>4. CASE version # "fe" /\ Left(c) /\ (down[c] # <<>> \/ InHand(c))
    <3>1. cli[c].mid \/ cli[c].split
      BY <2>4 DEF Talk, AtRest, Left
    <3> QED
      BY <2>1, <2>4, <3>1 DEF DiesOfClients, Left
  <2>5. CASE srv.over
    <3>1. srv'.over = srv.over
      BY <1>0, <1>4 DEF DiesOf, Die, ServerRecord
    <3> QED
      BY <2>5, <3>1 DEF DiesOfClients
  <2> QED
    BY <1>4, <2>2, <2>3, <2>4, <2>5 DEF DiesOf
<1> QED
  BY <1>1, <1>2, <1>3, <1>4 DEF ServerDoes

(* Who was the reason stays it: a name does not become fresh, nobody comes *)
(* back.                                                                   *)
LEMMA ClientKeepsDies ==
  ASSUME NetTypes, SrvTypes, DiesOfClients, NEW c \in Clients, ClientSteps(c)
  PROVE  DiesOfClients'
<1> SUFFICES ASSUME srv'.pc = "dead", ~srv'.over
             PROVE  \E d \in Clients : IF version' = "fe" THEN Left(d)'
                                       ELSE (Left(d)' /\ (cli'[d].mid \/ cli'[d].split)) \/ name'[d] = "stale"
  BY DEF DiesOfClients
<1>1. srv' = srv
  <2>1. CASE srv' = [srv EXCEPT !.pc = "loop"]
    BY <2>1 DEF SrvTypes, ServerRecord
  <2> QED
    BY <2>1 DEF ClientSteps
<1>2. PICK d \in Clients : IF version = "fe" THEN Left(d)
                           ELSE (Left(d) /\ (cli[d].mid \/ cli[d].split)) \/ name[d] = "stale"
  BY <1>1 DEF DiesOfClients
<1>3. /\ version' = version
      /\ Left(d) => cli'[d] = cli[d]
      /\ name[d] = "stale" => name'[d] = "stale"
  <2>1. CASE d = c
    BY <2>1 DEF ClientSteps
  <2>2. CASE d # c
    <3>1. cli'[d] = cli[d]
      BY <2>2 DEF ClientSteps
    <3> QED
      BY <3>1 DEF ClientSteps
  <2> QED
    BY <2>1, <2>2
<1>4. Left(d) => Left(d)'
  BY <1>3 DEF Left
<1> QED
  BY <1>2, <1>3, <1>4

---------------------------------------------------------------------------
(* Talk is kept when nothing of the client is touched.                     *)
LEMMA TalkStays ==
  ASSUME NEW c \in Clients, Talk(c), cli'[c] = cli[c], up'[c] = up[c], down'[c] = down[c], errmsg' = errmsg,
         conn[c] = "closed" => conn'[c] = "closed" \/ up[c] = <<>>,
         InHand(c)' <=> InHand(c), InHand(c) => srv'.pc = srv.pc /\ srv'.req = srv.req
  PROVE  Talk(c)'
<1>1. AtRest(c) => AtRest(c)'
  BY DEF AtRest
<1>2. Waiting(c) => Waiting(c)'
  BY DEF Waiting, Asking
<1>3. \A e : TextsFit(c, e)' <=> TextsFit(c, e)
  BY DEF TextsFit
<1>4. \A rest : TextsThen(c, rest)' <=> TextsThen(c, rest)
  BY <1>3 DEF TextsThen
<1>5. Served1(c) => Served1(c)'
  <2> SUFFICES ASSUME Served1(c) PROVE Served1(c)'
    OBVIOUS
  <2>1. Asking(c)' = Asking(c) /\ InHand(c) /\ InHand(c)' /\ srv'.pc = srv.pc /\ srv'.req = srv.req
    BY DEF Served1, Asking
  <2>2. TextsFit(c, errmsg)' <=> TextsFit(c, errmsg)
    BY DEF TextsFit
  <2>3. TextsThen(c, <<>>)' <=> TextsThen(c, <<>>)
    BY <1>3 DEF TextsThen
  <2> QED
    BY <2>1, <2>2, <2>3 DEF Served1
<1>6. Replied(c) => Replied(c)'
  <2>1. TextsThen(c, Status(FALSE, <<c, cli[c].n>>))' <=> TextsThen(c, Status(FALSE, <<c, cli[c].n>>))
    BY <1>3 DEF TextsThen
  <2> QED
    BY <2>1 DEF Replied
<1>7. Answered(c) => Answered(c)'
  BY DEF Answered
<1>8. Lost(c) => Lost(c)'
  BY DEF Lost
<1> QED
  BY <1>1, <1>2, <1>5, <1>6, <1>7, <1>8 DEF Talk

(* request brings the client it reads from into the second stage, with the *)
(* text of this request or, after buf_args, with one that is not about     *)
(* another request for any kind but words.                                 *)
LEMMA TakesTalk ==
  ASSUME NetTypes, SrvTypes, Hands, Texts, NEW c \in Clients, TakesRequest(c), Talk(c)
  PROVE  Talk(c)'
<1> DEFINE p == Head(up[c])
           m == cli[c]
<1>1. /\ p \in Piece /\ p.of[1] = c /\ up'[c] = Tail(up[c]) /\ Request(p) /\ cli' = cli /\ down' = down /\ conn' = conn
      /\ conn[c] = "open" /\ up[c] # <<>>
  BY FirstPiece DEF TakesRequest
<1>2. srv'.req = p /\ srv'.pc = Answer(p) /\ srv.pc \notin Answering
  BY DEF TakesRequest, SrvTypes, ServerRecord, Answering
<1>3. /\ errmsg' \in [of : Who, len : Nat] /\ Answer(p) \in Answering /\ Texts'
      /\ p.last /\ p.kind = "ok" => Answer(p) = "send_fd"
      /\ ~(p.last /\ p.kind = "ok") => Answer(p) \in {"text", "status"}
      /\ Answer(p) = "text" => errmsg' # Empty
      /\ Answer(p) = "status" => p.kind = "words"
      /\ p.last /\ p.kind \in {"absent", "brim"} => errmsg' = [of |-> p.of, len |-> 1]
      /\ p.last /\ p.kind = "edge" => errmsg' = [of |-> p.of, len |-> BufLen - 1]
  BY <1>1, RequestIs
<1>4. ~AtRest(c) /\ ~Served1(c) /\ ~Replied(c) /\ ~Lost(c)
  BY <1>1, <1>2 DEF AtRest, Served1, Replied, Lost, InHand
<1>5. m \in Client
  BY DEF NetTypes
<1>6. BufLen \in Nat /\ BufLen - 1 \in Nat /\ BufLen - 1 >= 2 /\ Kinds \subseteq {"ok", "absent", "edge", "brim", "words", "long"}
  BY OpenAssumption
<1>7. InHand(c)'
  BY <1>1, <1>2, <1>3 DEF InHand
<1>8. CASE m.split
  BY <1>1, <1>8 DEF Talk
<1>9. CASE ~m.split /\ m.pc = "wait"
  <2>1. up[c] = <<Asking(c)>> /\ down[c] = <<>> /\ m.texts = {} /\ m.kind # "long" /\ m.res = "none"
    BY <1>4, <1>9 DEF Talk, Waiting
  <2>2. up'[c] = <<>> /\ p = Asking(c)
    BY <1>1, <2>1
  <2>3. p.last = TRUE /\ p.kind = m.kind /\ p.of = <<c, m.n>>
    BY <2>2 DEF Asking
  <2>4. Asking(c)' = Asking(c)
    BY <1>1 DEF Asking
  <2>9. InHand(c)' /\ up'[c] = <<>> /\ srv'.req = Asking(c)' /\ srv'.pc = Answer(p)
    BY <1>2, <1>7, <2>2, <2>4
  <2>10. cli'[c].kind = m.kind /\ cli'[c].texts = {} /\ down'[c] = <<>>
    BY <1>1, <2>1
  <2> HIDE DEF p, m
  <2>5. ASSUME p.kind = "ok" PROVE Served1(c)'
    <3>1. srv'.pc = "send_fd" /\ cli'[c].kind = "ok"
      BY <1>3, <2>3, <2>5, <2>9, <2>10
    <3> QED
      BY <2>9, <2>10, <3>1 DEF Served1
  <2>6. ASSUME p.kind # "ok" /\ Answer(p) = "text" PROVE Served1(c)'
    <3>1. errmsg'.len \in 1 .. BufLen - 1
      BY <1>3, <2>6 DEF Texts
    <3>2. p.kind \in {"absent", "edge", "brim", "words"}
      BY <1>1, <1>6, <2>1, <2>3, <2>6 DEF Piece
    <3>3. p.kind \in {"absent", "edge", "brim"} => errmsg'.of = p.of
      BY <1>3, <2>3
    <3>4. p.kind \in {"absent", "brim"} => errmsg'.len = 1
      BY <1>3, <2>3
    <3>5. TextsFit(c, errmsg)'
      BY <1>1, <1>6, <2>1, <2>3, <2>6, <3>1, <3>2, <3>3, <3>4 DEF TextsFit, m
    <3>6. srv'.pc = "text" /\ errmsg'.len > 0
      BY <1>6, <2>6, <2>9, <3>1
    <3> QED
      BY <2>9, <2>10, <3>5, <3>6 DEF Served1
  <2>7. ASSUME p.kind # "ok" /\ Answer(p) = "status" PROVE Served1(c)'
    <3>1. p.kind = "words"
      BY <1>3, <2>7
    <3> DEFINE e == Empty
    <3>2. e \in [of : Who, len : Nat] /\ e.len = 0
      BY DEF Empty, Who
    <3>3. Text(e) \in Seq(Message) /\ Len(Text(e)) = 0
      BY <3>2, TextIs
    <3> HIDE DEF e
    <3>4. Text(e) \o <<>> = <<>>
      BY <3>3
    <3>5. TextsFit(c, e)'
      BY <1>1, <1>6, <2>3, <3>1, <3>2 DEF TextsFit, m
    <3>6. down'[c] = Text(e) \o <<>>
      BY <1>1, <2>1, <3>4
    <3>7. TextsThen(c, <<>>)'
      BY <3>2, <3>5, <3>6 DEF TextsThen
    <3> QED
      BY <2>7, <2>9, <3>7 DEF Served1
  <2>8. Served1(c)'
    <3>1. p.kind # "ok" => Answer(p) \in {"text", "status"}
      BY <1>3, <2>3
    <3> QED
      BY <2>5, <2>6, <2>7, <3>1
  <2> QED
    BY <1>1, <1>9, <2>1, <2>8 DEF Talk, m
<1>10. CASE ~m.split /\ m.pc # "wait"
  <2>1. Answered(c)' <=> Answered(c)
    BY <1>1 DEF Answered
  <2> QED
    BY <1>1, <1>4, <1>10, <2>1 DEF Talk
<1> QED
  BY <1>8, <1>9, <1>10

(* send_err and send_fd bring the client in hand from the second stage to  *)
(* the third.                                                              *)
LEMMA DeliversTalk ==
  ASSUME NetTypes, SrvTypes, Hands, Texts, NEW c \in Clients, Delivers(c), Talk(c)
  PROVE  Talk(c)'
<1> DEFINE m == cli[c]
<1>1. InHand(c) /\ m.pc # "left" /\ UNCHANGED <<cli, up, errmsg, conn>>
  BY DEF Delivers, Left
<1>2. ~AtRest(c) /\ ~Waiting(c) /\ ~Replied(c) /\ ~Lost(c)
  BY <1>1 DEF AtRest, Waiting, Replied, Lost
<1>3. m \in Client /\ srv \in ServerRecord /\ down[c] \in Seq(Message) /\ errmsg \in [of : Who, len : Nat]
  BY DEF NetTypes, SrvTypes
<1>4. CASE m.split
  BY <1>1, <1>4 DEF Talk
<1>5. CASE ~m.split
  <2>1. m.pc = "wait" /\ Served1(c) /\ m.kind # "long" /\ m.res = "none"
    <3>1. m.pc = "wait"
      BY <1>1, <1>2, <1>3, <1>5 DEF Talk, Client
    <3> QED
      BY <1>2, <1>5, <3>1 DEF Talk
  <2>2. up[c] = <<>> /\ srv.req = Asking(c) /\ srv.req.of = <<c, m.n>>
    BY <2>1 DEF Served1, Asking
  <2>3. \A e : TextsFit(c, e)' <=> TextsFit(c, e)
    BY <1>1 DEF TextsFit
  <2>4. Asking(c)' = Asking(c)
    BY <1>1 DEF Asking
  <2>5. CASE srv.pc = "text"
    <3>1. errmsg.len > 0 /\ TextsFit(c, errmsg) /\ down[c] = <<>>
      BY <2>1, <2>5 DEF Served1
    <3>2. down'[c] = down[c] \o Text(errmsg) /\ srv' = [srv EXCEPT !.pc = "status"]
      BY <2>5 DEF Delivers, NetTypes
    <3>3. down'[c] = Text(errmsg) \o <<>>
      <4>1. Text(errmsg) \in Seq(Message)
        BY <1>3, TextIs
      <4> QED
        BY <3>1, <3>2, <4>1
    <3>4. TextsThen(c, <<>>)'
      BY <1>3, <2>3, <3>1, <3>3 DEF TextsThen
    <3>5. srv'.pc = "status" /\ srv'.req = srv.req /\ InHand(c)'
      BY <1>1, <1>3, <3>2 DEF ServerRecord, InHand, Answering
    <3>6. Served1(c)'
      BY <1>1, <2>2, <2>4, <3>4, <3>5 DEF Served1
    <3> QED
      BY <1>1, <1>5, <2>1, <3>6 DEF Talk
  <2>6. CASE srv.pc = "status"
    <3>1. PICK e \in [of : Who, len : Nat] : down[c] = Text(e) \o <<>> /\ TextsFit(c, e)
      BY <2>1, <2>6 DEF Served1, TextsThen
    <3>2. down'[c] = down[c] \o Status(FALSE, <<c, m.n>>) /\ srv' = [srv EXCEPT !.pc = "scan"]
      BY <2>2, <2>6 DEF Delivers, NetTypes
    <3>3. down'[c] = Text(e) \o Status(FALSE, <<c, m.n>>)
      <4>1. Text(e) \in Seq(Message)
        BY TextIs
      <4> QED
        BY <3>1, <3>2, <4>1
    <3>4. TextsThen(c, Status(FALSE, <<c, cli[c].n>>))'
      BY <1>1, <2>3, <3>1, <3>3 DEF TextsThen
    <3>5. ~InHand(c)'
      BY <1>3, <3>2 DEF ServerRecord, InHand, Answering
    <3>6. m.kind # "ok"
      BY <3>1 DEF TextsFit
    <3>7. Replied(c)'
      BY <1>1, <2>2, <3>4, <3>5, <3>6 DEF Replied
    <3> QED
      BY <1>1, <1>5, <2>1, <3>7 DEF Talk
  <2>7. CASE srv.pc = "send_fd"
    <3>1. m.kind = "ok" /\ down[c] = <<>> /\ m.texts = {}
      BY <2>1, <2>7 DEF Served1
    <3>2. down'[c] = down[c] \o Status(TRUE, <<c, m.n>>) /\ srv' = [srv EXCEPT !.pc = "scan"]
      BY <2>2, <2>7 DEF Delivers, NetTypes
    <3>3. down'[c] = Status(TRUE, <<c, m.n>>)
      BY <3>1, <3>2 DEF Status
    <3>4. ~InHand(c)'
      BY <1>3, <3>2 DEF ServerRecord, InHand, Answering
    <3>5. Replied(c)'
      BY <1>1, <2>2, <3>1, <3>3, <3>4 DEF Replied
    <3> QED
      BY <1>1, <1>5, <2>1, <3>5 DEF Talk
  <2> QED
    BY <2>5, <2>6, <2>7 DEF Delivers
<1> QED
  BY <1>4, <1>5

(* Every step of the server keeps Talk of every client.                    *)
LEMMA ServerKeepsTalk ==
  ASSUME NetTypes, SrvTypes, Queue, Table, Polled, Hands, Texts, ServerDoes, NEW d \in Clients, Talk(d)
  PROVE  Talk(d)'
<1>0. srv \in ServerRecord
  BY DEF SrvTypes
<1>1. CASE ListenSelect \/ ListenPoll \/ Select \/ Poll \/ PassEnds
  <2>1. UNCHANGED netvars /\ cli' = cli /\ errmsg' = errmsg /\ srv.pc \notin Answering /\ srv'.pc \notin Answering
    BY <1>0, <1>1 DEF ListenSelect, ListenPoll, Select, Poll, PassEnds, ServerRecord, Answering
  <2>2. ~InHand(d) /\ ~InHand(d)'
    BY <2>1 DEF InHand
  <2> QED
    BY <2>1, <2>2, NetSame, TalkStays
<1>2. CASE AcceptSelect \/ AcceptPoll
  <2>1. /\ cli' = cli /\ up' = up /\ down' = down /\ errmsg' = errmsg /\ ServAccept
        /\ srv.pc \notin Answering /\ srv'.pc \notin Answering
    BY <1>0, <1>2 DEF AcceptSelect, AcceptPoll, ServAccept, ServerRecord, Answering
  <2>2. Head(backlog) \in Clients /\ conn[Head(backlog)] = "queued" /\ conn' = [conn EXCEPT ![Head(backlog)] = "open"]
    BY <2>1, AcceptIs
  <2>3. conn[d] = "closed" => conn'[d] = "closed"
    BY <2>2 DEF NetTypes
  <2>4. ~InHand(d) /\ ~InHand(d)'
    BY <2>1 DEF InHand
  <2> QED
    BY <2>1, <2>3, <2>4, TalkStays
<1>3. ASSUME NEW c \in Clients, Drops(c) PROVE Talk(d)'
  <2>1. /\ cli' = cli /\ up' = up /\ down' = down /\ errmsg' = errmsg /\ conn' = [conn EXCEPT ![c] = "closed"]
        /\ srv.pc \notin Answering /\ srv'.pc \notin Answering
    BY <1>0, <1>3 DEF Drops, Drop, ServerRecord, Answering
  <2>2. conn[d] = "closed" => conn'[d] = "closed"
    BY <2>1 DEF NetTypes
  <2>3. ~InHand(d) /\ ~InHand(d)'
    BY <2>1 DEF InHand
  <2> QED
    BY <2>1, <2>2, <2>3, TalkStays
<1>4. ASSUME NEW c \in Clients, TakesRequest(c) PROVE Talk(d)'
  <2>1. CASE d = c
    BY <1>4, <2>1, TakesTalk
  <2>2. CASE d # c
    <3>1. /\ cli' = cli /\ down' = down /\ conn' = conn /\ up'[d] = up[d] /\ srv.pc \notin Answering
          /\ srv'.req.of[1] = c
      <4>1. Head(up[c]).of[1] = c /\ up'[d] = up[d]
        BY <1>4, <2>2, FirstPiece DEF TakesRequest
      <4> QED
        BY <1>0, <1>4, <4>1 DEF TakesRequest, ServerRecord, Answering
    <3>2. ~InHand(d) /\ ~InHand(d)'
      BY <2>2, <3>1 DEF InHand
    <3>3. ~Served1(d)
      BY <3>2 DEF Served1
    <3>4. AtRest(d)' <=> AtRest(d)
      BY <3>1, <3>2 DEF AtRest
    <3>5. Waiting(d)' <=> Waiting(d)
      BY <3>1, <3>2 DEF Waiting, Asking
    <3>6. Replied(d)' <=> Replied(d)
      <4>1. TextsThen(d, Status(FALSE, <<d, cli[d].n>>))' <=> TextsThen(d, Status(FALSE, <<d, cli[d].n>>))
        BY <3>1 DEF TextsThen, TextsFit
      <4> QED
        BY <3>1, <3>2, <4>1 DEF Replied
    <3>7. Answered(d)' <=> Answered(d)
      BY <3>1 DEF Answered
    <3>8. Lost(d)' <=> Lost(d)
      BY <3>1, <3>2 DEF Lost
    <3> QED
      BY <3>1, <3>3, <3>4, <3>5, <3>6, <3>7, <3>8 DEF Talk
  <2> QED
    BY <2>1, <2>2
<1>5. ASSUME NEW c \in Clients, Delivers(c) PROVE Talk(d)'
  <2>1. CASE d = c
    BY <1>5, <2>1, DeliversTalk
  <2>2. CASE d # c
    <3>1. /\ cli' = cli /\ up' = up /\ conn' = conn /\ down'[d] = down[d] /\ errmsg' = errmsg
          /\ srv.req.of[1] = c /\ srv'.req = srv.req
      BY <1>0, <1>5, <2>2 DEF Delivers, InHand, NetTypes, ServerRecord
    <3>2. ~InHand(d) /\ ~InHand(d)'
      BY <2>2, <3>1 DEF InHand
    <3> QED
      BY <3>1, <3>2, TalkStays
  <2> QED
    BY <2>1, <2>2
<1>6. ASSUME NEW c \in Clients, DiesOf(c) PROVE Talk(d)'
  <2>1. /\ cli' = cli /\ up' = up /\ down' = down /\ errmsg' = errmsg /\ srv'.pc = "dead"
        /\ conn' = [x \in Clients |-> IF conn[x] = "none" THEN "none" ELSE "closed"]
    BY <1>0, <1>6 DEF DiesOf, Die, ServerRecord
  <2>2. ~InHand(d)' /\ (conn[d] = "closed" => conn'[d] = "closed")
    BY <2>1 DEF InHand, Answering
  <2>3. CASE InHand(d)
    <3>1. ~AtRest(d) /\ ~Waiting(d) /\ ~Replied(d) /\ ~Lost(d)
      BY <2>3 DEF AtRest, Waiting, Replied, Lost
    <3>2. cli[d] \in Client
      BY DEF NetTypes
    <3>3. CASE cli[d].split \/ cli[d].pc = "left"
      BY <2>1, <3>1, <3>3 DEF Talk
    <3>4. CASE ~cli[d].split /\ cli[d].pc # "left"
      <4>1. cli[d].pc = "wait" /\ Served1(d)
        BY <3>1, <3>2, <3>4 DEF Talk, Client
      <4>2. down[d] = <<>> \/ \E e \in [of : Who, len : Nat] : down[d] = Text(e) \o <<>>
        BY <4>1 DEF Served1, TextsThen
      <4>3. \A i \in 1 .. Len(down[d]) : down[d][i].t # "null"
        <5>1. ASSUME NEW e \in [of : Who, len : Nat], down[d] = Text(e) \o <<>>
              PROVE  \A i \in 1 .. Len(down[d]) : down[d][i].t # "null"
          <6>1. Text(e) \in Seq(Message) /\ Len(Text(e)) = e.len
                /\ \A i \in 1 .. e.len : Text(e)[i] = [t |-> "text", of |-> e.of]
            BY TextIs
          <6> DEFINE x == Text(e)
          <6> HIDE DEF x
          <6>2. x \o <<>> = x
            BY <6>1 DEF x
          <6>3. down[d] = x
            BY <5>1, <6>2 DEF x
          <6> QED
            BY <6>1, <6>3 DEF x
        <5>2. down[d] = <<>> => \A i \in 1 .. Len(down[d]) : down[d][i].t # "null"
          OBVIOUS
        <5> QED
          BY <4>2, <5>1, <5>2
      <4>4. Lost(d)'
        BY <2>1, <2>2, <4>1, <4>3 DEF Lost, Served1
      <4> QED
        BY <2>1, <3>4, <4>1, <4>4 DEF Talk
    <3> QED
      BY <3>3, <3>4
  <2>4. CASE ~InHand(d)
    BY <2>1, <2>2, <2>4, TalkStays
  <2> QED
    BY <2>3, <2>4
<1> QED
  BY <1>1, <1>2, <1>3, <1>4, <1>5, <1>6 DEF ServerDoes

---------------------------------------------------------------------------
(* Two sequences with the same items are the same.                         *)
LEMMA SameSequence ==
  ASSUME NEW s \in Seq(Message), NEW t \in Seq(Message), Len(s) = Len(t),
         \A i \in 1 .. Len(s) : s[i] = t[i]
  PROVE  s = t
OBVIOUS

(* The items of a text and what follows it.                                *)
LEMMA TextAnd ==
  ASSUME NEW e \in [of : Who, len : Nat], NEW rest \in Seq(Message)
  PROVE  /\ Text(e) \o rest \in Seq(Message) /\ Len(Text(e) \o rest) = e.len + Len(rest)
         /\ e.len \in Nat /\ Len(rest) \in Nat
         /\ \A i \in 1 .. e.len : (Text(e) \o rest)[i] = [t |-> "text", of |-> e.of]
         /\ \A i \in 1 .. Len(rest) : (Text(e) \o rest)[e.len + i] = rest[i]
<1> DEFINE x == Text(e)
<1>0. e.len \in Nat /\ Len(rest) \in Nat
  OBVIOUS
<1>1. x \in Seq(Message) /\ Len(x) = e.len /\ e.len \in Nat /\ Len(rest) \in Nat
  BY <1>0, TextIs
<1>2. \A i \in 1 .. e.len : x[i] = [t |-> "text", of |-> e.of]
  BY TextIs
<1> HIDE DEF x
<1>3. x \o rest \in Seq(Message) /\ Len(x \o rest) = e.len + Len(rest)
  BY <1>1
<1>4. \A i \in 1 .. e.len : (x \o rest)[i] = x[i]
  BY <1>1
<1>5. \A i \in 1 .. Len(rest) : (x \o rest)[e.len + i] = rest[i]
  BY <1>1
<1> QED
  BY <1>1, <1>2, <1>3, <1>4, <1>5 DEF x

(* A read inside the text takes only text, and a shorter text is left.     *)
LEMMA TextRead ==
  ASSUME NEW e \in [of : Who, len : Nat], NEW rest \in Seq(Message), NEW nr \in 1 .. e.len
  PROVE  LET d == Text(e) \o rest IN
         /\ Nulls(d, nr) = {} /\ TextsIn(d, nr) = {e.of}
         /\ SubSeq(d, nr + 1, Len(d)) = Text([of |-> e.of, len |-> e.len - nr]) \o rest
         /\ [of |-> e.of, len |-> e.len - nr] \in [of : Who, len : Nat]
<1> DEFINE d == Text(e) \o rest
           f == [of |-> e.of, len |-> e.len - nr]
           r == SubSeq(d, nr + 1, Len(d))
<1>1. /\ d \in Seq(Message) /\ Len(d) = e.len + Len(rest) /\ e.len \in Nat /\ Len(rest) \in Nat
      /\ \A i \in 1 .. e.len : d[i] = [t |-> "text", of |-> e.of]
      /\ \A i \in 1 .. Len(rest) : d[e.len + i] = rest[i]
  BY TextAnd
<1>2. nr \in Nat /\ 1 <= nr /\ nr <= e.len /\ nr \in 1 .. Len(d)
  BY <1>1
<1>3. f \in [of : Who, len : Nat] /\ f.len = e.len - nr /\ f.of = e.of
  BY <1>1, <1>2
<1> HIDE DEF d, f
<1>4. /\ Text(f) \o rest \in Seq(Message) /\ Len(Text(f) \o rest) = f.len + Len(rest)
      /\ \A i \in 1 .. f.len : (Text(f) \o rest)[i] = [t |-> "text", of |-> f.of]
      /\ \A i \in 1 .. Len(rest) : (Text(f) \o rest)[f.len + i] = rest[i]
  BY <1>3, TextAnd
<1>5. /\ r \in Seq(Message) /\ Len(r) = Len(d) - nr
      /\ \A i \in 1 .. Len(d) - nr : r[i] = d[i + nr]
      /\ Nulls(d, nr) = {i \in 1 .. nr : d[i].t = "null"}
      /\ TextsIn(d, nr) = {d[i].of : i \in {j \in 1 .. nr : d[j].t = "text"}}
  BY <1>1, <1>2, BufferIs
<1>6. \A i \in 1 .. nr : d[i].t = "text" /\ d[i].of = e.of
  BY <1>1, <1>2
<1>7. Nulls(d, nr) = {} /\ TextsIn(d, nr) = {e.of}
  <2>1. 1 \in 1 .. nr
    BY <1>2
  <2>2. Nulls(d, nr) = {}
    <3>1. \A i \in 1 .. nr : d[i].t # "null"
      BY <1>6
    <3> QED
      BY <1>5, <3>1
  <2>3. {j \in 1 .. nr : d[j].t = "text"} = 1 .. nr
    BY <1>6
  <2>4. TextsIn(d, nr) = {d[i].of : i \in 1 .. nr}
    BY <1>5, <2>3
  <2>5. {d[i].of : i \in 1 .. nr} = {e.of}
    BY <1>6, <2>1
  <2> QED
    BY <2>2, <2>4, <2>5
<1> HIDE DEF r
<1>8. r = Text(f) \o rest
  <2> DEFINE t == Text(f) \o rest
  <2>1. Len(r) = Len(t) /\ Len(r) = f.len + Len(rest)
    BY <1>1, <1>2, <1>3, <1>4, <1>5
  <2>2. ASSUME NEW i \in 1 .. Len(r) PROVE r[i] = t[i]
    <3>1. CASE i <= f.len
      <4>1. i \in 1 .. f.len /\ i + nr \in 1 .. e.len /\ i \in 1 .. Len(d) - nr
        BY <1>1, <1>2, <1>3, <2>1, <3>1
      <4> QED
        BY <1>1, <1>3, <1>4, <1>5, <4>1
    <3>2. CASE ~(i <= f.len)
      <4>1. PICK j \in 1 .. Len(rest) : i = f.len + j
        <5>1. i - f.len \in 1 .. Len(rest) /\ i = f.len + (i - f.len)
          BY <1>1, <1>3, <2>1, <3>2, SMTT(30)
        <5> QED
          BY <5>1
      <4>2. i + nr = e.len + j /\ i \in 1 .. Len(d) - nr
        BY <1>1, <1>2, <1>3, <2>1, <4>1
      <4>3. r[i] = rest[j]
        BY <1>1, <1>5, <4>1, <4>2
      <4>4. t[i] = rest[j]
        BY <1>4, <4>1
      <4> QED
        BY <4>3, <4>4
    <3> QED
      BY <3>1, <3>2
  <2> HIDE DEF t
  <2>3. t \in Seq(Message) /\ r \in Seq(Message)
    BY <1>4, <1>5 DEF t
  <2>4. r = t
    BY <2>1, <2>2, <2>3, SameSequence
  <2> QED
    BY <2>4 DEF t
<1> QED
  BY <1>3, <1>7, <1>8 DEF d, f, r

(* On the way: text e, then rest.                                          *)
Carries(c, e, rest) == down[c] = Text(e) \o rest

(* The three reads of an answer: only text; text and the null byte but not *)
(* the status, which takes a text that leaves one byte of the buffer; or   *)
(* all of it.                                                              *)
ReadsText(d, e, nr)  == nr \in 1 .. e.len
(* The second of them.                                                     *)
ReadsTooFar(d, e, nr) == e.len = BufLen - 1 /\ Nulls(d, nr) # {} /\ Min(Nulls(d, nr)) # nr - 1
(* The third.                                                              *)
ReadsAll(d, e, nr, ok, q) ==
    /\ nr = e.len + 2 /\ Nulls(d, nr) # {} /\ Min(Nulls(d, nr)) = nr - 1
    /\ TextsIn(d, nr) = (IF e.len > 0 THEN {e.of} ELSE {})
    /\ SubSeq(d, nr + 1, Len(d)) = <<>>
    /\ SubSeq(d, 1, nr)[nr].ok = ok /\ SubSeq(d, 1, nr)[nr].of = q

(* A recvmsg of an answer is one of the three.                             *)
LEMMA AnswerRead ==
  ASSUME NetTypes, Framed, NEW c \in Clients, NEW e \in [of : Who, len : Nat], NEW ok \in BOOLEAN,
         NEW q \in Clients \X Nat, Carries(c, e, Status(ok, q)), NEW nr \in Amounts(down[c])
  PROVE  ReadsText(down[c], e, nr) \/ ReadsTooFar(down[c], e, nr) \/ ReadsAll(down[c], e, nr, ok, q)
<1> DEFINE d == down[c]
           st == Status(ok, q)
<1>1. /\ st \in Seq(Message) /\ Len(st) = 2 /\ st[1].t = "null" /\ st[2].t = "status" /\ st[2].ok = ok /\ st[2].of = q
  BY StatusIs
<1> HIDE DEF st
<1>2. /\ d \in Seq(Message) /\ Len(d) = e.len + 2 /\ e.len \in Nat
      /\ \A i \in 1 .. e.len : d[i] = [t |-> "text", of |-> e.of]
      /\ \A i \in 1 .. 2 : d[e.len + i] = st[i]
  <2>1. d = Text(e) \o st
    BY DEF st, Carries
  <2> DEFINE x == Text(e) \o st
  <2>2. /\ x \in Seq(Message) /\ Len(x) = e.len + Len(st) /\ e.len \in Nat
        /\ \A i \in 1 .. e.len : x[i] = [t |-> "text", of |-> e.of]
        /\ \A i \in 1 .. Len(st) : x[e.len + i] = st[i]
    BY <1>1, TextAnd
  <2> HIDE DEF x
  <2>3. d = x
    BY <2>1 DEF x
  <2> HIDE DEF d
  <2> QED
    BY <1>1, <2>2, <2>3
<1>3. /\ d[e.len + 1].t = "null" /\ d[e.len + 2].t = "status" /\ d[e.len + 2].ok = ok /\ d[e.len + 2].of = q
      /\ \A i \in 1 .. e.len : d[i].t = "text" /\ d[i].of = e.of
  <2> HIDE DEF d
  <2>1. d[e.len + 1] = st[1] /\ d[e.len + 2] = st[2]
    BY <1>2
  <2>2. \A i \in 1 .. e.len : d[i].t = "text" /\ d[i].of = e.of
    BY <1>2
  <2> QED
    BY <1>1, <2>1, <2>2
<1>4. d # <<>>
  BY <1>2
<1>5. /\ nr \in 1 .. Len(d)
      /\ nr = (IF BufLen <= FirstMessage(d) THEN BufLen ELSE FirstMessage(d))
         \/ nr = (IF BufLen <= Len(d) THEN BufLen ELSE Len(d))
  BY <1>4, AmountsAre
<1>6. FirstMessage(d) \in 1 .. Len(d) /\ d[FirstMessage(d)].t # "null"
  BY <1>4, FirstMessageIs
<1>7. BufLen \in Nat /\ nr \in Nat /\ FirstMessage(d) \in Nat
  BY <1>2, <1>5, <1>6, OpenAssumption
<1>8. /\ Nulls(d, nr) = {i \in 1 .. nr : d[i].t = "null"} /\ Nulls(d, nr) \in SUBSET Nat
      /\ TextsIn(d, nr) = {d[i].of : i \in {j \in 1 .. nr : d[j].t = "text"}}
      /\ SubSeq(d, 1, nr)[nr] = d[nr]
      /\ SubSeq(d, nr + 1, Len(d)) \in Seq(Message) /\ Len(SubSeq(d, nr + 1, Len(d))) = Len(d) - nr
  <2> HIDE DEF d
  <2>1. d \in Seq(Message) /\ nr \in 1 .. Len(d) /\ nr \in 1 .. nr
    BY <1>2, <1>5, <1>7
  <2>2. SubSeq(d, 1, nr)[nr] = d[nr]
    BY <2>1, BufferIs
  <2> QED
    BY <2>1, <2>2, BufferIs
<1> HIDE DEF d
<1>9. nr \in 1 .. e.len \/ nr = e.len + 1 \/ nr = e.len + 2
  BY <1>2, <1>5, <1>7
<1>10. \A i \in 1 .. nr : d[i].t = "null" <=> i = e.len + 1
  <2> SUFFICES ASSUME NEW i \in 1 .. nr PROVE d[i].t = "null" <=> i = e.len + 1
    OBVIOUS
  <2>1. i \in 1 .. e.len \/ i = e.len + 1 \/ i = e.len + 2
    BY <1>2, <1>5, <1>7
  <2>2. e.len + 2 # e.len + 1 /\ ~(e.len + 1 \in 1 .. e.len)
    BY <1>2
  <2> QED
    BY <1>3, <2>1, <2>2
<1>11. CASE nr = e.len + 1
  <2>1. FirstMessage(d) # e.len + 1
    BY <1>3, <1>6
  <2>2. BufLen = e.len + 1
    BY <1>2, <1>5, <1>7, <1>11, <2>1
  <2>3. e.len + 1 \in 1 .. nr
    BY <1>2, <1>11
  <2>4. Nulls(d, nr) = {e.len + 1}
    BY <1>8, <1>10, <2>3
  <2>5. Min(Nulls(d, nr)) = e.len + 1
    <3>1. e.len + 1 \in Nat
      BY <1>2
    <3>2. Min({e.len + 1}) = e.len + 1
      BY <3>1, MinOfOne
    <3> QED
      BY <2>4, <3>2
  <2>6. e.len = BufLen - 1 /\ e.len + 1 # nr - 1
    BY <1>2, <1>11, <2>2
  <2> QED
    BY <2>4, <2>5, <2>6 DEF d, ReadsTooFar
<1>12. CASE nr = e.len + 2
  <2>1. e.len + 1 \in 1 .. nr
    BY <1>2, <1>12
  <2>2. Nulls(d, nr) = {e.len + 1}
    BY <1>8, <1>10, <2>1
  <2>3. Min(Nulls(d, nr)) = e.len + 1
    <3>1. e.len + 1 \in Nat
      BY <1>2
    <3>2. Min({e.len + 1}) = e.len + 1
      BY <3>1, MinOfOne
    <3> QED
      BY <2>2, <3>2
  <2>4. e.len + 1 = nr - 1
    BY <1>2, <1>12
  <2>5. \A i \in 1 .. nr : d[i].t = "text" <=> i \in 1 .. e.len
    <3> SUFFICES ASSUME NEW i \in 1 .. nr PROVE d[i].t = "text" <=> i \in 1 .. e.len
      OBVIOUS
    <3>1. i \in 1 .. e.len \/ i = e.len + 1 \/ i = e.len + 2
      BY <1>2, <1>12
    <3>2. ~(e.len + 2 \in 1 .. e.len) /\ ~(e.len + 1 \in 1 .. e.len)
      BY <1>2
    <3> QED
      BY <1>3, <3>1, <3>2
  <2>6. TextsIn(d, nr) = IF e.len > 0 THEN {e.of} ELSE {}
    <3>1. CASE e.len > 0
      <4>1. 1 \in 1 .. nr /\ 1 \in 1 .. e.len
        BY <1>2, <1>12, <3>1
      <4> QED
        <5>1. TextsIn(d, nr) = {d[i].of : i \in 1 .. e.len}
          <6>1. {j \in 1 .. nr : d[j].t = "text"} = 1 .. e.len
            <7>1. 1 .. e.len \subseteq 1 .. nr
              BY <1>2, <1>12
            <7> QED
              BY <2>5, <7>1
          <6> QED
            BY <1>8, <6>1
        <5>2. {d[i].of : i \in 1 .. e.len} = {e.of}
          BY <1>3, <4>1
        <5> QED
          BY <3>1, <5>1, <5>2
    <3>2. CASE ~(e.len > 0)
      <4>1. \A i \in 1 .. nr : ~(i \in 1 .. e.len)
        BY <1>2, <3>2
      <4> QED
        BY <1>8, <2>5, <3>2, <4>1
    <3> QED
      BY <3>1, <3>2
  <2>7. SubSeq(d, nr + 1, Len(d)) = <<>>
    <3>1. Len(d) - nr = 0
      BY <1>2, <1>12
    <3> DEFINE u == SubSeq(d, nr + 1, Len(d))
    <3>2. u \in Seq(Message) /\ Len(u) = 0
      BY <1>8, <3>1
    <3> HIDE DEF u
    <3>3. u = <<>>
      BY <3>2
    <3> QED
      BY <3>3 DEF u
  <2> QED
    BY <1>3, <1>8, <1>12, <2>2, <2>3, <2>4, <2>6, <2>7 DEF d, ReadsAll
<1> QED
  BY <1>9, <1>11, <1>12 DEF ReadsText

---------------------------------------------------------------------------
(* What recv_fd makes of each of them.                                     *)
LEMMA GotWhole ==
  ASSUME NEW m \in Client, NEW d, NEW nr
  PROVE  /\ Nulls(d, nr) = {} => Got(m, d, nr).pc = m.pc /\ Got(m, d, nr).res = m.res
                                 /\ Got(m, d, nr).texts = m.texts \cup TextsIn(d, nr)
         /\ Nulls(d, nr) # {} /\ Min(Nulls(d, nr)) # nr - 1 => Got(m, d, nr).pc = "left" /\ Got(m, d, nr).mid = TRUE
         /\ Nulls(d, nr) # {} /\ Min(Nulls(d, nr)) = nr - 1 =>
              /\ Got(m, d, nr).pc = "ready" /\ Got(m, d, nr).texts = m.texts \cup TextsIn(d, nr)
              /\ Got(m, d, nr).of = SubSeq(d, 1, nr)[nr].of
              /\ Got(m, d, nr).res = IF SubSeq(d, 1, nr)[nr].ok THEN "fd" ELSE "error"
<1>1. CASE Nulls(d, nr) = {}
  <2>1. Got(m, d, nr) = [m EXCEPT !.texts = m.texts \cup TextsIn(d, nr)]
    BY <1>1 DEF Got
  <2> QED
    BY <1>1, <2>1 DEF Client
<1>2. CASE Nulls(d, nr) # {} /\ Min(Nulls(d, nr)) # nr - 1
  <2> DEFINE e == Ended(m, TRUE)
  <2>1. e \in Client /\ e.pc = "left" /\ e.mid = TRUE
    BY EndedIs
  <2>2. Got(m, d, nr) = [e EXCEPT !.res = "dump"]
    BY <1>2 DEF Got
  <2> HIDE DEF e
  <2> QED
    BY <1>2, <2>1, <2>2 DEF Client
<1>3. CASE Nulls(d, nr) # {} /\ Min(Nulls(d, nr)) = nr - 1
  <2>1. Got(m, d, nr) = [m EXCEPT !.pc = "ready", !.texts = m.texts \cup TextsIn(d, nr),
                                  !.of = SubSeq(d, 1, nr)[nr].of,
                                  !.res = IF SubSeq(d, 1, nr)[nr].ok THEN "fd" ELSE "error"]
    BY <1>3 DEF Got
  <2> QED
    BY <1>3, <2>1 DEF Client
<1> QED
  BY <1>1, <1>2, <1>3

(* recv_fd takes nr items.                                                 *)
Reads(c, nr) == down'[c] = SubSeq(down[c], nr + 1, Len(down[c])) /\ cli'[c] = Got(cli[c], down[c], nr)

(* A read without a null byte only adds text.                              *)
LEMMA ReadsKeeps ==
  ASSUME NEW m \in Client, NEW d, NEW nr, Nulls(d, nr) = {}
  PROVE  /\ Got(m, d, nr).pc = m.pc /\ Got(m, d, nr).res = m.res /\ Got(m, d, nr).n = m.n
         /\ Got(m, d, nr).kind = m.kind /\ Got(m, d, nr).split = m.split
         /\ Got(m, d, nr).texts = m.texts \cup TextsIn(d, nr)
<1>1. Got(m, d, nr) = [m EXCEPT !.texts = m.texts \cup TextsIn(d, nr)]
  BY DEF Got
<1> QED
  BY <1>1 DEF Client

(* A read inside the text keeps a fitting text on the way.                 *)
LEMMA GetsText ==
  ASSUME NetTypes, NEW c \in Clients, NEW e \in [of : Who, len : Nat], TextsFit(c, e), NEW rest \in Seq(Message),
         NEW nr \in 1 .. e.len, Carries(c, e, rest), Reads(c, nr)
  PROVE  /\ TextsThen(c, rest)' /\ cli'[c].pc = cli[c].pc /\ cli'[c].res = cli[c].res
         /\ cli'[c].n = cli[c].n /\ cli'[c].kind = cli[c].kind /\ cli'[c].split = cli[c].split
<1> DEFINE m == cli[c]
           f == [of |-> e.of, len |-> e.len - nr]
<1>1. m \in Client /\ e.len \in Nat /\ BufLen \in Nat /\ nr \in Nat /\ 1 <= nr /\ nr <= e.len
  BY OpenAssumption DEF NetTypes
<1>2. Nulls(down[c], nr) = {} /\ TextsIn(down[c], nr) = {e.of} /\ down'[c] = Text(f) \o rest /\ f \in [of : Who, len : Nat]
  BY TextRead DEF Carries, Reads
<1>3. /\ cli'[c].pc = m.pc /\ cli'[c].res = m.res /\ cli'[c].texts = m.texts \cup {e.of}
      /\ cli'[c].n = m.n /\ cli'[c].kind = m.kind /\ cli'[c].split = m.split
  <2>1. m \in Client /\ Nulls(down[c], nr) = {}
    BY <1>1, <1>2
  <2> DEFINE g == Got(m, down[c], nr)
  <2>2. /\ g.pc = m.pc /\ g.res = m.res /\ g.texts = m.texts \cup TextsIn(down[c], nr)
        /\ g.n = m.n /\ g.kind = m.kind /\ g.split = m.split
    BY <2>1, ReadsKeeps
  <2>3. cli'[c] = g
    BY DEF Reads
  <2> HIDE DEF g
  <2> QED
    BY <1>2, <2>2, <2>3
<1>4. f.len = e.len - nr /\ f.of = e.of /\ f.len <= e.len /\ f.len \in Nat
  BY <1>1
<1> HIDE DEF f
<1>5. TextsFit(c, f)'
  <2>1. /\ m.kind # "ok" /\ e.len <= BufLen - 1
        /\ m.kind # "words" => m.texts \subseteq {<<c, m.n>>} /\ e.of = <<c, m.n>>
        /\ m.kind \notin {"edge", "words"} => e.len <= 1
    BY <1>1 DEF TextsFit
  <2>2. f.len <= BufLen - 1 /\ (m.kind \notin {"edge", "words"} => f.len <= 1)
    BY <1>1, <1>4, <2>1
  <2>3. cli'[c].texts # {}
    BY <1>3
  <2>4. m.kind # "words" => cli'[c].texts \subseteq {<<c, m.n>>} /\ f.of = <<c, m.n>>
    BY <1>3, <1>4, <2>1
  <2> QED
    BY <1>3, <2>1, <2>2, <2>3, <2>4 DEF TextsFit
<1> QED
  BY <1>2, <1>3, <1>5 DEF TextsThen

(* recv_fd keeps Talk: it reads text of this answer, or returns its        *)
(* descriptor or status, or dumps, and then the request was of a kind      *)
(* whose text is too long.                                                 *)
LEMMA GetsTalk ==
  ASSUME NetTypes, SrvTypes, Hands, Framed, NEW c \in Clients, Talk(c), Gets(c)
  PROVE  Talk(c)'
<1> DEFINE me == cli[c]
<1>1. me \in Client /\ srv' = srv /\ conn' = conn /\ up' = up /\ me.pc = "wait"
  BY DEF NetTypes, Gets
<1>2. InHand(c)' <=> InHand(c)
  BY <1>1 DEF InHand
<1>3. CASE down[c] = <<>> /\ Gone(c) /\ down'[c] = <<>> /\ cli'[c] = [me EXCEPT !.pc = "ready", !.res = "closed"]
  <2>1. /\ cli'[c].pc = "ready" /\ cli'[c].res = "closed" /\ cli'[c].split = me.split /\ cli'[c].kind = me.kind
        /\ cli'[c].n = me.n
    BY <1>1, <1>3 DEF Client
  <2>2. ~InHand(c)
    BY <1>3 DEF Gone, Hands, InHand
  <2>3. AtRest(c)'
    BY <1>1, <1>2, <1>3, <2>2 DEF AtRest, Gone
  <2> QED
    BY <2>1, <2>3 DEF Talk
<1>4. ASSUME down[c] # <<>>, NEW nr \in Amounts(down[c]), down'[c] = SubSeq(down[c], nr + 1, Len(down[c])),
             cli'[c] = Got(me, down[c], nr)
      PROVE  Talk(c)'
  <2>1. /\ cli'[c].pc \in {"wait", "ready", "left"} /\ cli'[c].n = me.n /\ cli'[c].kind = me.kind
        /\ cli'[c].split = me.split
        /\ cli'[c].pc = "left" => cli'[c].mid = TRUE
    <3> DEFINE g == Got(me, down[c], nr)
    <3>1. me \in Client
      BY <1>1
    <3>2. /\ g.pc \in {me.pc, "ready", "left"}
          /\ g.n = me.n /\ g.kind = me.kind /\ g.split = me.split
          /\ g.pc = "left" => me.pc = "left" \/ g.mid = TRUE
      BY <3>1, GotPc
    <3>3. cli'[c] = g
      BY <1>4
    <3> HIDE DEF g
    <3> QED
      BY <1>1, <3>2, <3>3
  <2>2. CASE me.split
    BY <2>1, <2>2 DEF Talk
  <2>3. CASE ~me.split
    <3>1. me.kind # "long" /\ me.res = "none" /\ (Served1(c) \/ Replied(c) \/ Lost(c))
      BY <1>1, <1>4, <2>3 DEF Talk, Waiting
    <3>2. CASE Served1(c)
      <4>1. /\ InHand(c) /\ up[c] = <<>> /\ srv.req = Asking(c) /\ srv.pc = "status" /\ TextsThen(c, <<>>)
        BY <1>4, <3>2 DEF Served1
      <4>2. PICK e \in [of : Who, len : Nat] : down[c] = Text(e) \o <<>> /\ TextsFit(c, e)
        BY <4>1 DEF TextsThen
      <4>3. nr \in 1 .. e.len
        <5>1. <<>> \in Seq(Message) /\ Len(<<>>) = 0
          OBVIOUS
        <5>2. Len(down[c]) = e.len + 0 /\ e.len \in Nat
          BY <4>2, <5>1, TextAnd
        <5>3. nr \in 1 .. Len(down[c])
          BY <1>4, AmountsAre
        <5> QED
          BY <5>2, <5>3
      <4>4. <<>> \in Seq(Message)
        OBVIOUS
      <4>5. /\ TextsThen(c, <<>>)' /\ cli'[c].pc = "wait" /\ cli'[c].res = "none"
        <5>1. TextsThen(c, <<>>)' /\ cli'[c].pc = me.pc /\ cli'[c].res = me.res
          <6>1. Carries(c, e, <<>>) /\ Reads(c, nr)
            BY <1>4, <4>2 DEF Carries, Reads
          <6> QED
            BY <4>2, <4>3, <4>4, <6>1, GetsText
        <5> QED
          BY <1>1, <3>1, <5>1
      <4>6. Asking(c)' = Asking(c)
        BY <2>1 DEF Asking
      <4>7. Served1(c)'
        BY <1>1, <1>2, <4>1, <4>5, <4>6 DEF Served1
      <4> QED
        BY <2>1, <2>3, <3>1, <4>5, <4>7 DEF Talk
    <3>3. CASE Replied(c)
      <4> DEFINE rq == <<c, me.n>>
      <4>1. ~InHand(c) /\ up[c] = <<>> /\ rq \in Clients \X Nat
        BY <1>1, <3>3 DEF Replied, Client
      <4>2. PICK e \in [of : Who, len : Nat], ok \in BOOLEAN :
              /\ down[c] = Text(e) \o Status(ok, rq) /\ ok = (me.kind = "ok")
              /\ IF me.kind = "ok" THEN e.len = 0 /\ me.texts = {} ELSE TextsFit(c, e)
        <5>1. CASE me.kind = "ok"
          <6> DEFINE e == Empty
          <6>1. e \in [of : Who, len : Nat] /\ e.len = 0
            BY DEF Empty, Who
          <6>2. Text(e) \in Seq(Message) /\ Len(Text(e)) = 0
            BY <6>1, TextIs
          <6>3. Status(TRUE, rq) \in Seq(Message)
            BY <4>1, StatusIs
          <6> HIDE DEF e, rq
          <6>4. Text(e) \o Status(TRUE, rq) = Status(TRUE, rq)
            <7> DEFINE x == Text(e)
                       s == Status(TRUE, rq)
            <7>1. x \in Seq(Message) /\ Len(x) = 0 /\ s \in Seq(Message)
              BY <6>2, <6>3
            <7> HIDE DEF x, s
            <7>2. x = <<>>
              BY <7>1
            <7>3. x \o s = s
              BY <7>1, <7>2
            <7> QED
              BY <7>3 DEF x, s
          <6>5. down[c] = Status(TRUE, rq) /\ me.texts = {}
            BY <3>3, <5>1 DEF Replied, rq
          <6> QED
            BY <5>1, <6>1, <6>4, <6>5
        <5>2. CASE me.kind # "ok"
          <6>1. TextsThen(c, Status(FALSE, rq))
            BY <3>3, <5>2 DEF Replied
          <6> QED
            BY <5>2, <6>1 DEF TextsThen
        <5> QED
          BY <5>1, <5>2
      <4>3. Status(ok, rq) \in Seq(Message) /\ BufLen \in Nat /\ BufLen - 1 >= 2 /\ e.len \in Nat
        BY <4>1, StatusIs, OpenAssumption
      <4>4. CASE nr \in 1 .. e.len
        <5>1. me.kind # "ok" /\ TextsFit(c, e) /\ ok = FALSE
          <6>1. e.len # 0
            BY <4>3, <4>4
          <6>2. me.kind # "ok"
            BY <4>2, <6>1
          <6> QED
            BY <4>2, <6>2
        <5>2. TextsThen(c, Status(ok, rq))' /\ cli'[c].pc = me.pc /\ cli'[c].res = me.res
          <6>1. Carries(c, e, Status(ok, rq)) /\ Reads(c, nr)
            BY <1>4, <4>2 DEF Carries, Reads
          <6> QED
            BY <4>3, <4>4, <5>1, <6>1, GetsText
        <5>3. Replied(c)'
          BY <1>1, <1>2, <2>1, <4>1, <5>1, <5>2 DEF Replied
        <5> QED
          BY <1>1, <2>1, <2>3, <3>1, <5>2, <5>3 DEF Talk
      <4>5. CASE ReadsTooFar(down[c], e, nr)
        <5>1. me.kind \in {"edge", "words"}
          BY <4>2, <4>3, <4>5 DEF TextsFit, ReadsTooFar
        <5>2. cli'[c].pc = "left" /\ cli'[c].mid = TRUE
          <6> DEFINE g == Got(me, down[c], nr)
          <6>1. me \in Client /\ Nulls(down[c], nr) # {} /\ Min(Nulls(down[c], nr)) # nr - 1
            BY <1>1, <4>5 DEF ReadsTooFar
          <6>2. g.pc = "left" /\ g.mid = TRUE
            BY <6>1, GotWhole
          <6> QED
            BY <1>4, <6>2
        <5> QED
          BY <2>1, <2>3, <5>1, <5>2 DEF Talk
      <4>6. CASE ReadsAll(down[c], e, nr, ok, rq)
        <5>1. /\ cli'[c].pc = "ready" /\ cli'[c].texts = me.texts \cup (IF e.len > 0 THEN {e.of} ELSE {})
              /\ cli'[c].of = rq /\ cli'[c].res = IF ok THEN "fd" ELSE "error"
          <6> DEFINE g == Got(me, down[c], nr)
          <6>1. me \in Client /\ Nulls(down[c], nr) # {} /\ Min(Nulls(down[c], nr)) = nr - 1
            BY <1>1, <4>6 DEF ReadsAll
          <6>2. /\ g.pc = "ready" /\ g.texts = me.texts \cup TextsIn(down[c], nr)
                /\ g.of = SubSeq(down[c], 1, nr)[nr].of
                /\ g.res = IF SubSeq(down[c], 1, nr)[nr].ok THEN "fd" ELSE "error"
            BY <6>1, GotWhole
          <6>3. cli'[c] = g
            BY <1>4
          <6> HIDE DEF g
          <6> QED
            BY <4>6, <6>2, <6>3 DEF ReadsAll
        <5>2. down'[c] = <<>>
          BY <1>4, <4>6 DEF ReadsAll
        <5>3. AtRest(c)'
          BY <1>1, <1>2, <4>1, <5>2 DEF AtRest
        <5>4. /\ me.kind # "words" => cli'[c].texts \subseteq {rq}
              /\ me.kind = "absent" => cli'[c].texts # {}
          BY <4>2, <4>3, <5>1 DEF TextsFit
        <5>5. Answered(c)'
          BY <2>1, <4>2, <5>1, <5>4 DEF Answered
        <5> QED
          BY <2>1, <2>3, <4>2, <5>1, <5>3, <5>5 DEF Talk
      <4> QED
        <5>1. Carries(c, e, Status(ok, rq))
          BY <4>2 DEF Carries
        <5>2. rq \in Clients \X Nat /\ nr \in Amounts(down[c]) /\ ok \in BOOLEAN
          BY <1>4, <4>1
        <5> HIDE DEF rq
        <5>3. ReadsText(down[c], e, nr) \/ ReadsTooFar(down[c], e, nr) \/ ReadsAll(down[c], e, nr, ok, rq)
          BY <5>1, <5>2, AnswerRead
        <5> QED
          BY <4>4, <4>5, <4>6, <5>3 DEF ReadsText
    <3>4. CASE Lost(c)
      <4>1. nr \in 1 .. Len(down[c]) /\ down[c] \in Seq(Message) /\ Len(down[c]) \in Nat
        BY <1>4, AmountsAre DEF NetTypes
      <4>2. Nulls(down[c], nr) = {}
        <5>1. Nulls(down[c], nr) = {i \in 1 .. nr : down[c][i].t = "null"}
          BY <4>1, BufferIs
        <5>2. \A i \in 1 .. nr : i \in 1 .. Len(down[c])
          BY <4>1
        <5> QED
          BY <3>4, <5>1, <5>2 DEF Lost
      <4>3. cli'[c].pc = "wait" /\ cli'[c].res = "none"
        <5> DEFINE g == Got(me, down[c], nr)
        <5>1. me \in Client
          BY <1>1
        <5>2. g.pc = me.pc /\ g.res = me.res
          BY <4>2, <5>1, ReadsKeeps
        <5>3. cli'[c] = g
          BY <1>4
        <5> HIDE DEF g
        <5> QED
          BY <1>1, <3>1, <5>2, <5>3
      <4>4. \A i \in 1 .. Len(down'[c]) : down'[c][i].t # "null"
        <5>1. /\ Len(down'[c]) = Len(down[c]) - nr
              /\ \A i \in 1 .. Len(down[c]) - nr : down'[c][i] = down[c][i + nr]
          BY <1>4, <4>1, BufferIs
        <5>2. \A i \in 1 .. Len(down[c]) - nr : i + nr \in 1 .. Len(down[c])
          BY <4>1
        <5> QED
          BY <3>4, <5>1, <5>2 DEF Lost
      <4>5. Lost(c)'
        BY <1>1, <1>2, <3>4, <4>4 DEF Lost
      <4> QED
        BY <2>1, <2>3, <3>1, <4>3, <4>5 DEF Talk
    <3> QED
      BY <3>1, <3>2, <3>3, <3>4
  <2> QED
    BY <2>2, <2>3
<1> QED
  BY <1>3, <1>4 DEF Gets

(* A request that comes in one piece brings the client into the first      *)
(* stage.                                                                  *)
LEMMA AsksTalk ==
  ASSUME NetTypes, SrvTypes, NEW c \in Clients, Talk(c), Asks(c)
  PROVE  Talk(c)'
<1> DEFINE m == cli[c]
<1>1. m \in Client /\ srv' = srv /\ down' = down /\ m.pc = "ready" /\ conn[c] # "closed"
  BY DEF NetTypes, Asks, Gone
<1>2. PICK k \in Kinds : cli'[c] = Requesting(m, k) /\ up'[c] = up[c] \o Pieces(c, m.n + 1, k)
  BY DEF Asks
<1>3. /\ cli'[c].pc = "wait" /\ cli'[c].n = m.n + 1 /\ cli'[c].kind = k /\ cli'[c].texts = {}
      /\ cli'[c].res = "none" /\ cli'[c].split = (m.split \/ k = "long")
  BY <1>1, <1>2 DEF Requesting, Client
<1>4. CASE m.split \/ k = "long"
  BY <1>3, <1>4 DEF Talk
<1>5. CASE ~m.split /\ k # "long"
  <2>1. AtRest(c) /\ up[c] = <<>> /\ down[c] = <<>> /\ ~InHand(c)
    BY <1>1, <1>5 DEF Talk, AtRest
  <2>2. m.n + 1 \in Nat
    BY <1>1 DEF Client
  <2>3. Pieces(c, m.n + 1, k) = <<[of |-> <<c, m.n + 1>>, kind |-> k, last |-> TRUE]>>
    BY <1>5, <2>2, PiecesAre
  <2>4. up'[c] = <<[of |-> <<c, m.n + 1>>, kind |-> k, last |-> TRUE]>>
    BY <1>2, <2>1, <2>3
  <2>5. up'[c] = <<Asking(c)'>>
    BY <1>3, <2>4 DEF Asking
  <2>6. Waiting(c)'
    BY <1>1, <1>3, <2>1, <2>5 DEF Waiting, InHand
  <2> QED
    BY <1>3, <1>5, <2>6 DEF Talk
<1> QED
  BY <1>4, <1>5

(* A client that binds, connects or ends keeps Talk.                       *)
LEMMA MovesTalk ==
  ASSUME NetTypes, SrvTypes, NEW c \in Clients, Talk(c), Moves(c), ClientSteps(c),
         InHand(c)' <=> InHand(c), InHand(c) => srv' = srv
  PROVE  Talk(c)'
<1> DEFINE m == cli[c]
<1>1. m \in Client /\ up' = up /\ down' = down /\ errmsg' = errmsg /\ (conn[c] = "closed" => conn'[c] = "closed")
  BY DEF NetTypes, Moves, ClientSteps
<1>2. AtRest(c) => AtRest(c)'
  BY <1>1 DEF AtRest
<1>3. CASE cli' = cli
  BY <1>1, <1>3, TalkStays
<1>4. ASSUME m.pc \in {"idle", "bound"}, NEW pc \in {"bound", "ready", "left"}, cli'[c] = [m EXCEPT !.pc = pc]
      PROVE  Talk(c)'
  <2>1. /\ cli'[c].pc = pc /\ cli'[c].n = m.n /\ cli'[c].split = m.split /\ cli'[c].kind = m.kind
        /\ cli'[c].res = m.res
    BY <1>1, <1>4 DEF Client
  <2>2. m.n = 0
    BY <1>4 DEF Talk
  <2> QED
    BY <1>2, <1>4, <2>1, <2>2 DEF Talk
<1>5. ASSUME m.pc \in {"ready", "wait"}, NEW mid \in BOOLEAN, mid = (m.pc = "wait"), cli'[c] = Ended(m, mid)
      PROVE  Talk(c)'
  <2>1. /\ cli'[c].pc = "left" /\ cli'[c].mid = mid /\ cli'[c].split = m.split /\ cli'[c].kind = m.kind
        /\ cli'[c].res = m.res
    <3>1. m \in Client
      BY <1>1
    <3> DEFINE g == Ended(m, mid)
    <3>2. g.pc = "left" /\ g.mid = mid /\ g.split = m.split /\ g.kind = m.kind /\ g.res = m.res
      BY <3>1, EndedIs
    <3> QED
      BY <1>5, <3>2
  <2> QED
    BY <1>2, <1>5, <2>1 DEF Talk
<1> QED
  BY <1>3, <1>4, <1>5 DEF Moves

(* Every step of a client keeps Talk of every client.                      *)
LEMMA ClientKeepsTalk ==
  ASSUME NetTypes, SrvTypes, Hands, Framed, NEW c \in Clients, ClientSteps(c), Asks(c) \/ Gets(c) \/ Moves(c),
         NEW d \in Clients, Talk(d)
  PROVE  Talk(d)'
<1>1. (InHand(d)' <=> InHand(d)) /\ (InHand(d) => srv' = srv)
  <2>1. CASE srv' = srv
    BY <2>1 DEF InHand
  <2>2. CASE srv.pc = "start" /\ srv' = [srv EXCEPT !.pc = "loop"]
    <3>1. srv'.pc = "loop"
      BY <2>2 DEF SrvTypes, ServerRecord
    <3> QED
      BY <2>2, <3>1 DEF InHand, Answering
  <2> QED
    BY <2>1, <2>2 DEF ClientSteps
<1>2. CASE d = c
  BY <1>1, <1>2, AsksTalk, GetsTalk, MovesTalk
<1>3. CASE d # c
  <2>1. cli'[d] = cli[d] /\ conn'[d] = conn[d] /\ up'[d] = up[d] /\ down'[d] = down[d] /\ errmsg' = errmsg
    BY <1>3 DEF ClientSteps
  <2> QED
    BY <1>1, <2>1, TalkStays
<1> QED
  BY <1>2, <1>3

---------------------------------------------------------------------------
(* Nobody has asked for anything and the server is not there.              *)
LEMMA OpenServerStarts == OpenInit => OpenServerInv
<1> SUFFICES ASSUME OpenInit PROVE OpenServerInv
  OBVIOUS
<1> DEFINE m == [pc |-> "idle", n |-> 0, kind |-> "ok", texts |-> {}, res |-> "none", of |-> NoClient,
                 split |-> FALSE, mid |-> FALSE]
<1>1. m \in Client /\ \A c \in Clients : cli[c] = m
  BY DEF OpenInit, Client, Who
<1>2. /\ srv = [pc |-> "start", rset |-> {}, i |-> 1, maxi |-> 0, req |-> NoClient, told |-> TRUE, over |-> FALSE]
      /\ name = [c \in Clients |-> "none"] /\ backlog = <<>> /\ conn = [c \in Clients |-> "none"]
      /\ up = [c \in Clients |-> <<>>] /\ down = [c \in Clients |-> <<>>]
      /\ table = <<>> /\ allset = {} /\ revents = <<>> /\ errmsg = Empty
  BY DEF OpenInit
<1>3. NetTypes
  <2>1. version \in {"select", "poll", "fe"} /\ cli \in [Clients -> Client]
    BY <1>1, OpenAssumption DEF OpenInit
  <2>2. up \in [Clients -> Seq(Piece)] /\ down \in [Clients -> Seq(Message)] /\ backlog \in Seq(Clients)
    BY <1>2
  <2> QED
    BY <1>2, <2>1, <2>2 DEF NetTypes
<1>4. SrvTypes
  <2>1. srv \in ServerRecord
    BY <1>2 DEF ServerRecord, SrvPcs, Overs
  <2>2. errmsg \in [of : Who, len : Nat]
    BY <1>2 DEF Empty, Who
  <2> QED
    BY <1>2, <2>1, <2>2 DEF SrvTypes
<1>5. Queue
  BY <1>1, <1>2 DEF Queue
<1>6. Table
  <2>1. \A i \in 1 .. Len(table) : FALSE
    BY <1>2
  <2> QED
    BY <1>2, <2>1 DEF Table, Entered
<1>7. Polled /\ Hands /\ Framed /\ Texts /\ DiesOfClients
  BY <1>2 DEF Polled, Hands, Framed, Texts, DiesOfClients, Answering
<1>8. ASSUME NEW c \in Clients PROVE Talk(c)
  <2>1. AtRest(c)
    BY <1>2 DEF AtRest, InHand, Answering
  <2>2. m.pc = "idle" /\ m.n = 0 /\ m.res = "none"
    OBVIOUS
  <2> HIDE DEF m
  <2> QED
    BY <1>1, <2>1, <2>2 DEF Talk
<1> QED
  BY <1>3, <1>4, <1>5, <1>6, <1>7, <1>8 DEF OpenServerInv

(* Every step keeps the invariant, part by part.                           *)
LEMMA OpenServerStep == OpenServerInv /\ [OpenNext]_openvars => OpenServerInv'
<1> SUFFICES ASSUME OpenServerInv, [OpenNext]_openvars PROVE OpenServerInv'
  OBVIOUS
<1>1. /\ NetTypes /\ SrvTypes /\ Queue /\ Table /\ Polled /\ Hands /\ Framed /\ Texts /\ DiesOfClients
      /\ \A c \in Clients : Talk(c)
  BY DEF OpenServerInv
<1>2. CASE UNCHANGED openvars
  <2>1. /\ UNCHANGED <<version, cli, name, backlog, conn, up, down>>
        /\ UNCHANGED <<srv, table, allset, revents, errmsg>>
    BY <1>2, NetSame, SrvSame DEF openvars
  <2>2. NetTypes' /\ SrvTypes' /\ Queue'
    BY <1>1, <2>1 DEF NetTypes, SrvTypes, Queue
  <2>3. Table'
    BY <1>1, <2>1 DEF Table, Entered
  <2>4. Polled' /\ Hands' /\ Framed' /\ Texts' /\ DiesOfClients'
    BY <1>1, <2>1 DEF Polled, Hands, Framed, Texts, DiesOfClients, Left
  <2>5. ASSUME NEW c \in Clients PROVE Talk(c)'
    <3>1. InHand(c)' <=> InHand(c)
      BY <2>1 DEF InHand
    <3> QED
      BY <1>1, <2>1, <3>1, TalkStays
  <2> QED
    BY <2>2, <2>3, <2>4, <2>5 DEF OpenServerInv
<1>3. CASE ServerDoes
  <2>1. NetTypes' /\ SrvTypes' /\ Queue' /\ Table'
    BY <1>1, <1>3, ServerKeepsTypes, ServerKeepsQueue, ServerKeepsTable
  <2>2. Polled' /\ Hands' /\ Framed' /\ Texts' /\ DiesOfClients'
    BY <1>1, <1>3, ServerKeepsPolled, ServerKeepsHands, ServerKeepsFramed, ServerKeepsTexts, ServerKeepsDies
  <2>3. ASSUME NEW d \in Clients PROVE Talk(d)'
    BY <1>1, <1>3, ServerKeepsTalk
  <2> QED
    BY <2>1, <2>2, <2>3 DEF OpenServerInv
<1>4. ASSUME NEW c \in Clients,
             \/ Bind(c) \/ NameAges(c) \/ Connect(c) \/ Spawn(c) \/ Recv(c) \/ Exit(c) \/ Leave(c)
             \/ \E k \in Kinds : Send(c, k)
      PROVE  OpenServerInv'
  <2>1. ClientSteps(c) /\ (Asks(c) \/ Gets(c) \/ Moves(c))
    BY <1>1, <1>4, ClientDoes
  <2>2. NetTypes' /\ SrvTypes'
    BY <1>1, <1>4, ClientKeepsTypes
  <2>3. Queue'
    BY <1>1, <1>4, ClientKeepsQueue
  <2>4. Table' /\ Polled' /\ Hands' /\ Framed' /\ DiesOfClients'
    BY <1>1, <2>1, ClientKeepsTable, ClientKeepsPolled, ClientKeepsHands, ClientKeepsFramed, ClientKeepsDies
  <2>5. Texts'
    BY <1>1, <2>1 DEF ClientSteps, Texts
  <2>6. ASSUME NEW d \in Clients PROVE Talk(d)'
    BY <1>1, <2>1, ClientKeepsTalk
  <2> QED
    BY <2>2, <2>3, <2>4, <2>5, <2>6 DEF OpenServerInv
<1> QED
  BY <1>1, <1>2, <1>3, <1>4, EachStep

(* The invariant holds in every state, for any number of clients and       *)
(* requests, any QLEN, NALLOC and MAXLINE, whatever malloc leaves in       *)
(* revents and with both faults.                                           *)
THEOREM OpenServerInvariant == OpenSpec => []OpenServerInv
<1>1. OpenInit => OpenServerInv
  BY OpenServerStarts
<1>2. OpenServerInv /\ [OpenNext]_openvars => OpenServerInv'
  BY OpenServerStep
<1> QED
  BY <1>1, <1>2, PTL DEF OpenSpec

(* Between two passes the invariant says what TableAgrees says.            *)
LEMMA TableMeans == OpenServerInv => TableAgrees
<1> SUFFICES ASSUME OpenServerInv, srv.pc = "loop", version # "fe"
             PROVE  LET inTable == {table[i] : i \in DOMAIN table} \ {NoClient, Listener} IN
                    /\ inTable = {c \in Clients : conn[c] = "open"}
                    /\ version = "select" => allset = inTable \cup {Listener}
                    /\ \A i \in DOMAIN table : table[i] # NoClient =>
                         /\ i <= srv.maxi
                         /\ \A j \in DOMAIN table : table[j] = table[i] => j = i
  BY DEF TableAgrees
<1> DEFINE inTable == {table[i] : i \in DOMAIN table} \ {NoClient, Listener}
<1>1. /\ table \in Seq(Clients \cup {NoClient, Listener}) /\ DOMAIN table = 1 .. Len(table)
      /\ \A i \in 1 .. Len(table) : table[i] \in Clients \cup {NoClient, Listener}
      /\ NoClient \notin Clients /\ Listener \notin Clients
  BY OpenAssumption DEF OpenServerInv, SrvTypes
<1>2. /\ \A i, j \in 1 .. Len(table) : table[i] = table[j] /\ table[i] # NoClient => i = j
      /\ \A i \in 1 .. Len(table) : table[i] # NoClient => i <= srv.maxi
      /\ \A c \in Clients : conn[c] = "open" <=> Entered(c)
      /\ version = "select" => allset = {c \in Clients : conn[c] = "open"} \cup {Listener}
  BY DEF OpenServerInv, Table
<1>3. inTable = {c \in Clients : conn[c] = "open"}
  BY <1>1, <1>2 DEF Entered
<1> QED
  BY <1>1, <1>2, <1>3

(* Between two passes client[], allset and the open connections agree, no  *)
(* client has two entries and none is beyond maxi: client_add and          *)
(* client_del of client.c with both loops.                                 *)
THEOREM TableStaysTrue == OpenSpec => []TableAgrees
BY OpenServerInvariant, TableMeans, PTL

(* The daemon ends only of a stale name, of a client gone in the middle of *)
(* a request or after a long one (log_sys and SIGPIPE of both loops), or   *)
(* of a text that errmsg has no room for (request.c); the child only after *)
(* its client, or of such a text.                                          *)
THEOREM DaemonOutlivesClients == OpenSpec => []DiesOfClients
<1>1. OpenServerInv => DiesOfClients
  BY DEF OpenServerInv
<1> QED
  BY <1>1, OpenServerInvariant, PTL

(* A client at rest has been answered.                                     *)
LEMMA TalkMeans == OpenServerInv => AnswersMatch
<1> SUFFICES ASSUME OpenServerInv, NEW c \in Clients
             PROVE  LET m == cli[c] IN
                    /\ (m.pc = "ready" /\ m.n > 0 /\ ~m.split /\ m.res # "closed") =>
                         /\ m.of = <<c, m.n>>
                         /\ m.res = IF m.kind = "ok" THEN "fd" ELSE "error"
                         /\ m.kind # "words" => m.texts \subseteq {<<c, m.n>>}
                         /\ m.kind = "absent" => m.texts # {}
                    /\ m.res = "dump" => m.split \/ m.kind \in {"edge", "words"}
  BY DEF AnswersMatch
<1>1. Talk(c)
  BY DEF OpenServerInv
<1> QED
  BY <1>1 DEF Talk, Answered

(* What recv_fd returns to csopen is the answer to this request: the       *)
(* descriptor of the file it named, or a text about it and an error; it    *)
(* dumps only for the kinds named there.                                   *)
THEOREM AnswersAreMine == OpenSpec => []AnswersMatch
BY OpenServerInvariant, TalkMeans, PTL

(* The server closes the connection of a client that is there, and goes    *)
(* on.                                                                     *)
Dropped(c) == conn[c] = "open" /\ conn'[c] = "closed" /\ srv'.pc # "dead" /\ ~Left(c)

(* It does so only where poll spoke of memory nobody wrote.                *)
LEMMA DropIsOfNewcomer ==
  ASSUME OpenServerInv, [OpenNext]_openvars, NEW c \in Clients, Dropped(c)
  PROVE  ~srv.told
<1>1. /\ NetTypes /\ SrvTypes /\ Queue /\ Table /\ Polled /\ Hands /\ Framed
      /\ srv \in ServerRecord
  BY DEF OpenServerInv, SrvTypes
<1>2. CASE UNCHANGED openvars
  <2>1. conn' = conn
    BY <1>2, NetSame DEF openvars
  <2> QED
    BY <2>1 DEF Dropped
<1>3. CASE ServerDoes
  <2>1. CASE ListenSelect \/ ListenPoll \/ Select \/ Poll \/ PassEnds
    <3>1. conn' = conn
      BY <2>1, NetSame DEF ListenSelect, ListenPoll, Select, Poll, PassEnds
    <3> QED
      BY <3>1 DEF Dropped
  <2>2. CASE AcceptSelect \/ AcceptPoll
    <3>1. conn' = [conn EXCEPT ![Head(backlog)] = "open"]
      BY <2>2 DEF AcceptSelect, AcceptPoll, ServAccept
    <3> QED
      BY <1>1, <3>1 DEF Dropped, NetTypes
  <2>3. ASSUME NEW d \in Clients, Drops(d) PROVE ~srv.told
    <3>1. conn' = [conn EXCEPT ![d] = "closed"]
      BY <2>3 DEF Drops, Drop
    <3>2. d = c
      BY <1>1, <3>1 DEF Dropped, NetTypes
    <3>3. ~Left(d)
      BY <3>2 DEF Dropped
    <3>4. PICK i \in 1 .. srv.maxi : i \in 1 .. Len(table) /\ table[i] = d /\ "hup" \in revents[i]
      BY <2>3, <3>3 DEF Drops
    <3>5. version = "poll" /\ srv.pc = "scan" /\ table[i] # NoClient
      BY <2>3, <3>3, <3>4, OpenAssumption DEF Drops
    <3> QED
      BY <1>1, <3>3, <3>4, <3>5 DEF Polled
  <2>4. ASSUME NEW d \in Clients, TakesRequest(d) \/ Delivers(d) PROVE ~srv.told
    BY <2>4 DEF TakesRequest, Delivers, Dropped
  <2>5. ASSUME NEW d \in Clients, DiesOf(d) PROVE ~srv.told
    <3>1. srv'.pc = "dead"
      BY <1>1, <2>5 DEF DiesOf, Die, ServerRecord
    <3> QED
      BY <3>1 DEF Dropped
  <2> QED
    BY <1>3, <2>1, <2>2, <2>3, <2>4, <2>5 DEF ServerDoes
<1>4. ASSUME NEW d \in Clients,
             \/ Bind(d) \/ NameAges(d) \/ Connect(d) \/ Spawn(d) \/ Recv(d) \/ Exit(d) \/ Leave(d)
             \/ \E k \in Kinds : Send(d, k)
      PROVE  ~srv.told
  <2>1. ClientSteps(d)
    BY <1>1, <1>4, ClientStepIs
  <2>2. conn'[c] = conn[c] \/ conn[d] = "none"
    BY <2>1 DEF ClientSteps
  <2>3. conn'[c] = conn[c] \/ c = d
    BY <2>1 DEF ClientSteps
  <2> QED
    BY <2>2, <2>3 DEF Dropped
<1> QED
  BY <1>1, <1>2, <1>3, <1>4, EachStep

(* A client that is there is dropped only in the pass of the poll loop     *)
(* that accepted it (loop.poll.c), by a revents that malloc left: in no    *)
(* other pass and by no other program.                                     *)
THEOREM OnlyNewcomersAreDropped == OpenSpec => DropsNewcomersOnly
<1>1. ASSUME OpenServerInv, [OpenNext]_openvars
      PROVE  [\A c \in Clients :
                 (conn[c] = "open" /\ conn'[c] = "closed" /\ srv'.pc # "dead" /\ ~Left(c)) => ~srv.told]_openvars
  BY <1>1, DropIsOfNewcomer DEF Dropped
<1> QED
  BY <1>1, OpenServerInvariant, PTL DEF OpenSpec, DropsNewcomersOnly
=============================================================================
