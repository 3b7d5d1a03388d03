---------------------------- MODULE DbListProofs ----------------------------
(***************************************************************************)
(* The lists of the index file stay what they are, for any number of       *)
(* processes, keys, chains and calls.                                      *)
(***************************************************************************)
EXTENDS DbProofs, FiniteSetTheorems

-----------------------------------------------------------------------------
(* The index file as functions of the offset: where the place at o points, *)
(* the key of the record at o, the place of its data, and the data.        *)
next  == [o \in Nat |-> ReadPtr(o)]
keyof == [o \in Nat |-> Rec(o).key]
offof == [o \in Nat |-> Rec(o).datoff]
valof == [o \in Nat |-> Value(o)]
(* The chains as a walker follows them.                                    *)
chain == [o \in Nat |-> ChainNext(o)]

(* A linked list: the places P, of which h holds the first pointer, have   *)
(* ranks rk, each its own, h the highest; each place points to the one of  *)
(* the next lower rank, the lowest to 0.  A record that comes to the front *)
(* gets a rank of its own; one that is taken out leaves the others theirs. *)
Follows(v, b, P, rk) ==
  \/ v = 0 /\ \A x \in P : rk[x] >= b
  \/ v \in P /\ rk[v] < b /\ \A x \in P : rk[x] < b => rk[x] <= rk[v]
Linked(P, h, rk, nx) ==
  /\ P \subseteq Nat /\ h \in P /\ rk \in [Nat -> Nat]
  /\ \A x \in P : x # h => x # 0 /\ rk[x] < rk[h]
  /\ \A x, y \in P : rk[x] = rk[y] => x = y
  /\ \A x \in P : Follows(nx[x], rk[x], P, rk)

Heads == 0 .. NHash

(* The lists of the index file: L[0] are the places of the free list, L[c] *)
(* those of chain c, R their ranks.                                        *)
Lists(L, R) ==
  /\ L \in [Heads -> SUBSET Nat] /\ R \in [Heads -> [Nat -> Nat]]
  /\ \A l \in Heads : L[l] \subseteq {l} \cup AllRecs
  /\ \A l \in Heads : \A o \in L[l] : o # l => o <= PtrMax
  /\ Linked(L[0], 0, R[0], next)
  /\ \A c \in Chains : Linked(L[c], c, R[c], chain)
  /\ \A c, d \in Chains : c # d => L[c] \cap L[d] = {}
  /\ \A c \in Chains : \A o \in L[c] \cap L[0] :
       \E p \in Procs : pc[p] = "del.unlink" /\ db[p].idxoff = o

(* A record that is on its chain although it has been erased.              *)
Dying(o) == \E p \in Procs : Deleting(p) /\ db[p].idxoff = o

(* What is in the lists.                                                   *)
Contents(L) ==
  /\ \A o \in L[0] \ {0} : keyof[o] = Blank /\ valof[o] = Blank
  /\ \A c \in Chains : \A o \in L[c] \ {c} : ~Dying(o) =>
       keyof[o] \in Keys /\ Hash[keyof[o]] = c
  /\ \A c \in Chains : \A o, s \in L[c] \ {c} :
       keyof[o] = keyof[s] /\ keyof[o] \in Keys => o = s
  /\ \A o, s \in AllRecs : offof[o] = offof[s] => o = s

(* Where a process stands that works on the chain of its key.              *)
Keyed(p) == InChain(p) =>
  call[p].key \in Keys /\ db[p].chainoff = Hash[call[p].key]
Walks(p, L, R) ==
  LET h == db[p]  c == db[p].chainoff IN
  /\ pc[p] = "find.head" => h.ptroff = c
  /\ pc[p] = "find.rec" =>
       /\ h.offset \in L[c] \ {c} /\ h.ptroff \in L[c] /\ next[h.ptroff] = h.offset
       /\ \A o \in L[c] \ {c} : R[c][o] > R[c][h.offset] => keyof[o] # call[p].key
Finds(p, L) ==
  pc[p] \in {"fetch.dat", "del.lock", "del.dat", "del.free", "del.idx", "rep.dat"} =>
    /\ db[p].idxoff \in L[db[p].chainoff] \ {db[p].chainoff}
    /\ keyof[db[p].idxoff] = call[p].key /\ db[p].datoff = offof[db[p].idxoff]
Unlinks(p, L) ==
  LET h == db[p] IN
  /\ pc[p] \in OfDelete \ {"del.unlock"} =>
       /\ h.idxoff \in L[h.chainoff] \ {h.chainoff} /\ h.ptroff \in L[h.chainoff]
       /\ next[h.ptroff] = h.idxoff
  /\ pc[p] \in {"del.lock", "del.dat", "del.free"} => h.ptrval = next[h.idxoff]
  /\ pc[p] = "del.idx" => h.saveptr = next[h.idxoff] /\ h.ptrval = next[0]
  /\ pc[p] \in {"del.free", "del.idx", "del.sethead"} => valof[h.idxoff] = Blank
  /\ pc[p] = "del.sethead" =>
       /\ h.idxoff \notin L[0] /\ keyof[h.idxoff] = Blank
       /\ next[h.idxoff] = next[0]
  /\ pc[p] = "del.unlink" => h.idxoff \in L[0]

(* No record on the chain has the key that is to be stored or was deleted. *)
Missed(p, L) ==
  pc[p] \in {"del.sethead", "del.unlink", "del.unlock"} \cup (OfStore \ {"rep.dat"}) =>
    \A o \in L[db[p].chainoff] \ {db[p].chainoff} : keyof[o] # call[p].key
(* The first pointer of the chain is still the one that was saved.         *)
Saved(p) ==
  pc[p] \in OfStore \ {"ins.head", "rep.dat", "app.reread"} => db[p].saveptr = next[db[p].chainoff]
Searches(p, L) ==
  LET h == db[p] IN
  /\ pc[p] \in {"ff.rec", "ff.take"} =>
       h.offset \in L[0] \ {0} /\ h.ptroff \in L[0] /\ next[h.ptroff] = h.offset
  /\ pc[p] = "ff.take" => h.idxoff = h.offset /\ h.ptrval = next[h.offset]

(* A record in the hands of a process is on no list; a process that has    *)
(* appended data has it to itself.                                         *)
Holding(p) ==
  \/ pc[p] \in {"app.idxunlock", "link", "reuse.dat", "reuse.idx"}
  \/ pc[p] = "ff.unlock" /\ db[p].offset # 0
Holds(p, L) ==
  LET h == db[p] IN
  /\ Holding(p) => h.idxoff \in AllRecs /\ \A l \in Heads : h.idxoff \notin L[l]
  /\ \/ pc[p] \in {"ff.take", "reuse.dat", "reuse.idx"}
     \/ pc[p] = "ff.unlock" /\ h.offset # 0
     => h.datoff = offof[h.idxoff]
  /\ pc[p] \in {"app.idxunlock", "link"} =>
       keyof[h.idxoff] = call[p].key /\ next[h.idxoff] = h.saveptr
Appending(p) == pc[p] \in {"app.datunlock", "app.idxlock", "app.idx"}
Fresh(p) == Appending(p) => \A o \in AllRecs : offof[o] # db[p].datoff

Doing(p, L, R) ==
  /\ Keyed(p) /\ Walks(p, L, R) /\ Finds(p, L) /\ Unlinks(p, L) /\ Missed(p, L)
  /\ Saved(p) /\ Searches(p, L) /\ Holds(p, L) /\ Fresh(p)

(* Two processes do not hold the same.                                     *)
Apart == \A p, q \in Procs : p # q =>
  /\ Holding(p) /\ Holding(q) => db[p].idxoff # db[q].idxoff
  /\ Appending(p) /\ Appending(q) => db[p].datoff # db[q].datoff

(* Every record is on a list or held, unless a process died that held one, *)
(* or the file has outgrown the pointers.                                  *)
HoldersLive ==
  Mortal \cap {"ff.unlock", "reuse.dat", "reuse.idx", "app.idxunlock", "link"} = {}
Kept(L) ==
  HoldersLive /\ NHash + Len(idx) <= PtrMax =>
    \A o \in AllRecs : (\E l \in Heads : o \in L[l]) \/ (\E p \in Procs : Holding(p) /\ db[p].idxoff = o)

ListState(L, R) ==
  Lists(L, R) /\ Contents(L) /\ (\A p \in Procs : Doing(p, L, R)) /\ Apart /\ Kept(L)
ListInv == \E L, R : ListState(L, R)

-----------------------------------------------------------------------------
(* Lemmas about linked lists. *)

(* What a place points to. *)
LEMMA Successor ==
  ASSUME NEW P, NEW h, NEW rk, NEW nx, Linked(P, h, rk, nx), NEW x \in P
  PROVE  /\ nx[x] = 0 \/ (nx[x] \in P \ {h} /\ rk[nx[x]] < rk[x])
         /\ nx[x] = 0 => \A y \in P : rk[y] >= rk[x]
         /\ nx[x] # 0 => \A y \in P : rk[y] > rk[nx[x]] => y = x \/ rk[y] > rk[x]
         /\ nx[x] # x \/ x = 0
  <1>1. Follows(nx[x], rk[x], P, rk)
    BY DEF Linked
  <1>2. \A y \in P : rk[y] \in Nat /\ (y # h => rk[y] < rk[h])
    BY DEF Linked
  <1>3. \A y \in P : rk[y] = rk[x] => y = x
    BY DEF Linked
  <1>4. CASE nx[x] = 0 /\ \A y \in P : rk[y] >= rk[x]
    <2>1. nx[x] # 0 => FALSE
      BY <1>4
    <2> QED BY <1>4, <2>1
  <1>5. CASE nx[x] \in P /\ rk[nx[x]] < rk[x] /\ \A y \in P : rk[y] < rk[x] => rk[y] <= rk[nx[x]]
    <2>1. nx[x] # h /\ nx[x] # x
      BY <1>2, <1>5
    <2>2. nx[x] # 0
      BY <1>5, <2>1 DEF Linked
    <2> QED BY <1>2, <1>3, <1>5, <2>1, <2>2
  <1> QED BY <1>1, <1>4, <1>5 DEF Follows

(* No two places point to the same record. *)
LEMMA OnePredecessor ==
  ASSUME NEW P, NEW h, NEW rk, NEW nx, Linked(P, h, rk, nx), NEW x \in P, NEW y \in P,
         nx[x] = nx[y], nx[x] # 0
  PROVE  x = y
  <1>1. \A z \in P : rk[z] \in Nat
    BY DEF Linked
  <1>2. nx[x] \in P /\ rk[nx[x]] < rk[x] /\ rk[nx[x]] < rk[y]
    BY Successor
  <1>3. y = x \/ rk[y] > rk[x]
    BY <1>1, <1>2, Successor
  <1>4. x = y \/ rk[x] > rk[y]
    BY <1>1, <1>2, Successor
  <1> QED BY <1>1, <1>3, <1>4

(* The list does not change when its pointers do not. *)
LEMMA SamePointers ==
  ASSUME NEW P, NEW h, NEW rk, NEW nx, Linked(P, h, rk, nx), NEW nx2,
         \A x \in P : nx2[x] = nx[x]
  PROVE  Linked(P, h, rk, nx2)
  BY DEF Linked

(* A record put at the front of a list. *)
LEMMA PutInFront ==
  ASSUME NEW P, NEW h, NEW rk, NEW nx, Linked(P, h, rk, nx), NEW o \in Nat \ {0},
         o \notin P, NEW nx2, nx2[h] = o, nx2[o] = nx[h],
         \A x \in P : x # h => nx2[x] = nx[x]
  PROVE  \E rk2 : Linked(P \cup {o}, h, rk2, nx2)
  <1> DEFINE Q == P \cup {o}
             r == [rk EXCEPT ![o] = rk[h], ![h] = rk[h] + 1]
  <1>1. /\ P \subseteq Nat /\ h \in P /\ rk \in [Nat -> Nat] /\ h # o
        /\ \A x \in P : x # h => x # 0 /\ rk[x] < rk[h]
        /\ \A x, y \in P : rk[x] = rk[y] => x = y
    BY DEF Linked
  <1>2. /\ r \in [Nat -> Nat] /\ r[h] = rk[h] + 1 /\ r[o] = rk[h]
        /\ \A x \in P : x # h => r[x] = rk[x]
    BY <1>1
  <1>0. \A x \in P : rk[x] \in Nat
    BY <1>1
  <1> HIDE DEF r
  <1>3. /\ Q \subseteq Nat /\ h \in Q
        /\ \A x \in Q : x # h => x # 0 /\ r[x] < r[h]
    BY <1>0, <1>1, <1>2
  <1>4. \A x, y \in Q : r[x] = r[y] => x = y
    BY <1>0, <1>1, <1>2
  <1>5. \A x \in Q : r[x] \in Nat
    BY <1>2, <1>3
  <1>6. Follows(nx2[h], r[h], Q, r)
    <2>1. \A x \in Q : r[x] < r[h] => r[x] <= r[o]
      BY <1>0, <1>1, <1>2
    <2> QED BY <1>0, <1>1, <1>2, <2>1 DEF Follows
  <1>7. Follows(nx2[o], r[o], Q, r)
    <2>1. CASE nx[h] = 0
      <3>1. \A y \in P : rk[y] >= rk[h]
        BY <1>1, <2>1, Successor
      <3>2. \A y \in Q : r[y] >= r[o]
        BY <1>0, <1>1, <1>2, <3>1
      <3> QED BY <2>1, <3>2 DEF Follows
    <2>2. CASE nx[h] # 0
      <3>1. /\ nx[h] \in P \ {h} /\ rk[nx[h]] < rk[h]
            /\ \A y \in P : rk[y] > rk[nx[h]] => y = h \/ rk[y] > rk[h]
        BY <1>1, <2>2, Successor
      <3>2. nx[h] \in Q /\ r[nx[h]] < r[o]
        BY <1>0, <1>1, <1>2, <3>1
      <3>3. ASSUME NEW y \in P, r[y] < r[o] PROVE r[y] <= r[nx[h]]
        <4>0. y # h
          BY <1>0, <1>1, <1>2, <3>3
        <4>1. r[y] = rk[y] /\ r[nx[h]] = rk[nx[h]]
          BY <1>2, <3>1, <4>0
        <4>2. ~(rk[y] > rk[nx[h]])
          BY <1>0, <1>1, <1>2, <3>1, <3>3, <4>1
        <4> QED BY <1>0, <3>1, <4>1, <4>2
      <3>4. \A y \in Q : r[y] < r[o] => r[y] <= r[nx[h]]
        BY <1>0, <1>2, <3>3
      <3> QED BY <3>2, <3>4 DEF Follows
    <2> QED BY <2>1, <2>2
  <1>8. ASSUME NEW x \in P, x # h PROVE Follows(nx2[x], r[x], Q, r)
    <2>1. nx2[x] = nx[x] /\ r[x] = rk[x] /\ rk[x] < rk[h]
      BY <1>1, <1>2, <1>8
    <2>2. CASE nx[x] = 0
      <3>1. \A y \in P : rk[y] >= rk[x]
        BY <2>2, Successor
      <3>2. \A y \in Q : r[y] >= r[x]
        BY <1>0, <1>1, <1>2, <2>1, <3>1
      <3> QED BY <2>1, <2>2, <3>2 DEF Follows
    <2>3. CASE nx[x] # 0
      <3>1. /\ nx[x] \in P \ {h} /\ rk[nx[x]] < rk[x]
            /\ \A y \in P : rk[y] > rk[nx[x]] => y = x \/ rk[y] > rk[x]
        BY <2>3, Successor
      <3>2. nx[x] \in Q /\ r[nx[x]] < r[x] /\ r[nx[x]] = rk[nx[x]]
        BY <1>0, <1>1, <1>2, <2>1, <3>1
      <3>3. \A y \in P : y # h /\ r[y] < r[x] => r[y] <= r[nx[x]]
        BY <1>0, <1>2, <2>1, <3>1, <3>2
      <3>4. \A y \in Q : r[y] < r[x] => r[y] <= r[nx[x]]
        BY <1>0, <1>1, <1>2, <2>1, <3>3
      <3> QED BY <2>1, <3>2, <3>4 DEF Follows
    <2> QED BY <2>2, <2>3
  <1>9. Linked(Q, h, r, nx2)
    BY <1>2, <1>3, <1>4, <1>6, <1>7, <1>8 DEF Linked
  <1> QED BY <1>9

(* A record taken out of a list. *)
LEMMA TakeOut ==
  ASSUME NEW P, NEW h, NEW rk, NEW nx, Linked(P, h, rk, nx), NEW a \in P, NEW o,
         nx[a] = o, o # 0, NEW nx2, nx2[a] = nx[o],
         \A x \in P : x # a /\ x # o => nx2[x] = nx[x]
  PROVE  Linked(P \ {o}, h, rk, nx2)
  <1> DEFINE Q == P \ {o}
  <1>1. /\ P \subseteq Nat /\ h \in P /\ rk \in [Nat -> Nat]
        /\ \A x \in P : x # h => x # 0 /\ rk[x] < rk[h]
        /\ \A x, y \in P : rk[x] = rk[y] => x = y
    BY DEF Linked
  <1>0. \A x \in P : rk[x] \in Nat
    BY <1>1
  <1>2. o \in P \ {h} /\ rk[o] < rk[a] /\ a # o
    BY <1>0, Successor
  <1>3. \A y \in P : rk[y] > rk[o] => y = a \/ rk[y] > rk[a]
    BY Successor
  <1>4. ASSUME NEW x \in Q PROVE Follows(nx2[x], rk[x], Q, rk)
    <2>1. CASE x = a
      <3>1. CASE nx[o] = 0
        <4>1. \A y \in P : rk[y] >= rk[o]
          BY <1>2, <3>1, Successor
        <4>2. \A y \in Q : rk[y] > rk[o]
          BY <1>0, <1>1, <1>2, <4>1
        <4>3. \A y \in Q : rk[y] >= rk[x]
          BY <1>0, <1>3, <2>1, <4>2
        <4> QED BY <2>1, <3>1, <4>3 DEF Follows
      <3>2. CASE nx[o] # 0
        <4>1. /\ nx[o] \in P \ {h} /\ rk[nx[o]] < rk[o] /\ nx[o] # o
              /\ \A y \in P : rk[y] > rk[nx[o]] => y = o \/ rk[y] > rk[o]
          BY <1>0, <1>2, <3>2, Successor
        <4>2. nx[o] \in Q /\ rk[nx[o]] < rk[x]
          BY <1>0, <1>2, <2>1, <4>1
        <4>3. ASSUME NEW y \in Q, rk[y] < rk[x] PROVE rk[y] <= rk[nx[o]]
          <5>1. ~(rk[y] > rk[o])
            BY <1>0, <1>3, <2>1, <4>3
          <5>2. y # o
            OBVIOUS
          <5> QED BY <1>0, <4>1, <5>1, <5>2
        <4> QED BY <2>1, <4>2, <4>3 DEF Follows
      <3> QED BY <3>1, <3>2
    <2>2. CASE x # a
      <3>0. nx2[x] = nx[x]
        BY <2>2
      <3>1. nx[x] # o
        BY <2>2, OnePredecessor
      <3>2. CASE nx[x] = 0
        <4>1. \A y \in P : rk[y] >= rk[x]
          BY <3>2, Successor
        <4> QED BY <3>0, <3>2, <4>1 DEF Follows
      <3>3. CASE nx[x] # 0
        <4>1. /\ nx[x] \in P \ {h} /\ rk[nx[x]] < rk[x]
              /\ \A y \in P : rk[y] > rk[nx[x]] => y = x \/ rk[y] > rk[x]
          BY <3>3, Successor
        <4>2. \A y \in Q : rk[y] < rk[x] => rk[y] <= rk[nx[x]]
          BY <1>0, <4>1
        <4> QED BY <3>0, <3>1, <4>1, <4>2 DEF Follows
      <3> QED BY <3>2, <3>3
    <2> QED BY <2>1, <2>2
  <1>5. /\ Q \subseteq Nat /\ h \in Q
        /\ \A x \in Q : x # h => x # 0 /\ rk[x] < rk[h]
        /\ \A x, y \in Q : rk[x] = rk[y] => x = y
    BY <1>1, <1>2
  <1> QED BY <1>1, <1>4, <1>5 DEF Linked

(* Least numbers, and with them induction, as statements about sets. *)
LEMMA LeastNumber ==
  ASSUME NEW T \in SUBSET Nat, T # {}
  PROVE  \E n \in T : \A m \in T : n <= m
  <1> DEFINE Below(n) == 0 .. n - 1
             X == {Below(n) : n \in T}
  <1>1. X \subseteq FiniteSubsetsOf(Nat)
    <2>1. ASSUME NEW n \in T PROVE Below(n) \in FiniteSubsetsOf(Nat)
      BY FS_Interval DEF FiniteSubsetsOf
    <2> QED BY <2>1
  <1>2. PICK x \in X : \A y \in X : ~ (<<y, x>> \in StrictSubsetOrdering(Nat))
    <2>1. X # {}
      OBVIOUS
    <2>2. IsWellFoundedOn(StrictSubsetOrdering(Nat), FiniteSubsetsOf(Nat))
      BY FS_StrictSubsetOrderingWellFounded
    <2> HIDE DEF X
    <2> QED BY <1>1, <2>1, <2>2, WFMin
  <1>3. PICK n \in T : x = Below(n)
    OBVIOUS
  <1>4. ASSUME NEW m \in T, m < n PROVE FALSE
    <2>1. Below(m) \in X /\ Below(m) \subseteq x /\ Below(m) # x
      BY <1>3, <1>4
    <2>2. Below(m) \in SUBSET Nat /\ x \in SUBSET Nat
      BY <1>3
    <2>3. <<Below(m), x>> \in StrictSubsetOrdering(Nat)
      BY <2>1, <2>2 DEF StrictSubsetOrdering
    <2> QED BY <1>2, <2>1, <2>3
  <1> QED BY <1>4

(* Induction, for a set of numbers.                                        *)
LEMMA Induction ==
  ASSUME NEW T \in SUBSET Nat, 0 \in T, \A n \in T : n + 1 \in T
  PROVE  T = Nat
  <1> SUFFICES ASSUME Nat \ T # {} PROVE FALSE
    OBVIOUS
  <1>1. PICK n \in Nat \ T : \A m \in Nat \ T : n <= m
    BY LeastNumber
  <1>2. n # 0 /\ n - 1 \in Nat
    OBVIOUS
  <1>3. n - 1 \in T
    BY <1>1, <1>2
  <1> QED BY <1>2, <1>3

(* A function that is iterated from a. *)
Iterated(g, S, s, a, N) ==
  g \in [0 .. N -> S] /\ g[0] = a /\ \A i \in 1 .. N : g[i] = s[g[i - 1]]
LEMMA Iterates ==
  ASSUME NEW S, NEW s \in [S -> S], NEW a \in S, NEW N \in Nat
  PROVE  \E g : Iterated(g, S, s, a, N)
  <1> DEFINE G(n) == {g \in [0 .. n -> S] : g[0] = a /\ \A i \in 1 .. n : g[i] = s[g[i - 1]]}
             T == {n \in Nat : G(n) # {}}
  <1>1. 0 \in T
    <2>1. [i \in 0 .. 0 |-> a] \in G(0)
      OBVIOUS
    <2> QED BY <2>1
  <1>2. ASSUME NEW n \in T PROVE n + 1 \in T
    <2>1. PICK g \in [0 .. n -> S] : g[0] = a /\ \A i \in 1 .. n : g[i] = s[g[i - 1]]
      OBVIOUS
    <2> DEFINE f == [i \in 0 .. n + 1 |-> IF i = n + 1 THEN s[g[n]] ELSE g[i]]
    <2>2. f \in [0 .. n + 1 -> S] /\ f[0] = a /\ \A i \in 0 .. n : f[i] = g[i]
      BY <2>1
    <2>3. f[n + 1] = s[f[n]]
      BY <2>2
    <2>4. ASSUME NEW i \in 1 .. n + 1 PROVE f[i] = s[f[i - 1]]
      <3>1. CASE i = n + 1
        BY <2>3, <3>1
      <3>2. CASE i # n + 1
        <4>1. i \in 1 .. n /\ i \in 0 .. n /\ i - 1 \in 0 .. n
          BY <3>2
        <4> HIDE DEF f
        <4> QED BY <2>1, <2>2, <4>1
      <3> QED BY <3>1, <3>2
    <2>5. f \in G(n + 1) /\ n + 1 \in Nat
      <3> HIDE DEF f
      <3> QED BY <2>2, <2>4
    <2> QED BY <2>5
  <1>3. T = Nat
    <2> HIDE DEF T
    <2>1. T \in SUBSET Nat
      BY DEF T
    <2> QED BY <1>1, <1>2, <2>1, Induction
  <1>4. G(N) # {}
    BY <1>3
  <1> QED BY <1>4 DEF Iterated

(* Walking a list, one finds its records, and comes to its end. *)
Goes(w, h, nx, N) ==
  w[0] = nx[h] /\ \A i \in 1 .. N : w[i] = IF w[i - 1] = 0 THEN 0 ELSE nx[w[i - 1]]
Meets(w, P, h, N) == w[N] = 0 /\ {w[i] : i \in 0 .. N} \ {0} = P \ {h}
LEMMA WalkOfList ==
  ASSUME NEW P, NEW h, NEW rk, NEW nx, Linked(P, h, rk, nx), NEW N \in Nat,
         NEW S, IsFiniteSet(S), Cardinality(S) = N, P \ {h} \subseteq S,
         NEW w, Goes(w, h, nx, N)
  PROVE  Meets(w, P, h, N)
  <1> USE DEF Goes, Meets
  <1>0. /\ h \in P /\ \A x \in P : rk[x] \in Nat /\ (x # h => x # 0 /\ rk[x] < rk[h])
        /\ \A x, y \in P : rk[x] = rk[y] => x = y
    BY DEF Linked
  <1> DEFINE A(n) == w[n] = 0 \/ (w[n] \in P \ {h} /\ \A j \in 0 .. n : w[j] \in P \ {h} /\ rk[w[j]] >= rk[w[n]])
             B(n) == w[n] # 0 => \A j \in 0 .. n : j < n => rk[w[n]] < rk[w[j]]
             C(n) == \A o \in P \ {h} : (\E j \in 0 .. n : w[j] = o) \/ (w[n] # 0 /\ rk[o] < rk[w[n]])
             T == {n \in Nat : n \in 0 .. N => A(n) /\ B(n) /\ C(n)}
  <1>1. 0 \in T
    <2>1. w[0] = 0 \/ w[0] \in P \ {h}
      BY <1>0, Successor
    <2>2. ASSUME NEW o \in P \ {h}, w[0] # o PROVE w[0] # 0 /\ rk[o] < rk[w[0]]
      <3>1. w[0] # 0
        BY <1>0, <2>2, Successor
      <3>2. ~(rk[o] > rk[w[0]])
        BY <1>0, <3>1, Successor
      <3>3. rk[o] # rk[w[0]] /\ rk[o] \in Nat /\ rk[w[0]] \in Nat
        BY <1>0, <2>1, <2>2, <3>1
      <3> QED BY <3>1, <3>2, <3>3
    <2>3. A(0)
      BY <1>0, <2>1
    <2>4. B(0)
      OBVIOUS
    <2>5. C(0)
      BY <2>2
    <2> QED BY <2>3, <2>4, <2>5
  <1>2. ASSUME NEW n \in T PROVE n + 1 \in T
    <2> SUFFICES ASSUME n + 1 \in 0 .. N PROVE A(n + 1) /\ B(n + 1) /\ C(n + 1)
      OBVIOUS
    <2>1. n \in 0 .. N /\ n + 1 \in 1 .. N /\ n + 1 - 1 = n /\ n \in 0 .. n
      OBVIOUS
    <2>2. A(n) /\ B(n) /\ C(n)
      BY <2>1
    <2>3. w[n + 1] = IF w[n] = 0 THEN 0 ELSE nx[w[n]]
      BY <2>1
    <2>4. CASE w[n] = 0
      BY <2>1, <2>2, <2>3, <2>4
    <2>5. CASE w[n] # 0
      <3> DEFINE x == w[n]
                 y == w[n + 1]
      <3>1. x \in P \ {h} /\ y = nx[x] /\ \A j \in 0 .. n : w[j] \in P \ {h} /\ rk[w[j]] >= rk[x]
        BY <2>2, <2>3, <2>5
      <3>2. /\ y = 0 \/ (y \in P \ {h} /\ rk[y] < rk[x])
            /\ y = 0 => \A z \in P : rk[z] >= rk[x]
            /\ y # 0 => \A z \in P : rk[z] > rk[y] => z = x \/ rk[z] > rk[x]
        BY <3>1, Successor
      <3>3. \A j \in 0 .. n + 1 : j = n + 1 \/ j \in 0 .. n
        BY <2>1
      <3> HIDE DEF x
      <3>4. y # 0 => \A j \in 0 .. n : rk[y] < rk[w[j]]
        BY <1>0, <3>1, <3>2
      <3>5. A(n + 1)
        BY <1>0, <3>1, <3>2, <3>3, <3>4
      <3>6. B(n + 1)
        BY <3>3, <3>4
      <3>7. ASSUME NEW o \in P \ {h}, \A j \in 0 .. n + 1 : w[j] # o
            PROVE  y # 0 /\ rk[o] < rk[y]
        <4>1. rk[o] < rk[x] /\ o # x
          <5>1. \A j \in 0 .. n : w[j] # o
            BY <2>1, <3>7
          <5> QED BY <2>1, <2>2, <5>1 DEF x
        <4>2. y # 0
          BY <1>0, <3>1, <3>2, <4>1
        <4>3. ~(rk[o] > rk[y])
          BY <1>0, <3>1, <3>2, <4>1, <4>2
        <4>4. rk[o] # rk[y] /\ rk[o] \in Nat /\ rk[y] \in Nat
          <5>1. y # o
            BY <2>1, <3>7
          <5> QED BY <1>0, <3>2, <4>2, <5>1
        <4> QED BY <4>2, <4>3, <4>4
      <3> QED BY <3>5, <3>6, <3>7
    <2> QED BY <2>4, <2>5
  <1>3. N \in T
    <2>1. T \in SUBSET Nat
      OBVIOUS
    <2> HIDE DEF T
    <2> QED BY <1>1, <1>2, <2>1, Induction
  <1>4. A(N) /\ B(N) /\ C(N)
    BY <1>3
  <1>5. ASSUME w[N] # 0 PROVE FALSE
    <2>1. \A n \in 0 .. N : w[n] # 0
      <3> DEFINE Z == {n \in Nat : n \in 0 .. N => w[N - n] # 0}
      <3>1. 0 \in Z
        BY <1>5
      <3>2. ASSUME NEW n \in Z PROVE n + 1 \in Z
        <4> SUFFICES ASSUME n + 1 \in 0 .. N PROVE w[N - (n + 1)] # 0
          OBVIOUS
        <4>1. n \in 0 .. N /\ N - n \in 1 .. N /\ (N - n) - 1 = N - (n + 1)
          OBVIOUS
        <4> QED BY <4>1
      <3>3. Z \in SUBSET Nat
        OBVIOUS
      <3>4. Z = Nat
        <4> HIDE DEF Z
        <4> QED BY <3>1, <3>2, <3>3, Induction
      <3>5. ASSUME NEW n \in 0 .. N PROVE w[n] # 0
        <4>1. N - n \in Nat /\ N - n \in 0 .. N /\ N - (N - n) = n
          OBVIOUS
        <4>2. N - n \in Z
          BY <3>4, <4>1
        <4> HIDE DEF Z
        <4>3. w[N - (N - n)] # 0
          BY <4>1, <4>2 DEF Z
        <4> QED BY <4>1, <4>3
      <3> QED BY <3>5
    <2>2. \A n \in 0 .. N : A(n) /\ B(n)
      <3>1. T = Nat
        <4>1. T \in SUBSET Nat
          OBVIOUS
        <4> HIDE DEF T
        <4> QED BY <1>1, <1>2, <4>1, Induction
      <3> QED BY <3>1
    <2> DEFINE f == [n \in 0 .. N |-> w[n]]
    <2>3. \A n \in 0 .. N : w[n] \in P \ {h}
      BY <2>1, <2>2
    <2>4. ASSUME NEW i \in 0 .. N, NEW j \in 0 .. N, w[i] = w[j] PROVE i = j
      <3>1. rk[w[i]] \in Nat
        BY <1>0, <2>3
      <3>2. ~(i < j)
        <4>1. i < j => i \in 0 .. j /\ rk[w[j]] < rk[w[i]]
          BY <2>1, <2>2
        <4> QED BY <2>4, <3>1, <4>1
      <3>3. ~(j < i)
        <4>1. j < i => j \in 0 .. i /\ rk[w[i]] < rk[w[j]]
          BY <2>1, <2>2
        <4> QED BY <2>4, <3>1, <4>1
      <3> QED BY <3>2, <3>3
    <2>5. f \in Injection(0 .. N, S)
      BY <2>3, <2>4 DEF Injection, IsInjective
    <2>6. Cardinality(0 .. N) <= Cardinality(S)
      BY <2>5, FS_Injection
    <2>7. Cardinality(0 .. N) = N + 1
      BY FS_Interval
    <2> QED BY <2>6, <2>7
  <1>6. ASSUME NEW i \in 0 .. N, w[i] # 0 PROVE w[i] \in P \ {h}
    <2>1. T = Nat
      <3>1. T \in SUBSET Nat
        OBVIOUS
      <3> HIDE DEF T
      <3> QED BY <1>1, <1>2, <3>1, Induction
    <2>2. A(i)
      BY <2>1
    <2> QED BY <1>6, <2>2
  <1>7. ASSUME NEW o \in P \ {h} PROVE \E i \in 0 .. N : w[i] = o
    BY <1>4, <1>5
  <1>8. {w[i] : i \in 0 .. N} \ {0} \subseteq P \ {h}
    BY <1>6
  <1>9. P \ {h} \subseteq {w[i] : i \in 0 .. N} \ {0}
    BY <1>0, <1>7
  <1> QED BY <1>5, <1>8, <1>9

-----------------------------------------------------------------------------
(* What the system calls that write do to the files. *)

Places == 0 .. NHash + Len(idx)
SameLists == \A x \in Places : next'[x] = next[x]
SameKeys  == \A x \in AllRecs : keyof'[x] = keyof[x]
SameOffs  == \A x \in AllRecs : offof'[x] = offof[x]
SameVals  == \A x \in AllRecs : valof'[x] = valof[x]

(* The numbers of the records. *)
LEMMA RecordNumbers ==
  ASSUME TypeInv
  PROVE  /\ Len(idx) \in Nat /\ Len(dat) \in Nat /\ NHash \in Nat \ {0}
         /\ Places \subseteq Nat /\ AllRecs \subseteq Places /\ Heads \subseteq Places
         /\ Chains \subseteq Heads /\ 0 \in Heads /\ 0 \notin Chains /\ 0 \notin AllRecs
         /\ \A o \in AllRecs : o \in Nat /\ o > NHash /\ o - NHash \in 1 .. Len(idx) /\ o \notin Heads
         /\ \A o \in Places : o \in Heads \/ o \in AllRecs
  <1>1. Len(idx) \in Nat /\ Len(dat) \in Nat /\ NHash \in Nat \ {0}
    BY DbAssumption DEF TypeInv, FilesOK
  <1> QED BY <1>1 DEF Places, AllRecs, Heads, Chains

(* What the files hold. *)
LEMMA FileValues ==
  ASSUME TypeInv
  PROVE  /\ \A o \in Places : next[o] = ReadPtr(o) /\ next[o] \in {0} \cup AllRecs
         /\ \A o \in AllRecs : /\ keyof[o] = Rec(o).key /\ keyof[o] \in Keys \cup {Blank}
                               /\ offof[o] = Rec(o).datoff /\ offof[o] \in 1 .. Len(dat)
                               /\ valof[o] = dat[offof[o]] /\ next[o] = Rec(o).ptr
  <1>1. ASSUME NEW o \in Places PROVE next[o] = ReadPtr(o) /\ next[o] \in {0} \cup AllRecs
    <2>1. next[o] = ReadPtr(o)
      BY <1>1, RecordNumbers DEF next
    <2>2. CASE o \in Heads
      <3>1. o <= NHash /\ o \in 0 .. NHash
        BY <2>2, RecordNumbers DEF Heads
      <3> QED BY <2>1, <3>1 DEF ReadPtr, TypeInv, FilesOK, Ptr, AllRecs
    <2>3. CASE o \in AllRecs
      <3>1. ~(o <= NHash) /\ o - NHash \in 1 .. Len(idx)
        BY <2>3, RecordNumbers
      <3> QED BY <2>1, <3>1 DEF ReadPtr, Rec, TypeInv, FilesOK, Ptr, AllRecs
    <2> QED BY <2>2, <2>3, RecordNumbers
  <1>2. ASSUME NEW o \in AllRecs
        PROVE  /\ keyof[o] = Rec(o).key /\ keyof[o] \in Keys \cup {Blank}
               /\ offof[o] = Rec(o).datoff /\ offof[o] \in 1 .. Len(dat)
               /\ valof[o] = dat[offof[o]] /\ next[o] = Rec(o).ptr
    <2>1. o \in Nat /\ ~(o <= NHash) /\ o - NHash \in 1 .. Len(idx)
      BY RecordNumbers
    <2>2. Rec(o) \in IdxRecs /\ Rec(o).datoff \in 1 .. Len(dat)
      BY <2>1 DEF Rec, TypeInv, FilesOK
    <2> QED BY <2>1, <2>2 DEF keyof, offof, valof, Value, next, ReadPtr, IdxRecs
  <1> QED BY <1>1, <1>2

(* Writing a pointer. *)
LEMMA SetPtrEffect ==
  ASSUME TypeInv, NEW o \in Places, NEW v \in Nat, SetPtr(o, v), dat' = dat
  PROVE  /\ Len(idx') = Len(idx) /\ SameKeys /\ SameOffs /\ SameVals
         /\ next'[o] = v /\ \A x \in Places : x # o => next'[x] = next[x]
  <1>0. /\ Len(idx) \in Nat /\ NHash \in Nat /\ Places \subseteq Nat
        /\ idx \in Seq(IdxRecs) /\ head \in [0 .. NHash -> Nat]
    BY RecordNumbers DEF TypeInv, FilesOK
  <1>1. CASE o <= NHash /\ head' = [head EXCEPT ![o] = v] /\ UNCHANGED idx
    <2>1. SameKeys /\ SameOffs /\ SameVals
      BY <1>1 DEF SameKeys, SameOffs, SameVals, keyof, offof, valof, Value, Rec
    <2>2. next'[o] = v
      BY <1>0, <1>1 DEF next, ReadPtr, Rec, Places
    <2>3. ASSUME NEW x \in Places, x # o PROVE next'[x] = next[x]
      BY <1>0, <1>1, <2>3 DEF next, ReadPtr, Rec, Places
    <2> QED BY <1>1, <2>1, <2>2, <2>3
  <1>2. CASE o > NHash /\ idx' = [idx EXCEPT ![o - NHash].ptr = v] /\ UNCHANGED head
    <2> DEFINE n == o - NHash
               r == [idx[n] EXCEPT !.ptr = v]
    <2>1. n \in 1 .. Len(idx) /\ idx[n] \in IdxRecs
      BY <1>0, <1>2 DEF Places
    <2>2. r.ptr = v /\ r.datoff = idx[n].datoff /\ r.key = idx[n].key
      BY <2>1, WithPtr DEF IdxRecs
    <2>3. idx' = [idx EXCEPT ![n] = r]
      BY <1>2
    <2>4. Len(idx') = Len(idx) /\ \A m \in 1 .. Len(idx) : idx'[m] = IF m = n THEN r ELSE idx[m]
      <3>1. r \in IdxRecs
        BY <2>1, WithPtr
      <3> HIDE DEF n, r
      <3> QED BY <1>0, <2>1, <2>3, <3>1, ExceptSeq
    <2> HIDE DEF r
    <2>5. ASSUME NEW x \in AllRecs
          PROVE  /\ idx'[x - NHash].key = idx[x - NHash].key
                 /\ idx'[x - NHash].datoff = idx[x - NHash].datoff
                 /\ idx'[x - NHash].ptr = IF x = o THEN v ELSE idx[x - NHash].ptr
      <3>1. x - NHash \in 1 .. Len(idx) /\ (x - NHash = n => x = o) /\ (x = o => x - NHash = n)
        BY <1>0 DEF AllRecs, Places
      <3>2. CASE x = o
        BY <2>1, <2>2, <2>4, <3>1, <3>2
      <3>3. CASE x # o
        BY <2>4, <3>1, <3>3
      <3> QED BY <3>2, <3>3
    <2>6. ASSUME NEW x \in AllRecs
          PROVE  keyof'[x] = keyof[x] /\ offof'[x] = offof[x] /\ valof'[x] = valof[x]
      <3>1. x \in Nat
        BY RecordNumbers
      <3> QED BY <2>5, <3>1 DEF keyof, offof, valof, Value, Rec
    <2>7. ASSUME NEW x \in Places PROVE next'[x] = IF x = o THEN v ELSE next[x]
      <3>1. CASE x \in AllRecs
        <4>1. x \in Nat /\ ~(x <= NHash)
          BY <3>1, RecordNumbers
        <4> QED BY <2>5, <3>1, <4>1 DEF next, ReadPtr, Rec
      <3>2. CASE x \in Heads
        <4>1. x \in Nat /\ x <= NHash /\ x # o
          BY <1>0, <1>2, <3>2 DEF Heads, Places
        <4> QED BY <1>2, <4>1 DEF next, ReadPtr
      <3> QED BY <3>1, <3>2, RecordNumbers
    <2> QED BY <2>4, <2>6, <2>7 DEF SameKeys, SameOffs, SameVals
  <1> QED BY <1>1, <1>2 DEF SetPtr

(* Overwriting an index record, but not the place of its data. *)
LEMMA SetRecEffect ==
  ASSUME TypeInv, NEW o \in AllRecs, NEW r \in IdxRecs, idx' = [idx EXCEPT ![o - NHash] = r],
         r.datoff = offof[o], head' = head, dat' = dat
  PROVE  /\ Len(idx') = Len(idx) /\ SameOffs /\ SameVals
         /\ next'[o] = r.ptr /\ \A x \in Places : x # o => next'[x] = next[x]
         /\ keyof'[o] = r.key /\ \A x \in AllRecs : x # o => keyof'[x] = keyof[x]
  <1>0. /\ Len(idx) \in Nat /\ NHash \in Nat /\ idx \in Seq(IdxRecs) /\ o - NHash \in 1 .. Len(idx)
    BY RecordNumbers DEF TypeInv, FilesOK
  <1> DEFINE n == o - NHash
  <1>1. Len(idx') = Len(idx) /\ \A m \in 1 .. Len(idx) : idx'[m] = IF m = n THEN r ELSE idx[m]
    <2> HIDE DEF n
    <2>1. n \in 1 .. Len(idx) /\ idx' = [idx EXCEPT ![n] = r]
      BY <1>0 DEF n
    <2> QED BY <1>0, <2>1, ExceptSeq
  <1>2. ASSUME NEW x \in AllRecs PROVE idx'[x - NHash] = IF x = o THEN r ELSE idx[x - NHash]
    <2>1. x - NHash \in 1 .. Len(idx) /\ (x - NHash = n => x = o) /\ (x = o => x - NHash = n)
      BY <1>0 DEF AllRecs
    <2> QED BY <1>1, <2>1
  <1>3. ASSUME NEW x \in AllRecs
        PROVE  /\ offof'[x] = offof[x] /\ valof'[x] = valof[x]
               /\ keyof'[x] = IF x = o THEN r.key ELSE keyof[x]
               /\ next'[x] = IF x = o THEN r.ptr ELSE next[x]
    <2>1. x \in Nat /\ ~(x <= NHash)
      BY RecordNumbers
    <2>2. offof'[x] = offof[x]
      BY <1>2, <2>1 DEF offof, Rec
    <2>3. valof'[x] = valof[x]
      BY <1>2, <2>1 DEF offof, valof, Value, Rec
    <2> QED BY <1>2, <2>1, <2>2, <2>3 DEF keyof, Rec, next, ReadPtr
  <1>4. ASSUME NEW x \in Heads PROVE next'[x] = next[x] /\ x # o
    <2>1. x \in Nat /\ x <= NHash /\ x # o
      BY RecordNumbers DEF Heads
    <2> QED BY <2>1 DEF next, ReadPtr
  <1> QED BY <1>1, <1>3, <1>4, RecordNumbers DEF SameOffs, SameVals

(* Overwriting a data record. *)
LEMMA SetDatEffect ==
  ASSUME TypeInv, NEW d \in 1 .. Len(dat), NEW v, dat' = [dat EXCEPT ![d] = v],
         idx' = idx, head' = head
  PROVE  /\ SameLists /\ SameKeys /\ SameOffs
         /\ \A x \in AllRecs : valof'[x] = IF offof[x] = d THEN v ELSE valof[x]
  <1>1. next' = next /\ keyof' = keyof /\ offof' = offof
    BY DEF next, ReadPtr, Rec, keyof, offof
  <1>2. ASSUME NEW x \in AllRecs PROVE valof'[x] = IF offof[x] = d THEN v ELSE valof[x]
    <2>1. /\ x \in Nat /\ offof[x] = Rec(x).datoff /\ offof[x] \in 1 .. Len(dat)
          /\ valof[x] = dat[offof[x]]
      BY RecordNumbers, FileValues
    <2>2. valof'[x] = dat'[offof[x]]
      BY <2>1 DEF valof, Value, Rec
    <2>3. dat \in Seq(Data \cup {Blank})
      BY DEF TypeInv, FilesOK
    <2> QED BY <2>1, <2>2, <2>3
  <1> QED BY <1>1, <1>2 DEF SameLists, SameKeys, SameOffs

(* Appending a data record. *)
LEMMA AppendDatEffect ==
  ASSUME TypeInv, NEW v \in Data, dat' = Append(dat, v), idx' = idx, head' = head
  PROVE  SameLists /\ SameKeys /\ SameOffs /\ SameVals /\ Len(dat') = Len(dat) + 1
  <1>1. next' = next /\ keyof' = keyof /\ offof' = offof
    BY DEF next, ReadPtr, Rec, keyof, offof
  <1>2. dat \in Seq(Data \cup {Blank}) /\ v \in Data \cup {Blank}
    BY DEF TypeInv, FilesOK
  <1>3. Len(dat') = Len(dat) + 1 /\ \A i \in 1 .. Len(dat) : dat'[i] = dat[i]
    BY <1>2, AppendProperties
  <1>4. ASSUME NEW x \in AllRecs PROVE valof'[x] = valof[x]
    <2>1. /\ x \in Nat /\ offof[x] = Rec(x).datoff /\ offof[x] \in 1 .. Len(dat)
          /\ valof[x] = dat[offof[x]]
      BY RecordNumbers, FileValues
    <2>2. valof'[x] = dat'[offof[x]]
      BY <2>1 DEF valof, Value, Rec
    <2> QED BY <1>3, <2>1, <2>2
  <1> QED BY <1>1, <1>3, <1>4 DEF SameLists, SameKeys, SameOffs, SameVals

(* Appending an index record. *)
LEMMA AppendRecEffect ==
  ASSUME TypeInv, NEW r \in IdxRecs, idx' = Append(idx, r), head' = head, dat' = dat
  PROVE  /\ SameLists /\ SameKeys /\ SameOffs /\ SameVals
         /\ Len(idx') = Len(idx) + 1 /\ AllRecs' = AllRecs \cup {Eof} /\ Eof \notin Places
         /\ Eof \in Nat \ {0} /\ Eof = NHash + Len(idx) + 1
         /\ next'[Eof] = r.ptr /\ keyof'[Eof] = r.key /\ offof'[Eof] = r.datoff
  <1>0. /\ Len(idx) \in Nat /\ NHash \in Nat \ {0} /\ idx \in Seq(IdxRecs)
    BY RecordNumbers DEF TypeInv, FilesOK
  <1>1. /\ Len(idx') = Len(idx) + 1 /\ \A i \in 1 .. Len(idx) : idx'[i] = idx[i]
        /\ idx'[Len(idx) + 1] = r
    BY <1>0, AppendProperties
  <1>2. Eof = NHash + Len(idx) + 1 /\ Eof \in Nat \ {0} /\ Eof \notin Places
    BY <1>0 DEF Eof, FIRST_REC, Places
  <1>3. AllRecs' = AllRecs \cup {Eof}
    BY <1>0, <1>1, <1>2 DEF AllRecs
  <1>4. ASSUME NEW x \in AllRecs
        PROVE  /\ next'[x] = next[x] /\ keyof'[x] = keyof[x]
               /\ offof'[x] = offof[x] /\ valof'[x] = valof[x]
    <2>1. x \in Nat /\ ~(x <= NHash) /\ x - NHash \in 1 .. Len(idx)
      BY RecordNumbers
    <2>2. idx'[x - NHash] = idx[x - NHash]
      BY <1>1, <2>1
    <2> QED BY <2>1, <2>2 DEF next, ReadPtr, Rec, keyof, offof, valof, Value
  <1>5. ASSUME NEW x \in Heads PROVE next'[x] = next[x]
    <2>1. x \in Nat /\ x <= NHash
      BY <1>0 DEF Heads
    <2> QED BY <2>1 DEF next, ReadPtr
  <1>6. next'[Eof] = r.ptr /\ keyof'[Eof] = r.key /\ offof'[Eof] = r.datoff
    <2>1. Eof \in Nat /\ ~(Eof <= NHash) /\ Eof - NHash = Len(idx) + 1
      BY <1>0, <1>2
    <2> DEFINE e == Eof
    <2>2. e \in Nat /\ ~(e <= NHash) /\ idx'[e - NHash] = r
      BY <1>1, <2>1
    <2> HIDE DEF e
    <2>3. next'[e] = r.ptr /\ keyof'[e] = r.key /\ offof'[e] = r.datoff
      BY <2>2 DEF next, ReadPtr, Rec, keyof, offof
    <2> QED BY <2>3 DEF e
  <1> QED BY <1>1, <1>2, <1>3, <1>4, <1>5, <1>6, RecordNumbers
      DEF SameLists, SameKeys, SameOffs, SameVals

-----------------------------------------------------------------------------
(* What a step of one process leaves to the others. *)

Stays(q) == pc'[q] = pc[q] /\ call'[q] = call[q] /\ db'[q] = db[q]
Moves(p, l, c, h) == pc'[p] = l /\ call'[p] = c /\ db'[p] = h
(* A step of any process. *)
Acts(p) == Begin(p) \/ DbRewind(p) \/ Run(p) \/ Killed(p)

(* The processes' places, calls and handles are functions.                 *)
LEMMA Functions3 ==
  ASSUME TypeInv
  PROVE  pc \in [Procs -> Labels] /\ call \in [Procs -> AllCalls \cup {None}] /\ db \in [Procs -> Handles]
  BY DEF TypeInv

(* The handle, the label and the call of the other processes. *)
LEMMA OthersStay ==
  ASSUME TypeInv, NEW p \in Procs, Acts(p), NEW q \in Procs, q # p
  PROVE  Stays(q)
  <1> USE Functions3 DEF Stays, Step, Goto, Handle
  <1>1. CASE Begin(p) \/ DbRewind(p)
    BY <1>1 DEF Begin, DbRewind
  <1>2. CASE Killed(p)
    BY <1>2 DEF Killed, Exit
  <1>3. CASE Return(p)
    BY <1>3 DEF Return
  <1>4. CASE Find(p)
    BY <1>4 DEF Find, FindLock, FindHead, FindRec, FetchDat, AfterHit, AfterMiss
  <1>5. CASE Delete(p)
    BY <1>5 DEF Delete, DelLock, DelDat, DelFree, DelIdx, DelSetHead, DelUnlink, DelUnlock, WritePtr, Exit
  <1>6. CASE FindFree(p)
    BY <1>6 DEF FindFree, InsHead, FindFreeLock, FindFreeHead, FindFreeRec, FindFreeTake, FindFreeUnlock, WritePtr, Exit
  <1>7. CASE Write(p)
    BY <1>7 DEF Write, ReuseDat, ReuseIdx, ReplaceDat, AppReread, AppDatLock, AppDat, AppDatUnlock,
                AppIdxLock, AppIdx, AppIdxUnlock, Link, WritePtr, Exit
  <1>8. CASE Scan(p)
    BY <1>8 DEF Scan, ScanLock, ScanEof, ScanSkip, ScanRec, ScanDump, ScanDat, ScanUnlock, Exit
  <1> QED BY <1>1, <1>2, <1>3, <1>4, <1>5, <1>6, <1>7, <1>8 DEF Acts, Run

(* A process that ends. *)
LEMMA ExitMoves ==
  ASSUME TypeInv, NEW p \in Procs, Exit(p)
  PROVE  Moves(p, "dead", None, Clear)
  BY Functions3 DEF Exit, Goto, Handle, Moves

(* The steps of one process, each by where it leads, and the files it      *)
(* leaves alone.                                                           *)
LEMMA FindMoves ==
  ASSUME TypeInv, NEW p \in Procs, Find(p)
  PROVE  /\ UNCHANGED files /\ pc[p] \in {"find.lock", "find.head", "find.rec", "fetch.dat"}
         /\ call'[p] = call[p]
         /\ pc'[p] \in {"find.head", "find.rec", "fetch.dat", "del.lock", "rep.dat", "unlock", "ins.head"}
  <1> USE Functions3 DEF Step, Goto, Handle, files
  <1>1. CASE FindLock(p) \/ FetchDat(p)
    BY <1>1 DEF FindLock, FetchDat
  <1>2. CASE FindHead(p)
    <2>1. UNCHANGED <<head, idx, dat, call>> /\ pc[p] = "find.head"
      BY <1>2 DEF FindHead
    <2>2. pc'[p] \in {"unlock", "ins.head", "find.rec"}
      BY <1>2, <2>1 DEF FindHead, AfterMiss
    <2> QED BY <2>1, <2>2
  <1>3. CASE FindRec(p)
    <2>1. UNCHANGED <<head, idx, dat, call>> /\ pc[p] = "find.rec"
      BY <1>3 DEF FindRec
    <2>2. pc'[p] \in {"find.rec", "fetch.dat", "del.lock", "rep.dat", "unlock", "ins.head"}
      BY <1>3, <2>1 DEF FindRec, AfterMiss, AfterHit
    <2> QED BY <2>1, <2>2
  <1> QED BY <1>1, <1>2, <1>3 DEF Find

-----------------------------------------------------------------------------
(* The sizes of the records. *)

klenof == [o \in Nat |-> Rec(o).klen]
dlenof == [o \in Nat |-> Rec(o).datlen]

(* A record found on a chain or on the free list has the size its handle   *)
(* says, and one taken from the free list the size of what is stored.      *)
Sized(p) ==
  LET h == db[p] IN
  /\ pc[p] \in {"del.lock", "del.dat", "del.free", "del.idx"} =>
       h.datoff = offof[h.idxoff] /\ h.datlen = dlenof[h.idxoff]
  /\ \/ pc[p] \in {"ff.take", "reuse.dat", "reuse.idx"}
     \/ pc[p] = "ff.unlock" /\ h.offset # 0
     => /\ h.datoff = offof[h.idxoff]
        /\ klenof[h.idxoff] = KeyLen[call[p].key] /\ dlenof[h.idxoff] = DatLen[call[p].data]
  /\ pc[p] = "reuse.idx" => h.datlen = DatLen[call[p].data]
KeysFit == \A o \in AllRecs : keyof[o] \in Keys => KeyLen[keyof[o]] = klenof[o]
SlotInv == KeysFit /\ \A p \in Procs : Sized(p)

SizesStay ==
  \A n \in 1 .. Len(idx) :
    /\ n \in 1 .. Len(idx')
    /\ idx'[n].klen = idx[n].klen
    /\ idx'[n].datoff = idx[n].datoff /\ idx'[n].datlen = idx[n].datlen
    /\ idx'[n].key \in Keys => KeyLen[idx'[n].key] = idx[n].klen

NewFits == \A n \in 1 .. Len(idx') \ 1 .. Len(idx) : KeyLen[idx'[n].key] = idx'[n].klen

(* The fields of a record, by its number.                                  *)
LEMMA FieldsOf ==
  ASSUME TypeInv, NEW n \in 1 .. Len(idx)
  PROVE  /\ NHash + n \in AllRecs /\ idx[n] \in IdxRecs
         /\ idx[n].key = keyof[NHash + n] /\ idx[n].klen = klenof[NHash + n]
         /\ idx[n].datoff = offof[NHash + n] /\ idx[n].datlen = dlenof[NHash + n]
  <1>1. NHash \in Nat /\ Len(idx) \in Nat /\ n \in Nat /\ NHash + n \in Nat /\ NHash + n - NHash = n
    BY RecordNumbers
  <1>2. NHash + n \in AllRecs
    BY <1>1 DEF AllRecs
  <1>3. Rec(NHash + n) = idx[n]
    BY <1>1 DEF Rec
  <1> QED BY <1>1, <1>2, <1>3 DEF keyof, klenof, offof, dlenof, TypeInv, FilesOK

(* Writing a pointer changes no size.                                      *)
LEMMA SetPtrSizes ==
  ASSUME TypeInv, SlotInv, NEW o \in Places, NEW v \in Nat, SetPtr(o, v)
  PROVE  SizesStay /\ NewFits
  <1>0. Len(idx) \in Nat /\ NHash \in Nat /\ idx \in Seq(IdxRecs)
    BY RecordNumbers DEF TypeInv, FilesOK
  <1>a. \A n \in 1 .. Len(idx) : idx[n].key \in Keys => KeyLen[idx[n].key] = idx[n].klen
    BY FieldsOf DEF SlotInv, KeysFit
  <1>1. CASE UNCHANGED idx
    BY <1>1, <1>a DEF SizesStay, NewFits
  <1>2. CASE o > NHash /\ idx' = [idx EXCEPT ![o - NHash].ptr = v]
    <2> DEFINE n == o - NHash
               r == [idx[n] EXCEPT !.ptr = v]
    <2>1. n \in 1 .. Len(idx) /\ idx[n] \in IdxRecs
      BY <1>0, <1>2 DEF Places
    <2>2. r.klen = idx[n].klen /\ r.datoff = idx[n].datoff /\ r.datlen = idx[n].datlen /\ r.key = idx[n].key
      BY <2>1 DEF IdxRecs
    <2>3. idx' = [idx EXCEPT ![n] = r] /\ r \in IdxRecs
      BY <1>2, <2>1, WithPtr
    <2> HIDE DEF n, r
    <2>4. Len(idx') = Len(idx) /\ \A m \in 1 .. Len(idx) : idx'[m] = IF m = n THEN r ELSE idx[m]
      BY <1>0, <2>1, <2>3, ExceptSeq
    <2> QED BY <1>a, <2>2, <2>4 DEF SizesStay, NewFits
  <1> QED BY <1>1, <1>2 DEF SetPtr

(* An index record overwritten by one of the same size.                    *)
LEMMA SetRecSizes ==
  ASSUME TypeInv, SlotInv, NEW o \in AllRecs, NEW k \in Keys \cup {Blank}, NEW l, NEW f, NEW d, NEW v \in Nat,
         idx' = [idx EXCEPT ![o - NHash] = IdxRec(k, l, f, d, v)],
         l = klenof[o], f = offof[o], d = dlenof[o], k \in Keys => KeyLen[k] = l
  PROVE  SizesStay /\ NewFits
  <1> DEFINE n == o - NHash
             r == IdxRec(k, l, f, d, v)
  <1>1. n \in 1 .. Len(idx) /\ NHash + n = o /\ idx \in Seq(IdxRecs)
    BY RecordNumbers DEF TypeInv, FilesOK
  <1>2. r.klen = idx[n].klen /\ r.datoff = idx[n].datoff /\ r.datlen = idx[n].datlen /\ r.key = k
    BY <1>1, FieldsOf DEF IdxRec
  <1>3. r \in IdxRecs
    BY <1>1, FieldsOf DEF IdxRec, IdxRecs
  <1>4. \A m \in 1 .. Len(idx) : idx[m].key \in Keys => KeyLen[idx[m].key] = idx[m].klen
    BY FieldsOf DEF SlotInv, KeysFit
  <1>6. k \in Keys => KeyLen[k] = idx[n].klen
    BY <1>1, FieldsOf
  <1> HIDE DEF n, r
  <1>5. Len(idx') = Len(idx) /\ \A m \in 1 .. Len(idx) : idx'[m] = IF m = n THEN r ELSE idx[m]
    <2>1. idx' = [idx EXCEPT ![n] = r]
      BY DEF n, r
    <2> QED BY <1>1, <1>3, <2>1, ExceptSeq
  <1> QED BY <1>2, <1>4, <1>5, <1>6 DEF SizesStay, NewFits

(* Nor does _db_writeptr, whether the pointer fits or not.                 *)
LEMMA WritePtrSizes ==
  ASSUME TypeInv, SlotInv, NEW p \in Procs, NEW o \in Places, NEW v \in Nat, NEW l, WritePtr(p, o, v, l)
  PROVE  SizesStay /\ NewFits
  <1>1. CASE SetPtr(o, v)
    BY <1>1, SetPtrSizes
  <1>2. CASE UNCHANGED idx
    BY <1>2, FieldsOf DEF SlotInv, KeysFit, SizesStay, NewFits
  <1> QED BY <1>1, <1>2 DEF WritePtr

(* What ProcOK says of the handle of a process.                            *)
LEMMA HandleOf ==
  ASSUME TypeInv, NEW p \in Procs
  PROVE  /\ db[p] \in Handles /\ ProcOK(pc[p], call[p], db[p], pos[p], Len(idx), Len(dat))
         /\ db[p].ptroff \in Places /\ db[p].chainoff \in Heads
         /\ db[p].idxoff \in {0} \cup AllRecs /\ db[p].ptrval \in {0} \cup AllRecs
         /\ db[p].offset \in {0} \cup AllRecs /\ db[p].saveptr \in {0} \cup AllRecs
         /\ db[p].datoff \in 0 .. Len(dat)
         /\ db[p].idxoff \in Nat /\ db[p].ptrval \in Nat /\ db[p].offset \in Nat /\ db[p].saveptr \in Nat
         /\ UsesRecord(p) => db[p].idxoff \in AllRecs
         /\ UsesData(p) => db[p].datoff \in 1 .. Len(dat)
         /\ pc[p] \in {"find.rec", "ff.rec"} => db[p].offset \in AllRecs
         /\ pc[p] \in Working => call[p].key \in Keys /\ call[p].f \in {"fetch", "delete", "store"}
         /\ pc[p] \in OfStore => call[p].f = "store" /\ call[p].data \in Data
  <1>1. db[p] \in Handles /\ ProcOK(pc[p], call[p], db[p], pos[p], Len(idx), Len(dat))
    BY DEF TypeInv
  <1>2. PointersValid
    BY TypeInvImplies
  <1>3. Ptrs = {0} \cup AllRecs
    BY DEF Ptrs
  <1>4. pc[p] \in Working => call[p] \in AllCalls /\ call[p].f \in {"fetch", "delete", "store"}
    BY <1>1 DEF ProcOK
  <1>5. pc[p] \in Working => call[p].key \in Keys
    BY <1>4, CallFields
  <1>6. pc[p] \in OfStore => pc[p] \in Working /\ call[p].f = "store"
    BY <1>1 DEF ProcOK, OfStore, Working, OnChain, OnFree, OnData, OnTail
  <1>7. pc[p] \in OfStore => call[p].data \in Data
    BY <1>4, <1>6, CallFields
  <1>8. db[p].chainoff \in Heads
    BY <1>1 DEF ProcOK, Heads
  <1>9. db[p].idxoff \in Nat /\ db[p].ptrval \in Nat /\ db[p].offset \in Nat /\ db[p].saveptr \in Nat
    BY <1>1 DEF Handles
  <1> QED BY <1>1, <1>2, <1>3, <1>4, <1>5, <1>6, <1>7, <1>8, <1>9, RecordNumbers DEF PointersValid, Places

(* Every step of a process keeps the sizes in the file, and the records    *)
(* it appends have the size of their key.                                  *)
LEMMA SizesKept ==
  ASSUME TypeInv, SlotInv, NEW p \in Procs, Acts(p)
  PROVE  SizesStay /\ NewFits
  <1>0. UNCHANGED idx => SizesStay /\ NewFits
    BY FieldsOf DEF SlotInv, KeysFit, SizesStay, NewFits
  <1>a. AllRecs \subseteq Nat /\ 0 \in Places
    BY RecordNumbers
  <1>1. CASE Begin(p) \/ DbRewind(p) \/ Killed(p) \/ Return(p)
    BY <1>0, <1>1 DEF Begin, DbRewind, Killed, Return
  <1>2. CASE Find(p)
    BY <1>0, <1>2, FindMoves DEF files
  <1>3. CASE Scan(p)
    BY <1>0, <1>3 DEF Scan, ScanLock, ScanEof, ScanSkip, ScanRec, ScanDump, ScanDat, ScanUnlock
  <1>4. CASE Delete(p)
    <2>1. CASE DelLock(p) \/ DelDat(p) \/ DelFree(p) \/ DelUnlock(p)
      BY <1>0, <2>1 DEF DelLock, DelDat, DelFree, DelUnlock
    <2>2. CASE DelIdx(p)
      <3> DEFINE o == db[p].idxoff
      <3>1. pc[p] = "del.idx"
        BY <2>2 DEF DelIdx, Step
      <3>2. o \in AllRecs /\ db[p].ptrval \in Nat
        BY <1>a, <3>1, HandleOf DEF UsesRecord
      <3>3. db[p].datoff = offof[o] /\ db[p].datlen = dlenof[o]
        BY <3>1 DEF SlotInv, Sized
      <3>4. idx' = [idx EXCEPT ![o - NHash] = IdxRec(Blank, klenof[o], offof[o], dlenof[o], db[p].ptrval)]
        <4>1. idx[o - NHash].klen = klenof[o]
          BY <1>a, <3>2 DEF klenof, Rec
        <4> QED BY <2>2, <3>3, <4>1 DEF DelIdx
      <3>5. Blank \notin Keys
        BY DbAssumption
      <3> QED BY <3>2, <3>4, <3>5, SetRecSizes
    <2>3. CASE DelSetHead(p)
      <3>1. db[p].idxoff \in Nat /\ FREE_OFF \in Places
        BY <1>a, HandleOf DEF FREE_OFF
      <3> QED BY <2>3, <3>1, WritePtrSizes DEF DelSetHead
    <2>4. CASE DelUnlink(p)
      <3>1. db[p].saveptr \in Nat /\ db[p].ptroff \in Places
        BY <1>a, HandleOf
      <3> QED BY <2>4, <3>1, WritePtrSizes DEF DelUnlink
    <2> QED BY <1>4, <2>1, <2>2, <2>3, <2>4 DEF Delete
  <1>5. CASE FindFree(p)
    <2>1. CASE InsHead(p) \/ FindFreeLock(p) \/ FindFreeHead(p) \/ FindFreeRec(p) \/ FindFreeUnlock(p)
      BY <1>0, <2>1 DEF InsHead, FindFreeLock, FindFreeHead, FindFreeRec, FindFreeUnlock
    <2>2. CASE FindFreeTake(p)
      <3>1. db[p].ptrval \in Nat /\ db[p].ptroff \in Places
        BY <1>a, HandleOf
      <3> QED BY <2>2, <3>1, WritePtrSizes DEF FindFreeTake
    <2> QED BY <1>5, <2>1, <2>2 DEF FindFree
  <1>6. CASE Write(p)
    <2>1. CASE ReuseDat(p) \/ ReplaceDat(p) \/ AppReread(p) \/ AppDatLock(p) \/ AppDat(p)
               \/ AppDatUnlock(p) \/ AppIdxLock(p) \/ AppIdxUnlock(p)
      BY <1>0, <2>1 DEF ReuseDat, ReplaceDat, AppReread, AppDatLock, AppDat, AppDatUnlock, AppIdxLock, AppIdxUnlock
    <2>2. CASE ReuseIdx(p)
      <3> DEFINE o == db[p].idxoff
                 k == call[p].key
      <3>1. pc[p] = "reuse.idx"
        BY <2>2 DEF ReuseIdx, Step
      <3>2. o \in AllRecs /\ db[p].saveptr \in Nat
        BY <1>a, <3>1, HandleOf DEF UsesRecord
      <3>3. db[p].datoff = offof[o] /\ db[p].datlen = dlenof[o] /\ KeyLen[k] = klenof[o]
        BY <3>1 DEF SlotInv, Sized
      <3>4. idx' = [idx EXCEPT ![o - NHash] = IdxRec(k, klenof[o], offof[o], dlenof[o], db[p].saveptr)]
        BY <2>2, <3>3 DEF ReuseIdx
      <3>5. k \in Keys
        BY <3>1, HandleOf DEF Working, OnChain
      <3> QED BY <3>2, <3>3, <3>4, <3>5, SetRecSizes
    <2>3. CASE AppIdx(p)
      <3> DEFINE r == IdxRec(call[p].key, KeyLen[call[p].key], db[p].datoff, db[p].datlen, db[p].saveptr)
      <3>0. pc[p] = "app.idx"
        BY <2>3 DEF AppIdx, Step
      <3>1. idx' = Append(idx, r)
        BY <2>3 DEF AppIdx
      <3>2. r \in IdxRecs
        <4>1. call[p].key \in Keys
          BY <3>0, HandleOf DEF Working, OnTail
        <4>2. KeyLen[call[p].key] \in Nat
          BY <4>1, DbAssumption
        <4>3. db[p].datoff \in Nat \ {0} /\ db[p].datlen \in Nat /\ db[p].saveptr \in Nat
          BY <1>a, <3>0, HandleOf DEF UsesData, Handles
        <4> QED BY <4>1, <4>2, <4>3 DEF IdxRec, IdxRecs
      <3>3. Len(idx) \in Nat /\ idx \in Seq(IdxRecs)
        BY RecordNumbers DEF TypeInv, FilesOK
      <3> HIDE DEF r
      <3>4. /\ Len(idx') = Len(idx) + 1 /\ \A i \in 1 .. Len(idx) : idx'[i] = idx[i]
            /\ idx'[Len(idx) + 1] = r
        BY <3>1, <3>2, <3>3, AppendProperties
      <3>6. KeyLen[r.key] = r.klen
        BY DEF r, IdxRec
      <3>5. \A n \in 1 .. Len(idx) : idx[n].key \in Keys => KeyLen[idx[n].key] = idx[n].klen
        BY FieldsOf DEF SlotInv, KeysFit
      <3> QED BY <3>3, <3>4, <3>5, <3>6 DEF SizesStay, NewFits
    <2>4. CASE Link(p)
      <3>1. db[p].idxoff \in Nat /\ db[p].chainoff \in Places
        BY <1>a, HandleOf, RecordNumbers
      <3> QED BY <2>4, <3>1, WritePtrSizes DEF Link
    <2> QED BY <1>6, <2>1, <2>2, <2>3, <2>4 DEF Write
  <1> QED BY <1>1, <1>2, <1>3, <1>4, <1>5, <1>6 DEF Acts, Run

(* What that means for the functions of the offset.                        *)
LEMMA SizesMean ==
  ASSUME TypeInv, TypeInv', SizesStay
  PROVE  /\ AllRecs \subseteq AllRecs'
         /\ \A o \in AllRecs : /\ offof'[o] = offof[o] /\ klenof'[o] = klenof[o] /\ dlenof'[o] = dlenof[o]
                               /\ keyof'[o] \in Keys => KeyLen[keyof'[o]] = klenof[o]
  <1>1. Len(idx) \in Nat /\ Len(idx') \in Nat /\ NHash \in Nat
    BY DbAssumption DEF TypeInv, FilesOK
  <1>2. ASSUME NEW o \in AllRecs
        PROVE  o \in AllRecs' /\ o \in Nat /\ o - NHash \in 1 .. Len(idx) /\ o - NHash \in 1 .. Len(idx')
    BY <1>1 DEF AllRecs, SizesStay
  <1>3. ASSUME NEW o \in AllRecs
        PROVE  /\ offof'[o] = offof[o] /\ klenof'[o] = klenof[o] /\ dlenof'[o] = dlenof[o]
               /\ keyof'[o] \in Keys => KeyLen[keyof'[o]] = klenof[o]
    BY <1>2 DEF SizesStay, offof, klenof, dlenof, keyof, Rec
  <1> QED BY <1>2, <1>3

(* The sizes hold in the new state for a process that did not move.        *)
LEMMA SizedStays ==
  ASSUME TypeInv, TypeInv', SlotInv, SizesStay, NEW q \in Procs, Stays(q)
  PROVE  Sized(q)'
  <1>1. Sized(q)
    BY DEF SlotInv
  <1>2. \A o \in AllRecs : offof'[o] = offof[o] /\ klenof'[o] = klenof[o] /\ dlenof'[o] = dlenof[o]
    BY SizesMean
  <1>3. UsesRecord(q) => db[q].idxoff \in AllRecs
    BY HandleOf
  <1> QED BY <1>1, <1>2, <1>3 DEF Sized, Stays, UsesRecord

(* A step that leads to a label at which nothing is said of the sizes.     *)
SizesMatter == {"del.lock", "del.dat", "del.free", "del.idx", "ff.take", "reuse.dat", "reuse.idx", "ff.unlock"}

(* ReadIdx leaves in the handle what the record has.                       *)
LEMMA ReadIdxIs ==
  ASSUME TypeInv, NEW p \in Procs, NEW o \in AllRecs
  PROVE  LET g == ReadIdx(p, o) IN
         /\ g \in Handles /\ g.idxoff = o /\ g.ptrval = next[o] /\ g.datoff = offof[o] /\ g.datlen = dlenof[o]
         /\ g.chainoff = db[p].chainoff /\ g.ptroff = db[p].ptroff /\ g.offset = db[p].offset
         /\ g.saveptr = db[p].saveptr /\ g.idxbuf = keyof[o]
  <1>1. o \in Nat /\ ~(o <= NHash) /\ o - NHash \in 1 .. Len(idx)
    BY RecordNumbers
  <1>2. Rec(o) \in IdxRecs
    BY <1>1 DEF Rec, TypeInv, FilesOK
  <1>3. next[o] = Rec(o).ptr /\ offof[o] = Rec(o).datoff /\ dlenof[o] = Rec(o).datlen /\ keyof[o] = Rec(o).key
    BY <1>1 DEF next, ReadPtr, offof, dlenof, keyof
  <1>4. db[p] \in Handles
    BY HandleOf
  <1> QED BY <1>1, <1>2, <1>3, <1>4 DEF ReadIdx, Handles, IdxRecs

(* The process that moves still knows the sizes it has read.               *)
LEMMA SizedMoves ==
  ASSUME TypeInv, TypeInv', SlotInv, NEW p \in Procs, Acts(p), SizesStay
  PROVE  Sized(p)'
  <1> USE Functions3 DEF Step, Goto, Handle
  <1>0. pc'[p] \notin SizesMatter => Sized(p)'
    BY DEF Sized, SizesMatter
  <1>a. Sized(p) /\ \A o \in AllRecs : offof'[o] = offof[o] /\ klenof'[o] = klenof[o] /\ dlenof'[o] = dlenof[o]
    BY SizesMean DEF SlotInv
  <1>b. UsesRecord(p) => db[p].idxoff \in AllRecs
    BY HandleOf
  <1>c. \A l \in Labels : Exit(p) => pc'[p] = "dead"
    BY ExitMoves DEF Moves
  <1>d. db[p] \in Handles
    BY HandleOf
  <1>1. CASE DbRewind(p)
    BY <1>1, SizedStays DEF DbRewind, Stays
  <1>2. CASE Begin(p) \/ Killed(p) \/ Return(p) \/ Scan(p)
    <2>1. pc'[p] \notin SizesMatter
      <3>1. CASE Begin(p) \/ Return(p)
        BY <3>1 DEF Begin, Return, SizesMatter
      <3>2. CASE Killed(p)
        BY <3>2, <1>c DEF Killed, SizesMatter, Exit
      <3>3. CASE Scan(p)
        BY <3>3 DEF Scan, ScanLock, ScanEof, ScanSkip, ScanRec, ScanDump, ScanDat, ScanUnlock, Exit, SizesMatter
      <3> QED BY <1>2, <3>1, <3>2, <3>3
    <2> QED BY <1>0, <2>1
  <1>3. CASE Find(p)
    <2>1. pc'[p] \in {"find.head", "find.rec", "fetch.dat", "del.lock", "rep.dat", "unlock", "ins.head"}
      BY <1>3, FindMoves
    <2>2. CASE pc'[p] # "del.lock"
      BY <1>0, <2>1, <2>2 DEF SizesMatter
    <2>3. CASE pc'[p] = "del.lock"
      <3>1. FindRec(p)
        BY <1>3, <2>3 DEF Find, FindLock, FindHead, FetchDat, AfterMiss
      <3>2. pc[p] = "find.rec" /\ db'[p] = ReadIdx(p, db[p].offset) /\ db[p].offset \in AllRecs
        <4>1. pc[p] = "find.rec"
          BY <3>1 DEF FindRec
        <4>2. db[p].offset \in AllRecs
          BY <4>1, HandleOf
        <4>3. Handle(p, ReadIdx(p, db[p].offset))
          BY <2>3, <3>1, <4>1 DEF FindRec, AfterMiss
        <4> QED BY <4>1, <4>2, <4>3
      <3> QED BY <1>a, <2>3, <3>2, ReadIdxIs DEF Sized
    <2> QED BY <2>2, <2>3
  <1>4. CASE Delete(p)
    <2>1. CASE DelSetHead(p) \/ DelUnlink(p) \/ DelUnlock(p)
      <3>1. pc'[p] \in {"del.unlink", "del.unlock", "dead", "app.reread", "unlock"}
        BY <2>1 DEF DelSetHead, DelUnlink, DelUnlock, WritePtr, Exit
      <3> QED BY <1>0, <3>1 DEF SizesMatter
    <2>2. CASE DelIdx(p)
      BY <1>0, <2>2 DEF DelIdx, SizesMatter
    <2>3. CASE DelLock(p) \/ DelDat(p)
      <3>1. pc[p] \in {"del.lock", "del.dat"} /\ pc'[p] \in {"del.dat", "del.free"} /\ db'[p] = db[p]
        BY <2>3 DEF DelLock, DelDat
      <3> QED BY <1>a, <1>b, <3>1 DEF Sized, UsesRecord
    <2>4. CASE DelFree(p)
      <3>1. pc[p] = "del.free" /\ pc'[p] = "del.idx" /\ db'[p].datoff = db[p].datoff
            /\ db'[p].datlen = db[p].datlen /\ db'[p].idxoff = db[p].idxoff
        BY <1>d, <2>4 DEF DelFree, Handles
      <3> QED BY <1>a, <1>b, <3>1 DEF Sized, UsesRecord
    <2> QED BY <1>4, <2>1, <2>2, <2>3, <2>4 DEF Delete
  <1>5. CASE FindFree(p)
    <2>1. CASE InsHead(p) \/ FindFreeLock(p)
      BY <1>0, <2>1 DEF InsHead, FindFreeLock, SizesMatter
    <2>2. CASE FindFreeHead(p)
      <3>1. pc'[p] = (IF ReadPtr(FREE_OFF) = 0 THEN "ff.unlock" ELSE "ff.rec") /\ db'[p].offset = ReadPtr(FREE_OFF)
        BY <1>d, <2>2 DEF FindFreeHead, Handles
      <3> QED BY <3>1 DEF Sized
    <2>3. CASE FindFreeRec(p)
      <3> DEFINE o == db[p].offset
      <3>1. pc[p] = "ff.rec" /\ o \in AllRecs /\ call'[p] = call[p]
        BY <2>3, HandleOf DEF FindFreeRec
      <3>2. CASE Fits(p, Rec(o)) /\ Handle(p, ReadIdx(p, o)) /\ Goto(p, "ff.take")
        <4>1. o \in Nat /\ klenof[o] = KeyLen[call[p].key] /\ dlenof[o] = DatLen[call[p].data]
          BY <3>1, <3>2, RecordNumbers DEF Fits, klenof, dlenof
        <4>2. db'[p] = ReadIdx(p, o) /\ pc'[p] = "ff.take"
          BY <3>2
        <4> QED BY <1>a, <3>1, <4>1, <4>2, ReadIdxIs DEF Sized
      <3>3. CASE ~Fits(p, Rec(o))
        <4> DEFINE g == ReadIdx(p, o)
        <4>1. g \in Handles
          BY <3>1, ReadIdxIs
        <4>2. db'[p] = [g EXCEPT !.ptroff = o, !.offset = g.ptrval]
          BY <2>3, <3>3 DEF FindFreeRec
        <4>3. pc'[p] = IF g.ptrval = 0 THEN "ff.unlock" ELSE "ff.rec"
          BY <2>3, <3>1, <3>3 DEF FindFreeRec
        <4> HIDE DEF g
        <4>4. db'[p].offset = g.ptrval
          BY <4>1, <4>2 DEF Handles
        <4> QED BY <4>3, <4>4 DEF Sized
      <3> QED BY <2>3, <3>2, <3>3 DEF FindFreeRec
    <2>4. CASE FindFreeTake(p)
      <3>1. pc[p] = "ff.take"
        BY <2>4 DEF FindFreeTake
      <3>2. CASE Exit(p)
        BY <1>0, <1>c, <3>2, ExitMoves DEF SizesMatter, Moves
      <3>3. CASE Goto(p, "ff.unlock") /\ UNCHANGED <<call, db>>
        <4>1. pc'[p] = "ff.unlock" /\ call'[p] = call[p] /\ db'[p] = db[p]
          BY <3>3
        <4> QED BY <1>a, <1>b, <3>1, <4>1 DEF Sized, UsesRecord
      <3> QED BY <2>4, <3>2, <3>3 DEF FindFreeTake, WritePtr
    <2>5. CASE FindFreeUnlock(p)
      <3>1. pc[p] = "ff.unlock" /\ pc'[p] = (IF db[p].offset = 0 THEN "app.datlock" ELSE "reuse.dat")
            /\ call'[p] = call[p] /\ db'[p] = db[p]
        BY <2>5 DEF FindFreeUnlock
      <3> QED BY <1>a, <1>b, <3>1 DEF Sized, UsesRecord
    <2> QED BY <1>5, <2>1, <2>2, <2>3, <2>4, <2>5 DEF FindFree
  <1>6. CASE Write(p)
    <2>1. CASE ReuseDat(p)
      <3>1. pc[p] = "reuse.dat" /\ pc'[p] = "reuse.idx" /\ call'[p] = call[p]
            /\ db'[p] = [db[p] EXCEPT !.datlen = DatLen[call[p].data]]
        BY <2>1 DEF ReuseDat
      <3>2. db'[p].datoff = db[p].datoff /\ db'[p].idxoff = db[p].idxoff /\ db'[p].datlen = DatLen[call[p].data]
        BY <1>d, <3>1 DEF Handles
      <3> QED BY <1>a, <1>b, <3>1, <3>2 DEF Sized, UsesRecord
    <2>2. CASE ReuseIdx(p) \/ ReplaceDat(p) \/ AppReread(p) \/ AppDatLock(p) \/ AppDat(p)
               \/ AppDatUnlock(p) \/ AppIdxLock(p) \/ AppIdxUnlock(p) \/ AppIdx(p) \/ Link(p)
      <3>1. pc'[p] \in {"link", "unlock", "dead", "app.datlock", "app.dat", "app.datunlock", "app.idxlock",
                        "app.idx", "app.idxunlock"}
        BY <2>2 DEF ReuseIdx, ReplaceDat, AppReread, AppDatLock, AppDat, AppDatUnlock, AppIdxLock, AppIdxUnlock,
                    AppIdx, Link, WritePtr, Exit
      <3> QED BY <1>0, <3>1 DEF SizesMatter
    <2> QED BY <1>6, <2>1, <2>2 DEF Write
  <1> QED BY <1>1, <1>2, <1>3, <1>4, <1>5, <1>6 DEF Acts, Run

(* It holds of a new database ...                                          *)
LEMMA SlotInit == Init => SlotInv
  <1> SUFFICES ASSUME Init PROVE SlotInv
    OBVIOUS
  <1>1. AllRecs = {}
    BY DbAssumption DEF Init, AllRecs
  <1> QED BY <1>1 DEF Init, SlotInv, KeysFit, Sized

(* ... and every step keeps it.                                            *)
LEMMA SlotStep == TypeInv /\ TypeInv' /\ SlotInv /\ [Next]_vars => SlotInv' /\ [SizesStay]_idx
  <1> SUFFICES ASSUME TypeInv, TypeInv', SlotInv, [Next]_vars
               PROVE  SlotInv' /\ [SizesStay]_idx
    OBVIOUS
  <1>1. CASE UNCHANGED vars
    <2>1. keyof' = keyof /\ klenof' = klenof /\ dlenof' = dlenof /\ offof' = offof /\ AllRecs' = AllRecs
      BY <1>1 DEF vars, keyof, klenof, dlenof, offof, Rec, AllRecs
    <2>2. pc' = pc /\ call' = call /\ db' = db
      BY <1>1 DEF vars
    <2>3. SlotInv'
      BY <2>1, <2>2 DEF SlotInv, KeysFit, Sized
    <2> QED BY <1>1, <2>3 DEF vars
  <1>2. ASSUME NEW p \in Procs, Acts(p) PROVE SlotInv' /\ SizesStay
    <2>1. SizesStay /\ NewFits
      BY <1>2, SizesKept
    <2>2. ASSUME NEW q \in Procs PROVE Sized(q)'
      <3>1. CASE q = p
        BY <1>2, <2>1, <3>1, SizedMoves
      <3>2. CASE q # p
        BY <1>2, <2>1, <3>2, OthersStay, SizedStays
      <3> QED BY <3>1, <3>2
    <2>3. ASSUME NEW o \in AllRecs', keyof'[o] \in Keys PROVE KeyLen[keyof'[o]] = klenof'[o]
      <3>1. CASE o \in AllRecs
        BY <2>1, <2>3, <3>1, SizesMean
      <3>2. CASE o \notin AllRecs
        <4>1. NHash \in Nat /\ Len(idx) \in Nat /\ Len(idx') \in Nat
          BY DbAssumption DEF TypeInv, FilesOK
        <4>2. o \in Nat /\ o - NHash \in 1 .. Len(idx') \ 1 .. Len(idx)
          BY <3>2, <4>1 DEF AllRecs
        <4> QED BY <2>1, <4>2 DEF NewFits, keyof, klenof, Rec
      <3> QED BY <3>1, <3>2
    <2> QED BY <2>1, <2>2, <2>3 DEF SlotInv, KeysFit
  <1> QED BY <1>1, <1>2 DEF Next, Acts

(* The size of a record and the place of its data never change, although   *)
(* it is erased and reused, whoever is killed where: db_nextrec reads the  *)
(* body of a record with the length it read before (_db_readidx).          *)
THEOREM SizesAreKept == Spec => SlotsKeepTheirSize
  <1> DEFINE Q == \A n \in DOMAIN idx :
                    /\ n \in DOMAIN idx'
                    /\ idx'[n].klen = idx[n].klen
                    /\ idx'[n].datoff = idx[n].datoff /\ idx'[n].datlen = idx[n].datlen
                    /\ idx'[n].key \in Keys => KeyLen[idx'[n].key] = idx[n].klen
  <1>1. TypeInv /\ TypeInv' /\ [SizesStay]_idx => [Q]_idx
    <2> SUFFICES ASSUME TypeInv, TypeInv', SizesStay PROVE Q
      OBVIOUS
    <2>1. DOMAIN idx = 1 .. Len(idx) /\ DOMAIN idx' = 1 .. Len(idx')
      BY DEF TypeInv, FilesOK
    <2> QED BY <2>1 DEF SizesStay
  <1>2. TypeInv /\ SlotInv /\ [Next]_vars => TypeInv' /\ SlotInv' /\ [Q]_idx
    <2> HIDE DEF Q
    <2> QED BY <1>1, NextTypeInv, SlotStep
  <1> HIDE DEF Q
  <1>3. Spec => [][Q]_idx
    BY <1>2, InitTypeInv, SlotInit, PTL DEF Spec
  <1> QED BY <1>3 DEF SlotsKeepTheirSize, Q

-----------------------------------------------------------------------------
(* What the locks give: who else may be where. *)

(* The free list has one user, a chain that is changed one process.        *)
LEMMA Alone ==
  ASSUME TypeInv, LockInv, NEW p \in Procs, NEW q \in Procs, p # q
  PROVE  /\ pc[p] \in OnFree => pc[q] \notin OnFree
         /\ InChain(p) /\ InChain(q) /\ call[p].f # "fetch" => db[p].chainoff # db[q].chainoff
  BY LockInvImplies DEF Exclusion

(* A call that works on a chain has a key that hashes to it.               *)
LEMMA ChainOfKey ==
  ASSUME TypeInv, LockInv, NEW p \in Procs, InChain(p)
  PROVE  db[p].chainoff \in Chains /\ db[p].chainoff \in Heads /\ db[p].chainoff # 0
  <1>1. Covered(p, pc[p], call[p].f, db[p].chainoff, rd, wr)
    BY DEF LockInv
  <1> QED BY <1>1, RecordNumbers DEF Covered, Chained, InChain

(* Where a call that is not a fetch can be.                                *)
LEMMA NotAFetch ==
  ASSUME TypeInv, NEW p \in Procs, pc[p] \in OfStore \cup OfDelete
  PROVE  InChain(p) /\ call[p].f # "fetch"
  <1>1. ProcOK(pc[p], call[p], db[p], pos[p], Len(idx), Len(dat))
    BY HandleOf
  <1>2. call[p].f # "fetch"
    BY <1>1 DEF ProcOK
  <1> QED BY <1>2 DEF InChain, OfStore, OfDelete, OnChain, OnFree, OnData, OnTail

(* How the chains go on where a record is being deleted, and elsewhere.    *)
ChainFacts ==
  /\ \A p \in Procs : Deleting(p) => chain[db[p].idxoff] = db[p].saveptr
  /\ \A o \in Nat : ~Dying(o) => chain[o] = next[o]
  /\ \A p \in Procs : Deleting(p) => \A o : Dying(o) => o = db[p].idxoff

(* One deletion at a time is between the two pointers, so the place where  *)
(* a chain goes on is not a matter of choice.                              *)
LEMMA ChainIs == TypeInv /\ LockInv => ChainFacts
  <1> SUFFICES ASSUME TypeInv, LockInv PROVE ChainFacts
    OBVIOUS
  <1>1. ASSUME NEW p \in Procs, Deleting(p) PROVE chain[db[p].idxoff] = db[p].saveptr
    <2> DEFINE o == db[p].idxoff
               s == CHOOSE q \in Procs : Deleting(q) /\ db[q].idxoff = o
    <2>1. \E q \in Procs : Deleting(q) /\ db[q].idxoff = o
      BY <1>1
    <2>2. s \in Procs /\ Deleting(s)
      BY <2>1
    <2>3. s = p
      <3> HIDE DEF s
      <3> QED BY <1>1, <2>2, Alone DEF Deleting, OnFree
    <2>4. o \in Nat
      BY HandleOf
    <2>5. chain[o] = db[s].saveptr
      BY <2>1, <2>4 DEF chain, ChainNext
    <2> QED BY <2>3, <2>5
  <1>2. ASSUME NEW o \in Nat, ~Dying(o) PROVE chain[o] = next[o]
    BY <1>2 DEF chain, ChainNext, next, Dying
  <1>3. ASSUME NEW p \in Procs, Deleting(p), NEW o, Dying(o) PROVE o = db[p].idxoff
    <2>1. PICK q \in Procs : Deleting(q) /\ db[q].idxoff = o
      BY <1>3 DEF Dying
    <2>2. q = p
      BY <1>3, <2>1, Alone DEF Deleting, OnFree
    <2> QED BY <2>1, <2>2
  <1> QED BY <1>1, <1>2, <1>3 DEF ChainFacts

(* Of the records on the chain of a call, only its own can be dying.       *)
LEMMA NotDying ==
  ASSUME TypeInv, LockInv, NEW L, NEW R, ListState(L, R), NEW p \in Procs, InChain(p),
         NEW x \in L[db[p].chainoff], ~(Deleting(p) /\ x = db[p].idxoff)
  PROVE  ~Dying(x) /\ chain[x] = next[x]
  <1>1. ASSUME NEW q \in Procs, Deleting(q), db[q].idxoff = x PROVE FALSE
    <2>1. q # p
      BY <1>1
    <2>2. pc[q] \in OfDelete \ {"del.unlock"} /\ pc[q] \in OfStore \cup OfDelete
      BY <1>1 DEF Deleting, OfDelete
    <2>3. x \in L[db[q].chainoff]
      BY <1>1, <2>2 DEF ListState, Doing, Unlinks
    <2>4. InChain(q) /\ call[q].f # "fetch"
      BY <2>2, NotAFetch
    <2>5. db[q].chainoff # db[p].chainoff
      BY <2>1, <2>4, Alone
    <2>6. db[q].chainoff \in Chains /\ db[p].chainoff \in Chains
      BY <2>4, ChainOfKey
    <2> QED BY <2>3, <2>5, <2>6 DEF ListState, Lists
  <1>2. ~Dying(x)
    BY <1>1 DEF Dying
  <1>3. x \in Nat
    <2>1. db[p].chainoff \in Chains
      BY ChainOfKey
    <2> QED BY <2>1 DEF ListState, Lists, Linked
  <1> QED BY <1>2, <1>3, ChainIs DEF ChainFacts

(* A live record is found under its key on its chain.                      *)
LEMMA OnChainIs ==
  ASSUME TypeInv, LockInv, NEW L, NEW R, ListState(L, R), NEW p \in Procs, InChain(p), ~Deleting(p)
  PROVE  \A x \in L[db[p].chainoff] \ {db[p].chainoff} :
           keyof[x] \in Keys /\ Hash[keyof[x]] = db[p].chainoff /\ x \in AllRecs
  <1>1. db[p].chainoff \in Chains /\ db[p].chainoff \in Heads
    BY ChainOfKey
  <1>2. ASSUME NEW x \in L[db[p].chainoff] \ {db[p].chainoff}
        PROVE  keyof[x] \in Keys /\ Hash[keyof[x]] = db[p].chainoff /\ x \in AllRecs
    <2>1. ~Dying(x)
      BY NotDying
    <2>2. x \in AllRecs
      BY <1>1 DEF ListState, Lists
    <2> QED BY <1>1, <2>1, <2>2 DEF ListState, Contents
  <1> QED BY <1>2

(* The lists, one by one.                                                  *)
LEMMA ListOf ==
  ASSUME TypeInv, NEW L, NEW R, Lists(L, R)
  PROVE  /\ \A l \in Heads : l \in L[l] /\ L[l] \subseteq Places /\ L[l] \ {l} \subseteq AllRecs
         /\ \A c \in Chains : Linked(L[c], c, R[c], chain)
         /\ Linked(L[0], 0, R[0], next)
  <1>1. \A c \in Chains : Linked(L[c], c, R[c], chain)
    BY DEF Lists
  <1>2. Linked(L[0], 0, R[0], next)
    BY DEF Lists
  <1>3. \A l \in Heads : l = 0 \/ l \in Chains
    BY RecordNumbers DEF Heads, Chains
  <1>4. \A l \in Heads : l \in L[l]
    BY <1>1, <1>2, <1>3 DEF Linked
  <1>5. ASSUME NEW l \in Heads PROVE L[l] \subseteq Places /\ L[l] \ {l} \subseteq AllRecs
    <2>1. L[l] \subseteq {l} \cup AllRecs
      BY DEF Lists
    <2>2. l \in Places /\ AllRecs \subseteq Places
      BY RecordNumbers
    <2> QED BY <2>1, <2>2
  <1> QED BY <1>1, <1>2, <1>4, <1>5

-----------------------------------------------------------------------------
(* What a step of one process leaves of what the others are doing.         *)
Untouched(q, L, R, M, Q) ==
  LET h == db[q]  c == db[q].chainoff IN
  /\ InChain(q) => /\ M[c] = L[c] /\ Q[c] = R[c]
                   /\ \A x \in L[c] : next'[x] = next[x]
                   /\ \A x \in L[c] \ {c} : keyof'[x] = keyof[x]
  /\ pc[q] \in OnFree => M[0] = L[0] /\ \A x \in L[0] : next'[x] = next[x]
  /\ pc[q] \in {"del.free", "del.idx", "del.sethead"} => valof'[h.idxoff] = Blank
  /\ Holding(q) => /\ \A l \in Heads : h.idxoff \notin M[l]
                   /\ next'[h.idxoff] = next[h.idxoff] /\ keyof'[h.idxoff] = keyof[h.idxoff]
  /\ Appending(q) => \A o \in AllRecs' : offof'[o] # h.datoff

(* What is true of a process that does not move stays true when nothing    *)
(* it relies on is touched.                                                *)
LEMMA OthersKeep ==
  ASSUME TypeInv, LockInv, NEW L, NEW R, NEW M, NEW Q, ListState(L, R),
         NEW q \in Procs, Stays(q), SameOffs, AllRecs \subseteq AllRecs', Untouched(q, L, R, M, Q)
  PROVE  Doing(q, M, Q)'
  <1> DEFINE h == db[q]
             c == db[q].chainoff
  <1>0. /\ Keyed(q) /\ Walks(q, L, R) /\ Finds(q, L) /\ Unlinks(q, L) /\ Missed(q, L)
        /\ Saved(q) /\ Searches(q, L) /\ Holds(q, L) /\ Fresh(q)
    BY DEF ListState, Doing
  <1>1. pc'[q] = pc[q] /\ call'[q] = call[q] /\ db'[q] = db[q]
    BY DEF Stays
  <1>2. InChain(q) => /\ M[c] = L[c] /\ Q[c] = R[c] /\ c \in L[c] /\ L[c] \ {c} \subseteq AllRecs
                      /\ \A x \in L[c] : next'[x] = next[x]
                      /\ \A x \in L[c] \ {c} : keyof'[x] = keyof[x] /\ offof'[x] = offof[x]
    <2>1. SUFFICES ASSUME InChain(q)
                   PROVE  /\ M[c] = L[c] /\ Q[c] = R[c] /\ c \in L[c] /\ L[c] \ {c} \subseteq AllRecs
                          /\ \A x \in L[c] : next'[x] = next[x]
                          /\ \A x \in L[c] \ {c} : keyof'[x] = keyof[x] /\ offof'[x] = offof[x]
      OBVIOUS
    <2>2. c \in Heads
      BY <2>1, ChainOfKey
    <2>3. c \in L[c] /\ L[c] \ {c} \subseteq AllRecs
      BY <2>2, ListOf DEF ListState
    <2> QED BY <2>1, <2>3 DEF Untouched, SameOffs
  <1>3. pc[q] \in OnFree => M[0] = L[0] /\ 0 \in L[0] /\ \A x \in L[0] : next'[x] = next[x]
    <2>1. 0 \in L[0]
      BY ListOf, RecordNumbers DEF ListState
    <2> QED BY <2>1 DEF Untouched
  <1>4. pc[q] \in {"del.free", "del.idx", "del.sethead"} => valof'[h.idxoff] = Blank
    BY DEF Untouched
  <1>5. UsesRecord(q) => h.idxoff \in AllRecs /\ offof'[h.idxoff] = offof[h.idxoff]
    BY HandleOf DEF SameOffs
  <1>6. /\ Holding(q) => /\ \A l \in Heads : h.idxoff \notin M[l]
                         /\ next'[h.idxoff] = next[h.idxoff] /\ keyof'[h.idxoff] = keyof[h.idxoff]
        /\ Appending(q) => \A o \in AllRecs' : offof'[o] # h.datoff
    BY DEF Untouched
  <1>7. Holding(q)' <=> Holding(q)
    BY <1>1 DEF Holding
  <1> HIDE DEF h, c
  <1> USE <1>1
  <1>a. Keyed(q)'
    BY <1>0 DEF Keyed, InChain
  <1>b. Walks(q, M, Q)'
    BY <1>0, <1>2 DEF Walks, h, c, InChain, OnChain
  <1>c. Finds(q, M)'
    BY <1>0, <1>2 DEF Finds, h, c, InChain, OnChain, OnFree
  <1>d. Unlinks(q, M)'
    BY <1>0, <1>2, <1>3, <1>4 DEF Unlinks, h, c, InChain, OnChain, OnFree, OfDelete
  <1>e. Missed(q, M)'
    BY <1>0, <1>2 DEF Missed, h, c, InChain, OnChain, OnFree, OnData, OnTail, OfStore
  <1>f. Saved(q)'
    BY <1>0, <1>2 DEF Saved, h, c, InChain, OnChain, OnFree, OnData, OnTail, OfStore
  <1>g. Searches(q, M)'
    BY <1>0, <1>3 DEF Searches, h, OnFree
  <1>h. Holds(q, M)'
    BY <1>0, <1>5, <1>6, <1>7 DEF Holds, Holding, h, UsesRecord
  <1>i. Fresh(q)'
    BY <1>0, <1>6 DEF Fresh, Appending, h
  <1> QED BY <1>a, <1>b, <1>c, <1>d, <1>e, <1>f, <1>g, <1>h, <1>i DEF Doing

(* The same of the new state.                                              *)
LEMMA ChainIsNext == TypeInv' /\ LockInv' => ChainFacts'
  BY ChainIs, PTL

(* A step that neither begins nor ends the deletion of a record.           *)
LEMMA ChainsStay ==
  ASSUME TypeInv, TypeInv', LockInv, LockInv', NEW p \in Procs, Acts(p), ~Deleting(p), ~Deleting(p)'
  PROVE  /\ \A o : Dying(o)' <=> Dying(o)
         /\ \A o \in Nat : Dying(o) => chain'[o] = chain[o]
         /\ \A o \in Nat : ~Dying(o) => chain'[o] = next'[o] /\ chain[o] = next[o]
  <1>1. ASSUME NEW q \in Procs, q # p
        PROVE  (Deleting(q)' <=> Deleting(q)) /\ db'[q] = db[q]
    BY <1>1, OthersStay DEF Stays, Deleting
  <1>2. ASSUME NEW o PROVE Dying(o)' <=> Dying(o)
    BY <1>1 DEF Dying
  <1>3. ASSUME NEW o \in Nat, Dying(o) PROVE chain'[o] = chain[o]
    <2>1. PICK q \in Procs : Deleting(q) /\ db[q].idxoff = o
      BY <1>3 DEF Dying
    <2>2. Deleting(q)' /\ db'[q] = db[q]
      BY <1>1, <2>1
    <2>3. ChainFacts /\ ChainFacts'
      BY ChainIs, ChainIsNext
    <2>4. chain[db[q].idxoff] = db[q].saveptr
      BY <2>1, <2>3 DEF ChainFacts
    <2>5. chain'[db'[q].idxoff] = db'[q].saveptr
      BY <2>2, <2>3 DEF ChainFacts
    <2> QED BY <2>1, <2>2, <2>4, <2>5
  <1>4. ASSUME NEW o \in Nat, ~Dying(o) PROVE chain'[o] = next'[o] /\ chain[o] = next[o]
    <2>1. ChainFacts /\ ChainFacts'
      BY ChainIs, ChainIsNext
    <2>2. ~Dying(o)'
      BY <1>2, <1>4
    <2> QED BY <1>4, <2>1, <2>2 DEF ChainFacts
  <1> QED BY <1>2, <1>3, <1>4

-----------------------------------------------------------------------------
(* What is left to show of a step of p that makes M, Q of the lists L, R.  *)
StepOK(p, L, R, M, Q) ==
  /\ Lists(M, Q)' /\ Contents(M)' /\ Doing(p, M, Q)' /\ Kept(M)'
  /\ \A q \in Procs : q # p => Untouched(q, L, R, M, Q)
  /\ Holding(p)' => \A q \in Procs : q # p /\ Holding(q) => db[q].idxoff # db'[p].idxoff
  /\ Appending(p)' => \A q \in Procs : q # p /\ Appending(q) => db[q].datoff # db'[p].datoff

(* With that the whole invariant holds again.                              *)
LEMMA StepLists ==
  ASSUME TypeInv, TypeInv', LockInv, SizesStay, NEW L, NEW R, NEW M, NEW Q, ListState(L, R),
         NEW p \in Procs, Acts(p), StepOK(p, L, R, M, Q)
  PROVE  ListState(M, Q)'
  <1>0. SameOffs /\ AllRecs \subseteq AllRecs'
    BY SizesMean DEF SameOffs
  <1>1. \A q \in Procs : q # p => Stays(q)
    BY OthersStay
  <1>2. ASSUME NEW q \in Procs PROVE Doing(q, M, Q)'
    <2>1. CASE q = p
      BY <2>1 DEF StepOK
    <2>2. CASE q # p
      <3>1. Untouched(q, L, R, M, Q) /\ Stays(q)
        BY <1>1, <2>2 DEF StepOK
      <3> QED BY <1>0, <3>1, OthersKeep
    <2> QED BY <2>1, <2>2
  <1>3. ASSUME NEW q \in Procs, q # p
        PROVE  (Holding(q)' <=> Holding(q)) /\ (Appending(q)' <=> Appending(q)) /\ db'[q] = db[q]
    BY <1>1, <1>3 DEF Stays, Holding, Appending
  <1>4. ASSUME NEW q \in Procs, NEW s \in Procs, q # s
        PROVE  /\ Holding(q)' /\ Holding(s)' => db'[q].idxoff # db'[s].idxoff
               /\ Appending(q)' /\ Appending(s)' => db'[q].datoff # db'[s].datoff
    <2>1. CASE q # p /\ s # p
      <3>1. /\ Holding(q) /\ Holding(s) => db[q].idxoff # db[s].idxoff
            /\ Appending(q) /\ Appending(s) => db[q].datoff # db[s].datoff
        BY <1>4 DEF ListState, Apart
      <3>2. /\ (Holding(q)' <=> Holding(q)) /\ (Appending(q)' <=> Appending(q)) /\ db'[q] = db[q]
            /\ (Holding(s)' <=> Holding(s)) /\ (Appending(s)' <=> Appending(s)) /\ db'[s] = db[s]
        BY <1>3, <2>1
      <3> QED BY <3>1, <3>2
    <2>2. CASE q = p
      <3>1. (Holding(s)' <=> Holding(s)) /\ (Appending(s)' <=> Appending(s)) /\ db'[s] = db[s]
        BY <1>3, <1>4, <2>2
      <3> QED BY <1>4, <2>2, <3>1 DEF StepOK
    <2>3. CASE s = p
      <3>1. (Holding(q)' <=> Holding(q)) /\ (Appending(q)' <=> Appending(q)) /\ db'[q] = db[q]
        BY <1>3, <1>4, <2>3
      <3> QED BY <1>4, <2>3, <3>1 DEF StepOK
    <2> QED BY <2>1, <2>2, <2>3
  <1>5. Apart'
    BY <1>4 DEF Apart
  <1> QED BY <1>2, <1>5 DEF ListState, StepOK

(* A step that leaves the files and the lists alone.                       *)
Quiet(p) ==
  /\ UNCHANGED files /\ ~Deleting(p) /\ ~Deleting(p)'
  /\ Holding(p)' => Holding(p) /\ db'[p].idxoff = db[p].idxoff
  /\ Appending(p)' => Appending(p) /\ db'[p].datoff = db[p].datoff
  /\ HoldersLive /\ NHash + Len(idx) <= PtrMax /\ Holding(p) => Holding(p)' /\ db'[p].idxoff = db[p].idxoff

(* Such a step keeps the invariant, with the same lists.                   *)
LEMMA QuietLists ==
  ASSUME TypeInv, TypeInv', LockInv, LockInv', SizesStay, NEW L, NEW R, ListState(L, R),
         NEW p \in Procs, Acts(p), Quiet(p), Doing(p, L, R)'
  PROVE  ListState(L, R)'
  <1>0. /\ next' = next /\ keyof' = keyof /\ offof' = offof /\ valof' = valof
        /\ AllRecs' = AllRecs /\ Len(idx') = Len(idx)
    BY DEF Quiet, files, next, ReadPtr, Rec, keyof, offof, valof, Value, AllRecs
  <1>1. /\ \A o : Dying(o)' <=> Dying(o)
        /\ \A o \in Nat : chain'[o] = chain[o]
    BY <1>0, ChainsStay DEF Quiet
  <1>2. Lists(L, R) /\ Contents(L) /\ Apart /\ Kept(L) /\ \A q \in Procs : Doing(q, L, R)
    BY DEF ListState
  <1>3. \A q \in Procs : q # p => Stays(q)
    BY OthersStay
  <1>4. Lists(L, R)'
    <2>1. \A c \in Chains : Linked(L[c], c, R[c], chain')
      <3>1. ASSUME NEW c \in Chains PROVE Linked(L[c], c, R[c], chain')
        <4>1. Linked(L[c], c, R[c], chain) /\ L[c] \subseteq Nat
          BY <1>2 DEF Lists, Linked
        <4>2. \A x \in L[c] : chain'[x] = chain[x]
          BY <1>1, <4>1
        <4> QED BY <4>1, <4>2, SamePointers
      <3> QED BY <3>1
    <2>2. ASSUME NEW c \in Chains, NEW o \in L[c] \cap L[0]
          PROVE  \E q \in Procs : pc'[q] = "del.unlink" /\ db'[q].idxoff = o
      <3>1. PICK q \in Procs : pc[q] = "del.unlink" /\ db[q].idxoff = o
        BY <1>2, <2>2 DEF Lists
      <3>2. q # p
        BY <3>1 DEF Quiet, Deleting
      <3> QED BY <1>3, <3>1, <3>2 DEF Stays
    <2> QED BY <1>0, <1>2, <2>1, <2>2 DEF Lists
  <1>5. Contents(L)'
    BY <1>0, <1>1, <1>2 DEF Contents
  <1>6. Kept(L)'
    <2>1. SUFFICES ASSUME HoldersLive, NHash + Len(idx) <= PtrMax, NEW o \in AllRecs
                   PROVE  (\E l \in Heads : o \in L[l]) \/ (\E q \in Procs : Holding(q)' /\ db'[q].idxoff = o)
      BY <1>0 DEF Kept
    <2>2. (\E l \in Heads : o \in L[l]) \/ (\E q \in Procs : Holding(q) /\ db[q].idxoff = o)
      BY <1>2, <2>1 DEF Kept
    <2>3. ASSUME NEW q \in Procs, Holding(q), db[q].idxoff = o PROVE Holding(q)' /\ db'[q].idxoff = o
      BY <1>3, <2>1, <2>3 DEF Quiet, Stays, Holding
    <2> QED BY <2>2, <2>3
  <1>7. ASSUME NEW q \in Procs, q # p PROVE Untouched(q, L, R, L, R)
    <2>1. Doing(q, L, R)
      BY <1>2
    <2>2. \A l \in Heads : Holding(q) => db[q].idxoff \notin L[l]
      BY <2>1 DEF Doing, Holds
    <2>3. pc[q] \in {"del.free", "del.idx", "del.sethead"} => valof[db[q].idxoff] = Blank
      BY <2>1 DEF Doing, Unlinks
    <2>4. Appending(q) => \A o \in AllRecs : offof[o] # db[q].datoff
      BY <2>1 DEF Doing, Fresh
    <2> QED BY <1>0, <2>2, <2>3, <2>4 DEF Untouched
  <1>8. /\ Holding(p)' => \A q \in Procs : q # p /\ Holding(q) => db[q].idxoff # db'[p].idxoff
        /\ Appending(p)' => \A q \in Procs : q # p /\ Appending(q) => db[q].datoff # db'[p].datoff
    BY <1>2 DEF Apart, Quiet
  <1>9. StepOK(p, L, R, L, R)
    BY <1>4, <1>5, <1>6, <1>7, <1>8 DEF StepOK
  <1> QED BY <1>9, StepLists

-----------------------------------------------------------------------------
(* The steps that leave the files alone. *)

(* The functions of the offset depend on the files only.                   *)
LEMMA SameFiles ==
  ASSUME UNCHANGED files
  PROVE  /\ next' = next /\ keyof' = keyof /\ offof' = offof /\ valof' = valof
         /\ AllRecs' = AllRecs
  BY DEF files, next, ReadPtr, Rec, keyof, offof, valof, Value, AllRecs

(* The chain of a call, but not where it is erasing a record.              *)
LEMMA OwnChain ==
  ASSUME TypeInv, LockInv, NEW L, NEW R, ListState(L, R), NEW p \in Procs, InChain(p), ~Deleting(p)
  PROVE  Linked(L[db[p].chainoff], db[p].chainoff, R[db[p].chainoff], next)
  <1> DEFINE c == db[p].chainoff
  <1>1. c \in Chains
    BY ChainOfKey
  <1>2. Linked(L[c], c, R[c], chain)
    BY <1>1, ListOf DEF ListState
  <1>3. \A x \in L[c] : next[x] = chain[x]
    BY NotDying
  <1> HIDE DEF c
  <1>4. Linked(L[c], c, R[c], next)
    BY <1>2, <1>3, SamePointers
  <1> QED BY <1>4 DEF c

(* A process outside the calls, or about to leave one.                     *)
LEMMA DoesNothing ==
  ASSUME NEW p \in Procs, NEW M, NEW Q,
         pc'[p] \in {"idle", "dead", "find.lock", "scan.lock", "scan.rec", "scan.dat", "scan.unlock"}
  PROVE  Doing(p, M, Q)' /\ ~Deleting(p)' /\ ~Holding(p)' /\ ~Appending(p)'
  BY DEF Doing, Keyed, Walks, Finds, Unlinks, Missed, Saved, Searches, Holds, Fresh, InChain,
         OnChain, OnFree, OnData, OnTail, OfStore, OfDelete, Holding, Appending, Deleting

(* A process about to give its chain back.                                 *)
LEMMA Leaves ==
  ASSUME NEW p \in Procs, NEW M, NEW Q, pc'[p] = "unlock",
         call'[p].key \in Keys, db'[p].chainoff = Hash[call'[p].key]
  PROVE  Doing(p, M, Q)' /\ ~Deleting(p)' /\ ~Holding(p)' /\ ~Appending(p)'
  BY DEF Doing, Keyed, Walks, Finds, Unlinks, Missed, Saved, Searches, Holds, Fresh,
         OfStore, OfDelete, OnData, OnTail, Holding, Appending, Deleting

(* _db_find_and_lock and the read of db_fetch only look: a walker goes     *)
(* from one record of its chain to the next and passes none that holds     *)
(* its key.                                                                *)
LEMMA FindQuiet ==
  ASSUME TypeInv, LockInv, NEW L, NEW R, ListState(L, R), NEW p \in Procs, Find(p)
  PROVE  Quiet(p) /\ Doing(p, L, R)'
  <1> DEFINE c == db[p].chainoff
             k == call[p].key
  <1> USE Functions3 DEF Step, Goto, Handle
  <1>0. /\ next' = next /\ keyof' = keyof /\ offof' = offof /\ valof' = valof
        /\ AllRecs' = AllRecs /\ UNCHANGED files /\ call'[p] = call[p] /\ k \in Keys
    BY SameFiles, FindMoves, HandleOf DEF Working, OnChain
  <1>1. Quiet(p)
    <2>1. /\ pc[p] \in {"find.lock", "find.head", "find.rec", "fetch.dat"}
          /\ pc'[p] \in {"find.head", "find.rec", "fetch.dat", "del.lock", "rep.dat", "unlock", "ins.head"}
      BY FindMoves
    <2> QED BY <1>0, <2>1 DEF Quiet, Holding, Appending, Deleting
  <1>d. db[p] \in Handles
    BY HandleOf
  <1>2. CASE FindLock(p)
    <2>1. /\ pc'[p] = "find.head" /\ db'[p].chainoff = Hash[k] /\ db'[p].ptroff = Hash[k]
      BY <1>2, <1>d DEF FindLock, Handles
    <2>2. Keyed(p)' /\ Walks(p, L, R)'
      BY <1>0, <2>1 DEF Keyed, Walks
    <2>3. Finds(p, L)' /\ Unlinks(p, L)' /\ Missed(p, L)' /\ Saved(p)' /\ Searches(p, L)'
      BY <2>1 DEF Finds, Unlinks, Missed, Saved, Searches, OfStore, OfDelete, OnData, OnTail
    <2>4. Holds(p, L)' /\ Fresh(p)'
      BY <2>1 DEF Holds, Fresh, Holding, Appending
    <2> QED BY <1>1, <2>2, <2>3, <2>4 DEF Doing
  <1>3. ASSUME pc[p] \in {"find.head", "find.rec", "fetch.dat"}
        PROVE  /\ c = Hash[k] /\ c \in Chains /\ c \in L[c] /\ Walks(p, L, R)
               /\ Linked(L[c], c, R[c], next) /\ c \in Heads
               /\ \A x \in L[c] : R[c][x] \in Nat /\ (x # c => R[c][x] < R[c][c])
               /\ \A x, y \in L[c] : R[c][x] = R[c][y] => x = y
    <2>1. InChain(p) /\ ~Deleting(p)
      BY <1>3 DEF InChain, OnChain, Deleting
    <2>2. Keyed(p) /\ Walks(p, L, R)
      BY DEF ListState, Doing
    <2>3. c \in Chains /\ c \in Heads
      BY <2>1, ChainOfKey
    <2>4. Linked(L[c], c, R[c], next)
      BY <2>1, OwnChain
    <2>5. c = Hash[k]
      BY <2>1, <2>2 DEF Keyed
    <2> HIDE DEF c
    <2> QED BY <2>2, <2>3, <2>4, <2>5 DEF Linked
  <1>4. CASE FetchDat(p)
    <2>1. pc'[p] = "unlock" /\ db'[p] = db[p] /\ pc[p] = "fetch.dat"
      BY <1>4 DEF FetchDat
    <2> QED BY <1>0, <1>1, <1>3, <2>1, Leaves
  <1>5. CASE FindHead(p)
    <2> DEFINE o == next[c]
    <2>1. pc[p] = "find.head" /\ db[p].ptroff = c
      BY <1>3, <1>5 DEF FindHead, Walks
    <2>2. ReadPtr(db[p].ptroff) = o
      BY <1>3, <2>1, FileValues, RecordNumbers
    <2>3. /\ db'[p].offset = o /\ db'[p].chainoff = c /\ db'[p].ptroff = c
      BY <1>5, <1>d, <2>1, <2>2 DEF FindHead, Handles
    <2>4. /\ o # 0 => o \in L[c] \ {c} /\ \A x \in L[c] \ {c} : ~(R[c][x] > R[c][o])
          /\ o = 0 => L[c] \ {c} = {}
      <3> HIDE DEF c
      <3>1. /\ o = 0 \/ o \in L[c] \ {c}
            /\ o = 0 => \A y \in L[c] : R[c][y] >= R[c][c]
            /\ o # 0 => \A y \in L[c] : R[c][y] > R[c][o] => y = c \/ R[c][y] > R[c][c]
        BY <1>3, <2>1, Successor
      <3> HIDE DEF o
      <3> QED BY <1>3, <2>1, <3>1
    <2>5. o = 0 => pc'[p] \in {"unlock", "ins.head"}
      BY <1>5, <2>1, <2>2 DEF FindHead, AfterMiss
    <2>6. o # 0 => pc'[p] = "find.rec"
      BY <1>5, <2>1, <2>2 DEF FindHead
    <2>7. CASE pc'[p] = "unlock"
      BY <1>0, <1>1, <1>3, <2>1, <2>3, <2>7, Leaves
    <2>8. CASE pc'[p] = "ins.head"
      <3> HIDE DEF c, o
      <3>1. Keyed(p)' /\ Walks(p, L, R)' /\ Finds(p, L)' /\ Unlinks(p, L)' /\ Searches(p, L)'
            /\ Saved(p)' /\ Holds(p, L)' /\ Fresh(p)'
        BY <1>0, <1>3, <2>1, <2>3, <2>8
           DEF k, Keyed, Walks, Finds, Unlinks, Saved, Searches, Holds, Fresh, OfDelete, Holding, Appending
      <3>2. Missed(p, L)'
        BY <2>3, <2>4, <2>6, <2>8 DEF Missed
      <3> QED BY <1>1, <3>1, <3>2 DEF Doing
    <2>9. CASE pc'[p] = "find.rec"
      <3> HIDE DEF c, o
      <3>1. Keyed(p)' /\ Finds(p, L)' /\ Unlinks(p, L)' /\ Missed(p, L)' /\ Searches(p, L)'
            /\ Saved(p)' /\ Holds(p, L)' /\ Fresh(p)'
        BY <1>0, <1>3, <2>1, <2>3, <2>9
           DEF k, Keyed, Finds, Unlinks, Missed, Saved, Searches, Holds, Fresh, OfDelete, OfStore, OnData, OnTail,
               Holding, Appending
      <3>2. Walks(p, L, R)'
        BY <1>0, <1>3, <2>1, <2>3, <2>4, <2>5, <2>9 DEF Walks, o
      <3> QED BY <1>1, <3>1, <3>2 DEF Doing
    <2> QED BY <2>5, <2>6, <2>7, <2>8, <2>9
  <1>6. CASE FindRec(p)
    <2> DEFINE o == db[p].offset
               g == ReadIdx(p, o)
    <2>1. pc[p] = "find.rec" /\ o \in AllRecs
      BY <1>6, HandleOf DEF FindRec
    <2>2. /\ o \in L[c] \ {c} /\ db[p].ptroff \in L[c] /\ next[db[p].ptroff] = o
          /\ \A x \in L[c] \ {c} : R[c][x] > R[c][o] => keyof[x] # k
      BY <1>3, <2>1 DEF Walks
    <2>3. /\ g \in Handles /\ g.idxoff = o /\ g.ptrval = next[o] /\ g.datoff = offof[o]
          /\ g.chainoff = c /\ g.ptroff = db[p].ptroff /\ g.offset = o
      BY <2>1, ReadIdxIs
    <2>4. keyof[o] = Rec(o).key
      BY <2>1, FileValues
    <2>5. CASE Rec(o).key = k
      <3>1. db'[p] = g
        BY <1>6, <2>5 DEF FindRec
      <3>2. pc'[p] \in {"unlock", "fetch.dat", "del.lock", "rep.dat"}
        BY <1>6, <2>1, <2>5 DEF FindRec, AfterHit
      <3>3. CASE pc'[p] = "unlock"
        BY <1>0, <1>1, <1>3, <2>1, <2>3, <3>1, <3>3, Leaves
      <3>4. CASE pc'[p] \in {"fetch.dat", "del.lock", "rep.dat"}
        <4> HIDE DEF c, o, g
        <4>1. Keyed(p)' /\ Walks(p, L, R)' /\ Missed(p, L)' /\ Searches(p, L)'
              /\ Saved(p)' /\ Holds(p, L)' /\ Fresh(p)'
          BY <1>0, <1>3, <2>1, <2>3, <3>1, <3>4
             DEF k, Keyed, Walks, Missed, Saved, Searches, Holds, Fresh, OfStore, OnData, OnTail, Holding, Appending
        <4>2. Finds(p, L)'
          BY <1>0, <2>2, <2>3, <2>4, <2>5, <3>1, <3>4 DEF Finds, k
        <4>3. Unlinks(p, L)'
          BY <1>0, <2>2, <2>3, <3>1, <3>4 DEF Unlinks, OfDelete
        <4> QED BY <1>1, <4>1, <4>2, <4>3 DEF Doing
      <3> QED BY <3>2, <3>3, <3>4
    <2>6. CASE Rec(o).key # k
      <3>1. db'[p] = [g EXCEPT !.ptroff = o, !.offset = g.ptrval]
        BY <1>6, <2>6 DEF FindRec
      <3>2. /\ db'[p].chainoff = c /\ db'[p].ptroff = o /\ db'[p].offset = next[o]
        <4> HIDE DEF g
        <4> QED BY <2>3, <3>1 DEF Handles
      <3>3. next[o] = 0 => pc'[p] \in {"unlock", "ins.head"}
        BY <1>6, <2>1, <2>3, <2>6 DEF FindRec, AfterMiss
      <3>4. next[o] # 0 => pc'[p] = "find.rec"
        <4> HIDE DEF g
        <4>1. next[o] # 0 => UNCHANGED pc
          BY <1>6, <2>3, <2>6 DEF FindRec, g
        <4> QED BY <2>1, <4>1
      <3>5. /\ next[o] # 0 => /\ next[o] \in L[c] \ {c}
                              /\ \A x \in L[c] : R[c][x] > R[c][next[o]] => x = o \/ R[c][x] > R[c][o]
            /\ next[o] = 0 => \A x \in L[c] : R[c][x] >= R[c][o]
        <4> HIDE DEF c, o
        <4> QED BY <1>3, <2>1, <2>2, Successor
      <3>6. CASE pc'[p] = "unlock"
        BY <1>0, <1>1, <1>3, <2>1, <3>2, <3>6, Leaves
      <3>7. CASE pc'[p] = "ins.head"
        <4> HIDE DEF c, o
        <4>1. Keyed(p)' /\ Walks(p, L, R)' /\ Finds(p, L)' /\ Unlinks(p, L)' /\ Searches(p, L)'
              /\ Saved(p)' /\ Holds(p, L)' /\ Fresh(p)'
          BY <1>0, <1>3, <2>1, <3>2, <3>7
             DEF k, Keyed, Walks, Finds, Unlinks, Saved, Searches, Holds, Fresh, OfDelete, Holding, Appending
        <4>2. ASSUME NEW x \in L[c] \ {c} PROVE keyof[x] # k
          <5>1. next[o] = 0
            BY <3>4, <3>7
          <5>2. x = o \/ R[c][x] > R[c][o]
            BY <1>3, <2>1, <2>2, <3>5, <5>1
          <5> QED BY <2>2, <2>4, <2>6, <5>2
        <4>3. Missed(p, L)'
          BY <1>0, <3>2, <4>2 DEF Missed, k
        <4> QED BY <1>1, <4>1, <4>3 DEF Doing
      <3>8. CASE pc'[p] = "find.rec"
        <4> HIDE DEF c, o
        <4>1. Keyed(p)' /\ Finds(p, L)' /\ Unlinks(p, L)' /\ Missed(p, L)' /\ Searches(p, L)'
              /\ Saved(p)' /\ Holds(p, L)' /\ Fresh(p)'
          BY <1>0, <1>3, <2>1, <3>2, <3>8
             DEF k, Keyed, Finds, Unlinks, Missed, Saved, Searches, Holds, Fresh, OfDelete, OfStore, OnData, OnTail,
                 Holding, Appending
        <4>2. next[o] # 0
          BY <3>3, <3>8
        <4>3. \A x \in L[c] \ {c} : R[c][x] > R[c][next[o]] => keyof[x] # k
          BY <2>2, <2>4, <2>6, <3>5, <4>2
        <4>4. Walks(p, L, R)'
          BY <1>0, <2>2, <3>2, <3>5, <3>8, <4>2, <4>3 DEF Walks, k
        <4> QED BY <1>1, <4>1, <4>4 DEF Doing
      <3> QED BY <3>3, <3>4, <3>6, <3>7, <3>8
    <2> QED BY <2>5, <2>6
  <1> QED BY <1>2, <1>4, <1>5, <1>6 DEF Find

(* The steps of _db_dodelete that only lock or read.                       *)
LEMMA DeleteQuiet ==
  ASSUME TypeInv, LockInv, NEW L, NEW R, ListState(L, R), NEW p \in Procs,
         DelLock(p) \/ DelFree(p) \/ DelUnlock(p)
  PROVE  Quiet(p) /\ Doing(p, L, R)'
  <1> DEFINE c == db[p].chainoff
             k == call[p].key
             h == db[p]
  <1> USE Functions3 DEF Step, Goto, Handle
  <1>0. UNCHANGED files /\ call'[p] = call[p] /\ pc[p] \in {"del.lock", "del.free", "del.unlock"}
    BY DEF DelLock, DelFree, DelUnlock, files
  <1>1. /\ next' = next /\ keyof' = keyof /\ offof' = offof /\ valof' = valof
        /\ AllRecs' = AllRecs /\ k \in Keys
    BY <1>0, SameFiles, HandleOf DEF Working, OnChain, OnFree
  <1>2. InChain(p) /\ ~Deleting(p) /\ c = Hash[k] /\ db[p] \in Handles
    <2>1. InChain(p) /\ ~Deleting(p)
      BY <1>0 DEF InChain, OnChain, OnFree, Deleting
    <2> QED BY <2>1, HandleOf DEF ListState, Doing, Keyed
  <1>3. Finds(p, L) /\ Unlinks(p, L) /\ Missed(p, L)
    BY DEF ListState, Doing
  <1>4. CASE DelLock(p)
    <2>1. pc[p] = "del.lock" /\ pc'[p] = "del.dat" /\ db'[p] = h
      BY <1>4 DEF DelLock
    <2> HIDE DEF c, h
    <2>2. Quiet(p)
      BY <1>0, <2>1 DEF Quiet, Holding, Appending, Deleting
    <2>3. Keyed(p)' /\ Walks(p, L, R)' /\ Missed(p, L)' /\ Saved(p)' /\ Searches(p, L)' /\ Holds(p, L)' /\ Fresh(p)'
      BY <1>0, <1>1, <1>2, <2>1
         DEF c, h, k, Keyed, Walks, Missed, Saved, Searches, Holds, Fresh, OfStore, OnData, OnTail, Holding, Appending
    <2>4. Finds(p, L)' /\ Unlinks(p, L)'
      BY <1>0, <1>1, <1>3, <2>1 DEF h, Finds, Unlinks, OfDelete
    <2> QED BY <2>2, <2>3, <2>4 DEF Doing
  <1>5. CASE DelFree(p)
    <2>1. /\ pc[p] = "del.free" /\ pc'[p] = "del.idx"
          /\ db'[p] = [h EXCEPT !.saveptr = h.ptrval, !.ptrval = ReadPtr(FREE_OFF)]
      BY <1>5 DEF DelFree
    <2>2. ReadPtr(FREE_OFF) = next[0] /\ next[0] \in Nat
      BY FileValues, RecordNumbers DEF FREE_OFF
    <2>3. /\ db'[p].saveptr = h.ptrval /\ db'[p].ptrval = next[0] /\ db'[p].chainoff = c
          /\ db'[p].idxoff = h.idxoff /\ db'[p].ptroff = h.ptroff /\ db'[p].datoff = h.datoff
      BY <1>2, <2>1, <2>2 DEF Handles
    <2> HIDE DEF c, h
    <2>4. Quiet(p)
      BY <1>0, <2>1 DEF Quiet, Holding, Appending, Deleting
    <2>5. Keyed(p)' /\ Walks(p, L, R)' /\ Missed(p, L)' /\ Saved(p)' /\ Searches(p, L)' /\ Holds(p, L)' /\ Fresh(p)'
      BY <1>0, <1>1, <1>2, <2>1, <2>3
         DEF k, Keyed, Walks, Missed, Saved, Searches, Holds, Fresh, OfStore, OnData, OnTail, Holding, Appending
    <2>6. Finds(p, L)' /\ Unlinks(p, L)'
      BY <1>0, <1>1, <1>3, <2>1, <2>3 DEF c, h, Finds, Unlinks, OfDelete
    <2> QED BY <2>4, <2>5, <2>6 DEF Doing
  <1>6. CASE DelUnlock(p)
    <2>1. pc[p] = "del.unlock" /\ pc'[p] \in {"app.reread", "unlock"} /\ db'[p] = h
      BY <1>6 DEF DelUnlock
    <2> HIDE DEF c, h
    <2>2. Quiet(p)
      BY <1>0, <2>1 DEF Quiet, Holding, Appending, Deleting
    <2>3. /\ Keyed(p)' /\ Walks(p, L, R)' /\ Finds(p, L)' /\ Unlinks(p, L)' /\ Saved(p)'
          /\ Searches(p, L)' /\ Holds(p, L)' /\ Fresh(p)'
      BY <1>0, <1>1, <1>2, <2>1
         DEF c, h, k, Keyed, Walks, Finds, Unlinks, Saved, Searches, Holds, Fresh, OfDelete, OfStore, OnData, OnTail, Holding, Appending
    <2>4. Missed(p, L)'
      BY <1>0, <1>1, <1>3, <2>1 DEF h, Missed, OfStore, OnData, OnTail
    <2> QED BY <2>2, <2>3, <2>4 DEF Doing
  <1> QED BY <1>4, <1>5, <1>6

(* The steps of _db_findfree that only lock or read.                       *)
LEMMA FreeQuiet ==
  ASSUME TypeInv, LockInv, NEW L, NEW R, ListState(L, R), NEW p \in Procs,
         InsHead(p) \/ FindFreeLock(p) \/ FindFreeHead(p) \/ FindFreeRec(p) \/ FindFreeUnlock(p)
  PROVE  Quiet(p) /\ Doing(p, L, R)'
  <1> DEFINE c == db[p].chainoff
             k == call[p].key
             h == db[p]
  <1> USE Functions3 DEF Step, Goto, Handle
  <1>0. /\ UNCHANGED files /\ call'[p] = call[p]
        /\ pc[p] \in {"ins.head", "ff.lock", "ff.head", "ff.rec", "ff.unlock"}
    BY DEF InsHead, FindFreeLock, FindFreeHead, FindFreeRec, FindFreeUnlock, files
  <1>1. /\ next' = next /\ keyof' = keyof /\ offof' = offof /\ valof' = valof
        /\ AllRecs' = AllRecs /\ k \in Keys
    BY <1>0, SameFiles, HandleOf DEF Working, OnChain, OnFree
  <1>2. InChain(p) /\ ~Deleting(p) /\ c = Hash[k] /\ h \in Handles /\ c \in Heads
    <2>1. InChain(p) /\ ~Deleting(p)
      BY <1>0 DEF InChain, OnChain, OnFree, Deleting
    <2> QED BY <2>1, HandleOf DEF ListState, Doing, Keyed
  <1>3. Missed(p, L) /\ Saved(p) /\ Searches(p, L) /\ Holds(p, L)
    BY DEF ListState, Doing
  <1>4. /\ Linked(L[0], 0, R[0], next) /\ 0 \in L[0]
        /\ \A x \in L[0] : next[x] = 0 \/ next[x] \in L[0] \ {0}
    <2>1. Linked(L[0], 0, R[0], next) /\ 0 \in L[0]
      BY ListOf, RecordNumbers DEF ListState
    <2> QED BY <2>1, Successor
  <1>5. ASSUME pc'[p] \in {"ff.lock", "ff.head", "ff.rec", "ff.take", "ff.unlock", "app.datlock", "reuse.dat"},
               db'[p].chainoff = c
        PROVE  Keyed(p)' /\ Walks(p, L, R)' /\ Finds(p, L)' /\ Unlinks(p, L)' /\ Missed(p, L)' /\ Fresh(p)'
    <2>1. Missed(p, L)'
      BY <1>0, <1>1, <1>3, <1>5 DEF Missed, OfStore, OnData, OnTail
    <2> QED BY <1>0, <1>1, <1>2, <1>5, <2>1 DEF k, Keyed, Walks, Finds, Unlinks, Fresh, OfDelete, Appending
  <1>6. CASE InsHead(p)
    <2>1. pc[p] = "ins.head" /\ pc'[p] = "ff.lock" /\ db'[p] = [h EXCEPT !.saveptr = ReadPtr(c)]
      BY <1>6 DEF InsHead
    <2>2. ReadPtr(c) = next[c]
      BY <1>2, FileValues, RecordNumbers
    <2>3. db'[p].saveptr = next[c] /\ db'[p].chainoff = c
      BY <1>2, <2>1, <2>2 DEF Handles
    <2> HIDE DEF c, h
    <2>4. Quiet(p)
      BY <1>0, <2>1 DEF Quiet, Holding, Appending, Deleting
    <2>5. Saved(p)' /\ Searches(p, L)' /\ Holds(p, L)'
      BY <1>1, <2>1, <2>3 DEF Saved, Searches, Holds, Holding
    <2> QED BY <1>5, <2>1, <2>3, <2>4, <2>5 DEF Doing
  <1>7. CASE FindFreeLock(p)
    <2>1. pc[p] = "ff.lock" /\ pc'[p] = "ff.head" /\ db'[p] = h
      BY <1>7 DEF FindFreeLock
    <2>4. Quiet(p)
      BY <1>0, <2>1 DEF Quiet, Holding, Appending, Deleting
    <2>5. Saved(p)' /\ Searches(p, L)' /\ Holds(p, L)'
      BY <1>1, <1>3, <2>1 DEF Saved, Searches, Holds, Holding, OfStore
    <2> QED BY <1>5, <2>1, <2>4, <2>5 DEF Doing
  <1>8. CASE FindFreeHead(p)
    <2> DEFINE o == ReadPtr(FREE_OFF)
    <2>1. /\ pc[p] = "ff.head" /\ pc'[p] = (IF o = 0 THEN "ff.unlock" ELSE "ff.rec")
          /\ db'[p] = [h EXCEPT !.ptroff = FREE_OFF, !.offset = o]
      BY <1>8 DEF FindFreeHead
    <2>2. o = next[0] /\ FREE_OFF = 0
      BY FileValues, RecordNumbers DEF FREE_OFF
    <2>3. /\ db'[p].saveptr = h.saveptr /\ db'[p].chainoff = c /\ db'[p].offset = next[0] /\ db'[p].ptroff = 0
      <3> HIDE DEF o
      <3> QED BY <1>2, <2>1, <2>2 DEF Handles
    <2> HIDE DEF c, h, o
    <2>4. Quiet(p)
      BY <1>0, <2>1, <2>2, <2>3 DEF Quiet, Holding, Appending, Deleting
    <2>5. Saved(p)' /\ Searches(p, L)' /\ Holds(p, L)'
      BY <1>1, <1>3, <1>4, <2>1, <2>2, <2>3 DEF c, h, Saved, Searches, Holds, Holding, OfStore
    <2> QED BY <1>5, <2>1, <2>3, <2>4, <2>5 DEF Doing
  <1>9. CASE FindFreeRec(p)
    <2> DEFINE o == db[p].offset
               g == ReadIdx(p, o)
    <2>1. pc[p] = "ff.rec" /\ o \in AllRecs
      BY <1>9, HandleOf DEF FindFreeRec
    <2>2. /\ g \in Handles /\ g.idxoff = o /\ g.ptrval = next[o] /\ g.datoff = offof[o]
          /\ g.chainoff = c /\ g.ptroff = db[p].ptroff /\ g.offset = o /\ g.saveptr = h.saveptr
      BY <2>1, ReadIdxIs
    <2>3. o \in L[0] \ {0} /\ h.ptroff \in L[0] /\ next[h.ptroff] = o
      BY <1>3, <2>1 DEF Searches
    <2>4. CASE db'[p] = g /\ pc'[p] = "ff.take"
      <3> HIDE DEF c, h, o, g
      <3>1. Quiet(p)
        BY <1>0, <2>1, <2>4 DEF Quiet, Holding, Appending, Deleting
      <3>2. Saved(p)' /\ Searches(p, L)' /\ Holds(p, L)'
        BY <1>1, <1>3, <2>1, <2>2, <2>3, <2>4 DEF c, h, Saved, Searches, Holds, Holding, OfStore
      <3> QED BY <1>5, <2>2, <2>4, <3>1, <3>2 DEF Doing
    <2>5. CASE /\ db'[p] = [g EXCEPT !.ptroff = o, !.offset = g.ptrval]
               /\ pc'[p] = IF g.ptrval = 0 THEN "ff.unlock" ELSE "ff.rec"
      <3>1. /\ db'[p].saveptr = h.saveptr /\ db'[p].chainoff = c /\ db'[p].offset = next[o] /\ db'[p].ptroff = o
        <4> HIDE DEF g
        <4> QED BY <2>2, <2>5 DEF Handles
      <3> HIDE DEF c, h, o, g
      <3>2. Quiet(p)
        BY <1>0, <2>1, <2>2, <2>5, <3>1 DEF Quiet, Holding, Appending, Deleting
      <3>3. Saved(p)' /\ Searches(p, L)' /\ Holds(p, L)'
        BY <1>1, <1>3, <1>4, <2>1, <2>2, <2>3, <2>5, <3>1 DEF c, h, Saved, Searches, Holds, Holding, OfStore
      <3> QED BY <1>5, <2>5, <3>1, <3>2, <3>3 DEF Doing
    <2>6. \/ db'[p] = g /\ pc'[p] = "ff.take"
          \/ /\ db'[p] = [g EXCEPT !.ptroff = o, !.offset = g.ptrval]
             /\ pc'[p] = IF g.ptrval = 0 THEN "ff.unlock" ELSE "ff.rec"
      BY <1>9, <2>1 DEF FindFreeRec
    <2> QED BY <2>4, <2>5, <2>6
  <1>10. CASE FindFreeUnlock(p)
    <2>1. /\ pc[p] = "ff.unlock" /\ pc'[p] = (IF h.offset = 0 THEN "app.datlock" ELSE "reuse.dat")
          /\ db'[p] = h
      BY <1>10 DEF FindFreeUnlock
    <2> HIDE DEF h
    <2>2. Quiet(p)
      BY <1>0, <2>1 DEF h, Quiet, Holding, Appending, Deleting
    <2>3. Saved(p)' /\ Searches(p, L)' /\ Holds(p, L)'
      BY <1>1, <1>3, <2>1 DEF h, Saved, Searches, Holds, Holding, OfStore
    <2>4. db'[p].chainoff = c /\ pc'[p] \in {"app.datlock", "reuse.dat"}
      BY <2>1 DEF h
    <2> QED BY <1>5, <2>2, <2>3, <2>4 DEF Doing
  <1> QED BY <1>6, <1>7, <1>8, <1>9, <1>10

(* The steps of a store that only lock or read.                            *)
LEMMA WriteQuiet ==
  ASSUME TypeInv, LockInv, NEW L, NEW R, ListState(L, R), NEW p \in Procs,
         AppReread(p) \/ AppDatLock(p) \/ AppDatUnlock(p) \/ AppIdxLock(p) \/ AppIdxUnlock(p)
  PROVE  Quiet(p) /\ Doing(p, L, R)'
  <1> DEFINE c == db[p].chainoff
             k == call[p].key
             h == db[p]
  <1> USE Functions3 DEF Step, Goto, Handle
  <1>0. /\ UNCHANGED files /\ call'[p] = call[p]
        /\ pc[p] \in {"app.reread", "app.datlock", "app.datunlock", "app.idxlock", "app.idxunlock"}
    BY DEF AppReread, AppDatLock, AppDatUnlock, AppIdxLock, AppIdxUnlock, files
  <1>1. /\ next' = next /\ keyof' = keyof /\ offof' = offof /\ valof' = valof
        /\ AllRecs' = AllRecs /\ k \in Keys
    BY <1>0, SameFiles, HandleOf DEF Working, OnChain, OnData, OnTail
  <1>2. InChain(p) /\ ~Deleting(p) /\ c = Hash[k] /\ h \in Handles /\ c \in Heads
    <2>1. InChain(p) /\ ~Deleting(p)
      BY <1>0 DEF InChain, OnChain, OnData, OnTail, Deleting
    <2> QED BY <2>1, HandleOf DEF ListState, Doing, Keyed
  <1>3. Missed(p, L) /\ Saved(p) /\ Searches(p, L) /\ Holds(p, L) /\ Fresh(p)
    BY DEF ListState, Doing
  <1>5. ASSUME pc'[p] \in {"app.datlock", "app.dat", "app.idxlock", "app.idx", "link"}, db'[p].chainoff = c
        PROVE  Keyed(p)' /\ Walks(p, L, R)' /\ Finds(p, L)' /\ Unlinks(p, L)' /\ Missed(p, L)' /\ Searches(p, L)'
    <2>1. Missed(p, L)'
      BY <1>0, <1>1, <1>3, <1>5 DEF Missed, OfStore, OnData, OnTail
    <2> QED BY <1>0, <1>1, <1>2, <1>5, <2>1 DEF k, Keyed, Walks, Finds, Unlinks, Searches, OfDelete, Appending
  <1>6. CASE AppReread(p)
    <2>1. pc[p] = "app.reread" /\ pc'[p] = "app.datlock" /\ db'[p] = [h EXCEPT !.saveptr = ReadPtr(c)]
      BY <1>6 DEF AppReread
    <2>2. ReadPtr(c) = next[c]
      BY <1>2, FileValues, RecordNumbers
    <2>3. db'[p].saveptr = next[c] /\ db'[p].chainoff = c
      BY <1>2, <2>1, <2>2 DEF Handles
    <2> HIDE DEF c, h
    <2>4. Quiet(p)
      BY <1>0, <2>1 DEF Quiet, Holding, Appending, Deleting
    <2>5. Saved(p)' /\ Holds(p, L)' /\ Fresh(p)'
      BY <1>1, <2>1, <2>3 DEF Saved, Fresh, Holds, Holding, Appending
    <2> QED BY <1>5, <2>1, <2>3, <2>4, <2>5 DEF Doing
  <1>7. CASE AppDatLock(p) \/ AppDatUnlock(p) \/ AppIdxLock(p) \/ AppIdxUnlock(p)
    <2>1. /\ db'[p] = h
          /\ \/ pc[p] = "app.datlock" /\ pc'[p] = "app.dat"
             \/ pc[p] = "app.datunlock" /\ pc'[p] = "app.idxlock"
             \/ pc[p] = "app.idxlock" /\ pc'[p] = "app.idx"
             \/ pc[p] = "app.idxunlock" /\ pc'[p] = "link"
      BY <1>7 DEF AppDatLock, AppDatUnlock, AppIdxLock, AppIdxUnlock
    <2>2. Quiet(p)
      BY <1>0, <2>1 DEF Quiet, Holding, Appending, Deleting
    <2>3. db'[p].chainoff = c /\ pc'[p] \in {"app.dat", "app.idxlock", "app.idx", "link"}
      BY <2>1
    <2> HIDE DEF h, c
    <2>4. Saved(p)'
      BY <1>1, <1>3, <2>1 DEF h, Saved, OfStore, OnData, OnTail
    <2>5. Holds(p, L)'
      BY <1>0, <1>1, <1>3, <2>1 DEF h, Holds, Holding
    <2>6. Fresh(p)'
      BY <1>1, <1>3, <2>1 DEF h, Fresh, Appending
    <2> QED BY <1>5, <2>2, <2>3, <2>4, <2>5, <2>6 DEF Doing
  <1> QED BY <1>6, <1>7

(* The steps of db_nextrec and db_rewind, the beginning and the end of a   *)
(* call, and the death of a process.                                       *)
LEMMA OtherQuiet ==
  ASSUME TypeInv, LockInv, NEW L, NEW R, ListState(L, R), NEW p \in Procs,
         \/ Begin(p) \/ DbRewind(p) \/ Return(p) \/ Scan(p)
         \/ Killed(p) /\ Mortal \cap {"del.sethead", "del.unlink"} = {}
  PROVE  Quiet(p) /\ Doing(p, L, R)'
  <1> USE Functions3 DEF Step, Goto, Handle
  <1>0. UNCHANGED files
    BY DEF files, Begin, DbRewind, Return, Scan, Killed, ScanLock, ScanEof, ScanSkip, ScanRec, ScanDump, ScanDat, ScanUnlock
  <1>1. CASE Begin(p) \/ Return(p) \/ Scan(p)
    <2>1. pc[p] \in {"idle", "unlock", "scan.lock", "scan.rec", "scan.dat", "scan.unlock"}
      BY <1>1 DEF Begin, Return, Scan, ScanLock, ScanEof, ScanSkip, ScanRec, ScanDump, ScanDat, ScanUnlock
    <2>2. pc'[p] \in {"idle", "dead", "find.lock", "scan.lock", "scan.rec", "scan.dat", "scan.unlock"}
      BY <1>1 DEF Begin, Return, Scan, ScanLock, ScanEof, ScanSkip, ScanRec, ScanDump, ScanDat, ScanUnlock, Exit
    <2>3. ~Deleting(p) /\ ~Holding(p) /\ ~Appending(p)
      BY <2>1 DEF Deleting, Holding, Appending
    <2> QED BY <1>0, <2>2, <2>3, DoesNothing DEF Quiet
  <1>2. CASE Killed(p) /\ Mortal \cap {"del.sethead", "del.unlink"} = {}
    <2>1. pc[p] \in Mortal /\ pc'[p] = "dead"
      BY <1>2, ExitMoves DEF Killed, Moves
    <2>2. ~Deleting(p) /\ (HoldersLive => ~Holding(p))
      BY <1>2, <2>1 DEF Deleting, Holding, HoldersLive
    <2> QED BY <1>0, <2>1, <2>2, DoesNothing DEF Quiet
  <1>3. CASE DbRewind(p)
    <2>1. pc[p] = "idle" /\ pc'[p] = "idle"
      BY <1>3 DEF DbRewind
    <2>3. ~Deleting(p) /\ ~Holding(p) /\ ~Appending(p)
      BY <2>1 DEF Deleting, Holding, Appending
    <2> QED BY <1>0, <2>1, <2>3, DoesNothing DEF Quiet
  <1> QED BY <1>1, <1>2, <1>3

-----------------------------------------------------------------------------
(* The steps that write to the files. *)

Writers == {"del.dat", "del.idx", "del.sethead", "del.unlink", "ff.take", "reuse.dat", "reuse.idx",
            "rep.dat", "app.dat", "app.idx", "link"}

(* Where a process that is about to write stands among the lists.          *)
LEMMA Where ==
  ASSUME TypeInv, LockInv, NEW L, NEW R, ListState(L, R), NEW p \in Procs, pc[p] \in Writers
  PROVE  LET c == db[p].chainoff IN
         /\ InChain(p) /\ call[p].f # "fetch" /\ call[p].key \in Keys /\ c = Hash[call[p].key]
         /\ c \in Chains /\ c \in Heads /\ c # 0 /\ c \in L[c] /\ 0 \in L[0] /\ 0 \notin L[c] /\ c \notin L[0]
         /\ c \in Nat /\ c \in Places /\ L[c] \subseteq Places /\ L[0] \subseteq Places
         /\ L[c] \ {c} \subseteq AllRecs /\ L[0] \ {0} \subseteq AllRecs
         /\ \A q \in Procs : q # p /\ InChain(q) => db[q].chainoff # c /\ db[q].chainoff \in Chains
         /\ \A x \in L[c] : x \in L[0] => pc[p] = "del.unlink" /\ x = db[p].idxoff
         /\ pc[p] \in OnFree =>
              \A d \in Chains : \A x \in L[d] : x \in L[0] => d = c /\ pc[p] = "del.unlink" /\ x = db[p].idxoff
  <1> DEFINE c == db[p].chainoff
  <1>1. pc[p] \in OfStore \cup OfDelete
    BY DEF Writers, OfStore, OfDelete, OnData, OnTail
  <1>2. InChain(p) /\ call[p].f # "fetch"
    BY <1>1, NotAFetch
  <1>3. Keyed(p) /\ Lists(L, R)
    BY DEF ListState, Doing
  <1>4. c \in Chains /\ c \in Heads /\ c # 0
    BY <1>2, ChainOfKey
  <1>5. /\ c \in L[c] /\ 0 \in L[0] /\ L[c] \subseteq Places /\ L[0] \subseteq Places
        /\ L[c] \ {c} \subseteq AllRecs /\ L[0] \ {0} \subseteq AllRecs
    BY <1>3, <1>4, ListOf, RecordNumbers
  <1>6. 0 \notin L[c] /\ c \notin L[0] /\ c \in Nat /\ c \in Places
    BY <1>4, <1>5, RecordNumbers
  <1>7. \A q \in Procs : q # p /\ InChain(q) => db[q].chainoff # c /\ db[q].chainoff \in Chains
    BY <1>2, Alone, ChainOfKey
  <1>8. ASSUME NEW d \in Chains, NEW x \in L[d], x \in L[0], NEW s \in Procs, s # p,
               pc[s] = "del.unlink", db[s].idxoff = x
        PROVE  d # c /\ pc[p] \notin OnFree
    <2>1. pc[p] \notin OnFree
      BY <1>8, Alone DEF OnFree
    <2>2. InChain(s)
      BY <1>8 DEF InChain, OnFree
    <2>3. db[s].chainoff # c /\ db[s].chainoff \in Chains
      BY <1>7, <1>8, <2>2
    <2>4. x \in L[db[s].chainoff]
      BY <1>8 DEF ListState, Doing, Unlinks, OfDelete
    <2>5. d = db[s].chainoff
      BY <1>3, <1>8, <2>3, <2>4 DEF Lists
    <2> QED BY <2>1, <2>3, <2>5
  <1>9. ASSUME NEW d \in Chains, NEW x \in L[d], x \in L[0]
        PROVE  \E s \in Procs : pc[s] = "del.unlink" /\ db[s].idxoff = x
    BY <1>3, <1>9 DEF Lists
  <1>10. ASSUME NEW x \in L[c], x \in L[0] PROVE pc[p] = "del.unlink" /\ x = db[p].idxoff
    <2>1. PICK s \in Procs : pc[s] = "del.unlink" /\ db[s].idxoff = x
      BY <1>4, <1>9, <1>10
    <2>2. s = p
      BY <1>4, <1>8, <1>10, <2>1
    <2> QED BY <2>1, <2>2
  <1>11. ASSUME pc[p] \in OnFree, NEW d \in Chains, NEW x \in L[d], x \in L[0]
         PROVE  d = c /\ pc[p] = "del.unlink" /\ x = db[p].idxoff
    <2>1. PICK s \in Procs : pc[s] = "del.unlink" /\ db[s].idxoff = x
      BY <1>9, <1>11
    <2>2. s = p
      BY <1>8, <1>11, <2>1
    <2>3. x \in L[c]
      BY <2>1, <2>2 DEF ListState, Doing, Unlinks, OfDelete
    <2>4. d = c
      BY <1>3, <1>4, <1>11, <2>3 DEF Lists
    <2> QED BY <2>1, <2>2, <2>4
  <1>12. call[p].key \in Keys /\ c = Hash[call[p].key]
    BY <1>2, <1>3 DEF Keyed
  <1> HIDE DEF c
  <1>13. /\ \A q \in Procs : q # p /\ InChain(q) => db[q].chainoff # c /\ db[q].chainoff \in Chains
         /\ \A x \in L[c] : x \in L[0] => pc[p] = "del.unlink" /\ x = db[p].idxoff
         /\ pc[p] \in OnFree =>
              \A d \in Chains : \A x \in L[d] : x \in L[0] => d = c /\ pc[p] = "del.unlink" /\ x = db[p].idxoff
    BY <1>7, <1>10, <1>11
  <1> QED BY <1>2, <1>4, <1>5, <1>6, <1>12, <1>13 DEF c

(* What a step does that writes only where the process may write.          *)
Confined(p, L, R, M, Q, W) ==
  LET c == db[p].chainoff IN
  /\ pc[p] \in Writers /\ (Deleting(p)' => db'[p].idxoff = db[p].idxoff)
  /\ M \in [Heads -> SUBSET Nat] /\ Q \in [Heads -> [Nat -> Nat]]
  /\ \A d \in Chains : d # c => M[d] = L[d] /\ Q[d] = R[d]
  /\ \A x \in Places : x \notin W => next'[x] = next[x]
  /\ \A x \in AllRecs : x \notin W => keyof'[x] = keyof[x]
  /\ \A x \in W : x \in L[c] \/ (pc[p] \in OnFree /\ x \in L[0]) \/ (Holding(p) /\ x = db[p].idxoff)
  /\ pc[p] \notin OnFree =>
       /\ M[0] = L[0] /\ \A x \in W : x \notin L[0]
       /\ \A x \in AllRecs : valof'[x] = valof[x] \/ x \in L[c] \/ (Holding(p) /\ x = db[p].idxoff)
  /\ \A l \in Heads : \A x \in M[l] :
       x \in L[l] \/ x \in L[c] \ {c} \/ (Holding(p) /\ x = db[p].idxoff /\ x <= PtrMax)
  /\ \A o \in AllRecs' : \/ o \in AllRecs /\ offof'[o] = offof[o]
                         \/ Appending(p) /\ o = Eof /\ offof'[o] = db[p].datoff

(* The same for a dying record as for all others.                          *)
LEMMA ChainsElsewhere ==
  ASSUME TypeInv, TypeInv', LockInv, LockInv', NEW p \in Procs, Acts(p),
         Deleting(p)' => db'[p].idxoff = db[p].idxoff, NEW o \in Nat,
         o # db[p].idxoff \/ (~Deleting(p) /\ ~Deleting(p)') \/ (Deleting(p) /\ Deleting(p)')
  PROVE  /\ Dying(o)' <=> Dying(o)
         /\ ~Dying(o) => chain'[o] = next'[o] /\ chain[o] = next[o]
         /\ Dying(o) /\ (o # db[p].idxoff \/ ~Deleting(p)) => chain'[o] = chain[o]
  <1>0. ChainFacts /\ ChainFacts'
    BY ChainIs, ChainIsNext
  <1>1. ASSUME NEW q \in Procs, q # p
        PROVE  (Deleting(q)' <=> Deleting(q)) /\ db'[q] = db[q]
    BY <1>1, OthersStay DEF Stays, Deleting
  <1>2. ASSUME Dying(o) PROVE Dying(o)' /\ ((o # db[p].idxoff \/ ~Deleting(p)) => chain'[o] = chain[o])
    <2>1. PICK q \in Procs : Deleting(q) /\ db[q].idxoff = o
      BY <1>2 DEF Dying
    <2>2. CASE q = p
      BY <2>1, <2>2 DEF Dying
    <2>3. CASE q # p
      <3>1. Deleting(q)' /\ db'[q] = db[q]
        BY <1>1, <2>1, <2>3
      <3>2. chain[db[q].idxoff] = db[q].saveptr /\ chain'[db'[q].idxoff] = db'[q].saveptr
        BY <1>0, <2>1, <3>1 DEF ChainFacts
      <3>3. Dying(o)'
        BY <2>1, <3>1 DEF Dying
      <3> QED BY <2>1, <3>1, <3>2, <3>3
    <2> QED BY <2>2, <2>3
  <1>3. ASSUME Dying(o)' PROVE Dying(o)
    <2>1. PICK q \in Procs : Deleting(q)' /\ db'[q].idxoff = o
      BY <1>3 DEF Dying
    <2>2. CASE q = p
      BY <2>1, <2>2 DEF Dying
    <2>3. CASE q # p
      <3>1. Deleting(q) /\ db'[q] = db[q]
        BY <1>1, <2>1, <2>3
      <3> QED BY <2>1, <3>1 DEF Dying
    <2> QED BY <2>2, <2>3
  <1>4. ASSUME ~Dying(o) PROVE chain'[o] = next'[o] /\ chain[o] = next[o]
    <2>1. ~Dying(o)'
      BY <1>3, <1>4
    <2> QED BY <1>0, <1>4, <2>1 DEF ChainFacts
  <1> QED BY <1>2, <1>3, <1>4

(* Such a step leaves the others what they have.                           *)
LEMMA ConfinedUntouched ==
  ASSUME TypeInv, LockInv, NEW L, NEW R, NEW M, NEW Q, NEW W, ListState(L, R), NEW p \in Procs,
         Confined(p, L, R, M, Q, W), NEW q \in Procs, q # p
  PROVE  Untouched(q, L, R, M, Q)
  <1> DEFINE c == db[p].chainoff
             d == db[q].chainoff
             i == db[q].idxoff
  <1>1. pc[p] \in Writers
    BY DEF Confined
  <1>2. /\ c \in Chains /\ c \in Heads /\ L[c] \subseteq Places
        /\ InChain(q) => d # c /\ d \in Chains
        /\ pc[p] \in OnFree =>
              \A e \in Chains : \A x \in L[e] : x \in L[0] => e = c /\ pc[p] = "del.unlink" /\ x = db[p].idxoff
    BY <1>1, Where
  <1>3. /\ \A e \in Chains : e # c => L[e] \cap L[c] = {}
        /\ \A e \in Heads : L[e] \subseteq Places /\ L[e] \ {e} \subseteq AllRecs
        /\ Chains \subseteq Heads /\ 0 \in Heads
    <2>1. \A e \in Chains : e # c => L[e] \cap L[c] = {}
      BY <1>2 DEF ListState, Lists
    <2> QED BY <2>1, ListOf, RecordNumbers DEF ListState
  <1>4. Holding(p) => db[p].idxoff \in AllRecs /\ \A l \in Heads : db[p].idxoff \notin L[l]
    BY DEF ListState, Doing, Holds
  <1>5. /\ \A e \in Chains : e # c => M[e] = L[e] /\ Q[e] = R[e]
        /\ \A x \in Places : x \notin W => next'[x] = next[x]
        /\ \A x \in AllRecs : x \notin W => keyof'[x] = keyof[x]
        /\ \A x \in W : x \in L[c] \/ (pc[p] \in OnFree /\ x \in L[0]) \/ (Holding(p) /\ x = db[p].idxoff)
        /\ pc[p] \notin OnFree =>
             /\ M[0] = L[0] /\ \A x \in W : x \notin L[0]
             /\ \A x \in AllRecs : valof'[x] = valof[x] \/ x \in L[c] \/ (Holding(p) /\ x = db[p].idxoff)
        /\ \A l \in Heads : \A x \in M[l] : x \in L[l] \/ x \in L[c] \/ (Holding(p) /\ x = db[p].idxoff)
        /\ \A o \in AllRecs' : \/ o \in AllRecs /\ offof'[o] = offof[o]
                               \/ Appending(p) /\ o = Eof /\ offof'[o] = db[p].datoff
    BY DEF Confined
  <1> HIDE DEF c, d, i
  <1>6. ASSUME InChain(q)
        PROVE  /\ M[d] = L[d] /\ Q[d] = R[d]
               /\ \A x \in L[d] : next'[x] = next[x]
               /\ \A x \in L[d] \ {d} : keyof'[x] = keyof[x]
    <2>1. d \in Chains /\ d \in Heads /\ d # c
      BY <1>2, <1>3, <1>6
    <2>2. ASSUME NEW x \in L[d] PROVE x \notin W
      BY <1>2, <1>3, <1>4, <1>5, <2>1
    <2> QED BY <1>3, <1>5, <2>1, <2>2
  <1>7. ASSUME pc[q] \in OnFree PROVE M[0] = L[0] /\ \A x \in L[0] : next'[x] = next[x]
    <2>1. pc[p] \notin OnFree
      BY <1>7, Alone
    <2> QED BY <1>3, <1>5, <2>1
  <1>8. ASSUME pc[q] \in {"del.free", "del.idx", "del.sethead"} PROVE valof'[i] = Blank
    <2>1. pc[q] \in OnFree /\ InChain(q)
      BY <1>8 DEF OnFree, InChain
    <2>2. pc[p] \notin OnFree
      BY <2>1, Alone
    <2>3. valof[i] = Blank /\ i \in L[d]
      BY <1>8 DEF ListState, Doing, Unlinks, OfDelete, i, d
    <2>4. i \in AllRecs
      BY <1>8, HandleOf DEF UsesRecord, i
    <2>5. i \in AllRecs
      BY <1>8, <2>1, <2>4
    <2>6. d \in Chains /\ d # c /\ d \in Heads
      BY <1>2, <1>3, <2>1
    <2> QED BY <1>3, <1>4, <1>5, <2>2, <2>3, <2>5, <2>6
  <1>9. ASSUME Holding(q)
        PROVE  (\A l \in Heads : i \notin M[l]) /\ next'[i] = next[i] /\ keyof'[i] = keyof[i]
    <2>1. i \in AllRecs /\ \A l \in Heads : i \notin L[l]
      BY <1>9 DEF ListState, Doing, Holds, i
    <2>2. Holding(p) => db[p].idxoff # i
      BY <1>9 DEF ListState, Apart, i
    <2>3. i \in Places
      BY <2>1, RecordNumbers
    <2> QED BY <1>2, <1>3, <1>5, <2>1, <2>2, <2>3
  <1>10. ASSUME Appending(q) PROVE \A o \in AllRecs' : offof'[o] # db[q].datoff
    <2>1. \A o \in AllRecs : offof[o] # db[q].datoff
      BY <1>10 DEF ListState, Doing, Fresh
    <2>2. Appending(p) => db[p].datoff # db[q].datoff
      BY <1>10 DEF ListState, Apart
    <2> QED BY <1>5, <2>1, <2>2
  <1> QED BY <1>6, <1>7, <1>8, <1>9, <1>10 DEF Untouched, c, d, i

(* Such a step leaves the other chains what they are.                      *)
LEMMA ConfinedChains ==
  ASSUME TypeInv, TypeInv', LockInv, LockInv', NEW L, NEW R, NEW M, NEW Q, NEW W, ListState(L, R),
         NEW p \in Procs, Acts(p), Confined(p, L, R, M, Q, W), NEW d \in Chains, d # db[p].chainoff
  PROVE  /\ Linked(M[d], d, Q[d], chain')
         /\ \A o \in M[d] \ {d} : ~Dying(o)' => keyof'[o] \in Keys /\ Hash[keyof'[o]] = d
         /\ \A o, s \in M[d] \ {d} : keyof'[o] = keyof'[s] /\ keyof'[o] \in Keys => o = s
         /\ \A o \in M[d] : o \in M[0] => \E s \in Procs : pc'[s] = "del.unlink" /\ db'[s].idxoff = o
  <1> DEFINE c == db[p].chainoff
  <1>1. pc[p] \in Writers /\ (Deleting(p)' => db'[p].idxoff = db[p].idxoff)
    BY DEF Confined
  <1>2. /\ c \in Chains /\ c \in Heads /\ L[c] \subseteq Places /\ c \in L[c]
        /\ \A x \in L[c] : x \in L[0] => pc[p] = "del.unlink" /\ x = db[p].idxoff
        /\ pc[p] \in OnFree =>
              \A e \in Chains : \A x \in L[e] : x \in L[0] => e = c /\ pc[p] = "del.unlink" /\ x = db[p].idxoff
    BY <1>1, Where
  <1>3. /\ L[d] \cap L[c] = {} /\ d \in Heads
        /\ \A e \in Heads : L[e] \subseteq Places /\ L[e] \ {e} \subseteq AllRecs
        /\ Linked(L[d], d, R[d], chain) /\ Places \subseteq Nat
    <2>1. L[d] \cap L[c] = {}
      BY <1>2 DEF ListState, Lists
    <2> QED BY <2>1, ListOf, RecordNumbers DEF ListState
  <1>4. Holding(p) => \A l \in Heads : db[p].idxoff \notin L[l]
    BY DEF ListState, Doing, Holds
  <1>5. /\ M[d] = L[d] /\ Q[d] = R[d]
        /\ \A x \in Places : x \notin W => next'[x] = next[x]
        /\ \A x \in AllRecs : x \notin W => keyof'[x] = keyof[x]
        /\ \A x \in W : x \in L[c] \/ (pc[p] \in OnFree /\ x \in L[0]) \/ (Holding(p) /\ x = db[p].idxoff)
        /\ \A x \in M[0] : x \in L[0] \/ x \in L[c] \/ (Holding(p) /\ x = db[p].idxoff)
    BY RecordNumbers DEF Confined
  <1>6. ASSUME NEW x \in L[d] PROVE x \notin W
    BY <1>2, <1>3, <1>4, <1>5, <1>6
  <1>7. ASSUME NEW x \in L[d]
        PROVE  x # db[p].idxoff \/ (~Deleting(p) /\ ~Deleting(p)') \/ (Deleting(p) /\ Deleting(p)')
    <2>1. CASE Deleting(p)
      <3>1. db[p].idxoff \in L[c]
        BY <2>1 DEF Deleting, ListState, Doing, Unlinks, OfDelete
      <3> QED BY <1>3, <3>1
    <2>2. CASE ~Deleting(p) /\ Deleting(p)'
      <3>1. pc[p] = "del.idx"
        <4>1. pc'[p] = "del.sethead" \/ pc'[p] = "del.unlink"
          BY <2>2 DEF Deleting
        <4>2. \/ DelDat(p) \/ DelIdx(p) \/ DelSetHead(p) \/ DelUnlink(p) \/ FindFreeTake(p) \/ ReuseDat(p)
              \/ ReuseIdx(p) \/ ReplaceDat(p) \/ AppDat(p) \/ AppIdx(p) \/ Link(p) \/ Killed(p)
          BY <1>1 DEF Acts, Run, Begin, DbRewind, Find, FindLock, FindHead, FindRec, FetchDat, Delete, FindFree, Write,
             Scan, Return, DelLock, DelFree, DelUnlock, InsHead, FindFreeLock, FindFreeHead, FindFreeRec, FindFreeUnlock,
             AppReread, AppDatLock, AppDatUnlock, AppIdxLock, AppIdxUnlock, ScanLock, ScanEof, ScanSkip, ScanRec, ScanDump,
             ScanDat, ScanUnlock, Step, Writers
        <4>3. ~Killed(p)
          BY <4>1, ExitMoves DEF Killed, Moves
        <4>4. Exit(p) => pc'[p] = "dead"
          BY ExitMoves DEF Moves
        <4>5. pc[p] # "del.sethead"
          BY <2>2 DEF Deleting
        <4> QED BY <4>1, <4>2, <4>3, <4>4, <4>5, Functions3
                DEF DelDat, DelIdx, DelSetHead, DelUnlink, FindFreeTake, ReuseDat, ReuseIdx, ReplaceDat, AppDat, AppIdx,
                    Link, WritePtr, Step, Goto
      <3>2. db[p].idxoff \in L[c]
        BY <3>1 DEF ListState, Doing, Unlinks, OfDelete
      <3> QED BY <1>3, <3>2
    <2> QED BY <2>1, <2>2
  <1>8. ASSUME NEW x \in L[d]
        PROVE  (Dying(x)' <=> Dying(x)) /\ chain'[x] = chain[x]
    <2>1. x \in Nat /\ x \in Places
      BY <1>3
    <2>2. x # db[p].idxoff \/ ~Deleting(p)
      <3>1. Deleting(p) => db[p].idxoff \in L[c]
        BY DEF Deleting, ListState, Doing, Unlinks, OfDelete
      <3> QED BY <1>3, <3>1
    <2>3. /\ Dying(x)' <=> Dying(x)
          /\ ~Dying(x) => chain'[x] = next'[x] /\ chain[x] = next[x]
          /\ Dying(x) => chain'[x] = chain[x]
      BY <1>1, <1>7, <2>1, <2>2, ChainsElsewhere
    <2>4. next'[x] = next[x]
      BY <1>5, <1>6, <2>1
    <2> QED BY <2>3, <2>4
  <1> HIDE DEF c
  <1>9. Linked(M[d], d, Q[d], chain')
    BY <1>3, <1>5, <1>8, SamePointers
  <1>10. \A o \in M[d] \ {d} : keyof'[o] = keyof[o]
    BY <1>3, <1>5, <1>6
  <1>11. \A o \in M[d] \ {d} : ~Dying(o)' => keyof'[o] \in Keys /\ Hash[keyof'[o]] = d
    BY <1>5, <1>8, <1>10 DEF ListState, Contents
  <1>12. \A o, s \in M[d] \ {d} : keyof'[o] = keyof'[s] /\ keyof'[o] \in Keys => o = s
    BY <1>5, <1>10 DEF ListState, Contents
  <1>13. ASSUME NEW o \in M[d], o \in M[0]
         PROVE  \E s \in Procs : pc'[s] = "del.unlink" /\ db'[s].idxoff = o
    <2>1. o \in L[0] /\ o \in L[d] /\ o \notin L[c]
      BY <1>3, <1>4, <1>5, <1>13
    <2>2. PICK s \in Procs : pc[s] = "del.unlink" /\ db[s].idxoff = o
      BY <2>1 DEF ListState, Lists
    <2>3. s # p
      <3>1. pc[p] = "del.unlink" => db[p].idxoff \in L[c]
        BY DEF ListState, Doing, Unlinks, OfDelete, c
      <3> QED BY <2>1, <2>2, <3>1
    <2> QED BY <2>2, <2>3, OthersStay DEF Stays
  <1> QED BY <1>9, <1>11, <1>12, <1>13

(* What is left to show of the lists that such a step does change.         *)
FreeOK(M, Q) ==
  /\ Linked(M[0], 0, Q[0], next')
  /\ \A o \in M[0] \ {0} : keyof'[o] = Blank /\ valof'[o] = Blank
ChainOK(c, M, Q) ==
  /\ Linked(M[c], c, Q[c], chain')
  /\ \A o \in M[c] \ {c} : ~Dying(o)' => keyof'[o] \in Keys /\ Hash[keyof'[o]] = c
  /\ \A o, s \in M[c] \ {c} : keyof'[o] = keyof'[s] /\ keyof'[o] \in Keys => o = s
OwnLists(p, M, Q) ==
  /\ FreeOK(M, Q) /\ ChainOK(db[p].chainoff, M, Q)
  /\ \A o \in M[db[p].chainoff] : o \in M[0] =>
       \E s \in Procs : pc'[s] = "del.unlink" /\ db'[s].idxoff = o
OwnCall(p, M, Q) ==
  /\ Doing(p, M, Q)' /\ Kept(M)'
  /\ Holding(p)' => \A q \in Procs : q # p /\ Holding(q) => db[q].idxoff # db'[p].idxoff
  /\ Appending(p)' => \A q \in Procs : q # p /\ Appending(q) => db[q].datoff # db'[p].datoff

(* If they are right, the whole invariant holds again.                     *)
LEMMA ConfinedStep ==
  ASSUME TypeInv, TypeInv', LockInv, LockInv', SizesStay, NEW L, NEW R, NEW M, NEW Q, NEW W,
         ListState(L, R), NEW p \in Procs, Acts(p), Confined(p, L, R, M, Q, W),
         OwnLists(p, M, Q), OwnCall(p, M, Q)
  PROVE  ListState(M, Q)'
  <1> DEFINE c == db[p].chainoff
  <1>0. AllRecs \subseteq AllRecs' /\ Heads' = Heads /\ Chains' = Chains
    BY SizesMean
  <1>1. pc[p] \in Writers
    BY DEF Confined
  <1>2. /\ c \in Chains /\ c \in Heads /\ L[c] \ {c} \subseteq AllRecs
    BY <1>1, Where
  <1>3. /\ M \in [Heads -> SUBSET Nat] /\ Q \in [Heads -> [Nat -> Nat]]
        /\ \A l \in Heads : \A x \in M[l] :
             x \in L[l] \/ x \in L[c] \ {c} \/ (Holding(p) /\ x = db[p].idxoff /\ x <= PtrMax)
        /\ \A o \in AllRecs' : \/ o \in AllRecs /\ offof'[o] = offof[o]
                               \/ Appending(p) /\ o = Eof /\ offof'[o] = db[p].datoff
        /\ \A d \in Chains : d # c => M[d] = L[d]
    BY DEF Confined
  <1>4. /\ Holding(p) => db[p].idxoff \in AllRecs /\ \A l \in Heads : db[p].idxoff \notin L[l]
        /\ Appending(p) => \A o \in AllRecs : offof[o] # db[p].datoff
    BY DEF ListState, Doing, Holds, Fresh
  <1>5. /\ \A l \in Heads : L[l] \subseteq {l} \cup AllRecs
        /\ \A l \in Heads : \A o \in L[l] : o # l => o <= PtrMax
        /\ \A d, e \in Chains : d # e => L[d] \cap L[e] = {}
        /\ \A o, s \in AllRecs : offof[o] = offof[s] => o = s
    BY DEF ListState, Lists, Contents
  <1>6. /\ Linked(M[0], 0, Q[0], next') /\ Linked(M[c], c, Q[c], chain')
        /\ \A o \in M[c] : o \in M[0] => \E s \in Procs : pc'[s] = "del.unlink" /\ db'[s].idxoff = o
        /\ \A o \in M[0] \ {0} : keyof'[o] = Blank /\ valof'[o] = Blank
        /\ \A o \in M[c] \ {c} : ~Dying(o)' => keyof'[o] \in Keys /\ Hash[keyof'[o]] = c
        /\ \A o, s \in M[c] \ {c} : keyof'[o] = keyof'[s] /\ keyof'[o] \in Keys => o = s
    BY DEF OwnLists, FreeOK, ChainOK
  <1>7. ASSUME NEW d \in Chains, d # c
        PROVE  /\ Linked(M[d], d, Q[d], chain')
               /\ \A o \in M[d] \ {d} : ~Dying(o)' => keyof'[o] \in Keys /\ Hash[keyof'[o]] = d
               /\ \A o, s \in M[d] \ {d} : keyof'[o] = keyof'[s] /\ keyof'[o] \in Keys => o = s
               /\ \A o \in M[d] : o \in M[0] => \E s \in Procs : pc'[s] = "del.unlink" /\ db'[s].idxoff = o
    BY <1>7, ConfinedChains
  <1> HIDE DEF c
  <1>8. ASSUME NEW l \in Heads
        PROVE  M[l] \subseteq {l} \cup AllRecs' /\ \A o \in M[l] : o # l => o <= PtrMax
    <2>1. ASSUME NEW x \in M[l] PROVE x \in {l} \cup AllRecs' /\ (x # l => x <= PtrMax)
      <3>1. CASE x \in L[l]
        BY <1>0, <1>5, <3>1
      <3>2. CASE x \in L[c] \ {c}
        BY <1>0, <1>2, <1>5, <3>2
      <3>3. CASE Holding(p) /\ x = db[p].idxoff /\ x <= PtrMax
        BY <1>0, <1>4, <3>3
      <3> QED BY <1>3, <2>1, <3>1, <3>2, <3>3
    <2> QED BY <2>1
  <1>9. ASSUME NEW d \in Chains, NEW e \in Chains, d # e PROVE M[d] \cap M[e] = {}
    <2>0. Chains \subseteq Heads
      BY RecordNumbers
    <2>1. ASSUME NEW a \in Chains, a # c, NEW x \in M[a] PROVE x \notin M[c]
      <3>1. a \in Heads /\ x \in L[a]
        BY <1>3, <2>0, <2>1
      <3>2. x \notin L[c]
        BY <1>2, <1>5, <2>1, <3>1
      <3>3. ~(Holding(p) /\ x = db[p].idxoff)
        BY <1>4, <3>1
      <3> QED BY <1>2, <1>3, <3>2, <3>3
    <2> QED BY <1>2, <1>3, <1>5, <1>9, <2>1
  <1>10. Lists(M, Q)'
    <2>1. \A d \in Chains : Linked(M[d], d, Q[d], chain')
      BY <1>6, <1>7
    <2>2. \A d \in Chains : \A o \in M[d] \cap M[0] : \E s \in Procs : pc'[s] = "del.unlink" /\ db'[s].idxoff = o
      BY <1>6, <1>7
    <2> QED BY <1>3, <1>6, <1>8, <1>9, <2>1, <2>2 DEF Lists
  <1>11. ASSUME NEW o \in AllRecs', NEW s \in AllRecs', offof'[o] = offof'[s] PROVE o = s
    BY <1>3, <1>4, <1>5, <1>11
  <1>12. Contents(M)'
    <2>1. \A d \in Chains : \A o \in M[d] \ {d} : ~Dying(o)' => keyof'[o] \in Keys /\ Hash[keyof'[o]] = d
      BY <1>6, <1>7
    <2>2. \A d \in Chains : \A o, s \in M[d] \ {d} : keyof'[o] = keyof'[s] /\ keyof'[o] \in Keys => o = s
      BY <1>6, <1>7
    <2> QED BY <1>6, <1>11, <2>1, <2>2 DEF Contents
  <1>13. \A q \in Procs : q # p => Untouched(q, L, R, M, Q)
    BY ConfinedUntouched
  <1>14. StepOK(p, L, R, M, Q)
    BY <1>10, <1>12, <1>13 DEF StepOK, OwnCall
  <1> QED BY <1>14, StepLists

(* The free list, when the step does not write there.                      *)
LEMMA FreeStays ==
  ASSUME TypeInv, LockInv, NEW L, NEW R, NEW M, NEW Q, NEW W, ListState(L, R), NEW p \in Procs,
         Confined(p, L, R, M, Q, W), M[0] = L[0], Q[0] = R[0], \A x \in W : x \notin L[0],
         \A x \in L[0] \ {0} : valof'[x] = valof[x] \/ valof'[x] = Blank
  PROVE  FreeOK(M, Q)
  <1>1. Linked(L[0], 0, R[0], next) /\ L[0] \subseteq Places /\ L[0] \ {0} \subseteq AllRecs
    BY ListOf, RecordNumbers DEF ListState
  <1>2. /\ \A x \in Places : x \notin W => next'[x] = next[x]
        /\ \A x \in AllRecs : x \notin W => keyof'[x] = keyof[x]
    BY DEF Confined
  <1>3. \A x \in L[0] : next'[x] = next[x]
    BY <1>1, <1>2
  <1>4. Linked(M[0], 0, Q[0], next')
    BY <1>1, <1>3, SamePointers
  <1>5. \A o \in L[0] \ {0} : keyof[o] = Blank /\ valof[o] = Blank
    BY DEF ListState, Contents
  <1> QED BY <1>1, <1>2, <1>4, <1>5 DEF FreeOK

(* The chain of the call, when the step does not write there.              *)
LEMMA ChainStays ==
  ASSUME TypeInv, TypeInv', LockInv, LockInv', NEW L, NEW R, NEW M, NEW Q, NEW W, ListState(L, R),
         NEW p \in Procs, Acts(p), Confined(p, L, R, M, Q, W),
         M[db[p].chainoff] = L[db[p].chainoff], Q[db[p].chainoff] = R[db[p].chainoff],
         \A x \in W : x \notin L[db[p].chainoff],
         \/ ~Deleting(p) /\ ~Deleting(p)'
         \/ Deleting(p) /\ Deleting(p)' /\ db'[p].saveptr = db[p].saveptr
  PROVE  ChainOK(db[p].chainoff, M, Q)
  <1> DEFINE c == db[p].chainoff
  <1>1. pc[p] \in Writers /\ (Deleting(p)' => db'[p].idxoff = db[p].idxoff)
    BY DEF Confined
  <1>2. c \in Chains /\ c \in Heads /\ L[c] \subseteq Places /\ L[c] \ {c} \subseteq AllRecs /\ Places \subseteq Nat
    BY <1>1, Where, RecordNumbers
  <1>3. Linked(L[c], c, R[c], chain)
    BY <1>2, ListOf DEF ListState
  <1>4. /\ \A x \in Places : x \notin W => next'[x] = next[x]
        /\ \A x \in AllRecs : x \notin W => keyof'[x] = keyof[x]
        /\ \A x \in W : x \notin L[c]
    BY DEF Confined
  <1>5. ASSUME NEW x \in L[c] PROVE (Dying(x)' <=> Dying(x)) /\ chain'[x] = chain[x]
    <2>1. x \in Nat /\ x \in Places
      BY <1>2
    <2>2. /\ Dying(x)' <=> Dying(x)
          /\ ~Dying(x) => chain'[x] = next'[x] /\ chain[x] = next[x]
          /\ Dying(x) /\ (x # db[p].idxoff \/ ~Deleting(p)) => chain'[x] = chain[x]
      BY <1>1, <2>1, ChainsElsewhere
    <2>3. next'[x] = next[x]
      BY <1>4, <2>1
    <2>4. x = db[p].idxoff /\ Deleting(p) => chain'[x] = chain[x]
      <3>1. ChainFacts /\ ChainFacts'
        BY ChainIs, ChainIsNext
      <3>2. Deleting(p) => chain[db[p].idxoff] = db[p].saveptr
        BY <3>1 DEF ChainFacts
      <3>3. Deleting(p)' => chain'[db'[p].idxoff] = db'[p].saveptr
        BY <3>1 DEF ChainFacts
      <3> QED BY <1>1, <3>2, <3>3
    <2> QED BY <2>2, <2>3, <2>4
  <1>6. M[c] = L[c] /\ Q[c] = R[c]
    OBVIOUS
  <1> HIDE DEF c
  <1>7. Linked(M[c], c, Q[c], chain')
    BY <1>3, <1>5, <1>6, SamePointers
  <1>8. \A o \in M[c] \ {c} : keyof'[o] = keyof[o]
    BY <1>2, <1>4, <1>6
  <1>9. \A o \in M[c] \ {c} : ~Dying(o)' => keyof'[o] \in Keys /\ Hash[keyof'[o]] = c
    BY <1>2, <1>5, <1>6, <1>8 DEF ListState, Contents
  <1>10. \A o, s \in M[c] \ {c} : keyof'[o] = keyof'[s] /\ keyof'[o] \in Keys => o = s
    BY <1>2, <1>6, <1>8 DEF ListState, Contents
  <1> QED BY <1>7, <1>9, <1>10 DEF c, ChainOK

(* No record gets lost.                                                    *)
LEMMA KeptStays ==
  ASSUME TypeInv, NEW L, NEW R, NEW M, ListState(L, R), NEW p \in Procs, Acts(p),
         AllRecs' = AllRecs, Len(idx') = Len(idx),
         \A l \in Heads : \A o \in L[l] : \/ \E m \in Heads : o \in M[m]
                                          \/ Holding(p)' /\ db'[p].idxoff = o,
         Holding(p) => \/ Holding(p)' /\ db'[p].idxoff = db[p].idxoff
                       \/ \E m \in Heads : db[p].idxoff \in M[m]
  PROVE  Kept(M)'
  <1>1. SUFFICES ASSUME HoldersLive, NHash + Len(idx) <= PtrMax, NEW o \in AllRecs
                 PROVE  (\E l \in Heads : o \in M[l]) \/ (\E q \in Procs : Holding(q)' /\ db'[q].idxoff = o)
    BY DEF Kept
  <1>2. (\E l \in Heads : o \in L[l]) \/ (\E q \in Procs : Holding(q) /\ db[q].idxoff = o)
    BY <1>1 DEF ListState, Kept
  <1>3. CASE \E l \in Heads : o \in L[l]
    BY <1>3
  <1>4. ASSUME NEW q \in Procs, Holding(q), db[q].idxoff = o
        PROVE  (\E l \in Heads : o \in M[l]) \/ (Holding(q)' /\ db'[q].idxoff = o)
    <2>1. CASE q = p
      BY <1>4, <2>1
    <2>2. CASE q # p
      BY <1>4, <2>2, OthersStay DEF Stays, Holding
    <2> QED BY <2>1, <2>2
  <1> QED BY <1>2, <1>3, <1>4

-----------------------------------------------------------------------------
(* The steps that write data records. *)

(* A step that writes data where the process may.                          *)
LEMMA DatLists ==
  ASSUME TypeInv, TypeInv', LockInv, LockInv', SizesStay, NEW L, NEW R, ListState(L, R),
         NEW p \in Procs, Acts(p), pc[p] \in {"del.dat", "reuse.dat", "rep.dat", "app.dat"},
         UNCHANGED <<head, idx>>, ~Deleting(p)', Doing(p, L, R)',
         \A x \in AllRecs : \/ valof'[x] = valof[x]
                            \/ pc[p] = "del.dat" /\ valof'[x] = Blank
                            \/ x \in L[db[p].chainoff]
                            \/ Holding(p) /\ x = db[p].idxoff,
         Holding(p)' => Holding(p), Holding(p) => Holding(p)' /\ db'[p].idxoff = db[p].idxoff,
         Appending(p)' => \A q \in Procs : q # p /\ Appending(q) => db[q].datoff # db'[p].datoff
  PROVE  ListState(L, R)'
  <1> DEFINE c == db[p].chainoff
  <1>1. /\ next' = next /\ keyof' = keyof /\ offof' = offof /\ AllRecs' = AllRecs /\ Len(idx') = Len(idx)
    BY DEF next, ReadPtr, Rec, keyof, offof, AllRecs
  <1>2. pc[p] \in Writers /\ ~Deleting(p) /\ (pc[p] \notin OnFree => pc[p] # "del.dat")
    BY DEF Writers, Deleting, OnFree
  <1>3. /\ c \in Heads /\ \A x \in L[c] : x \notin L[0]
        /\ L[0] \ {0} \subseteq AllRecs /\ c \in Chains
    BY <1>2, Where
  <1>4. Lists(L, R) /\ Holds(p, L)
    BY DEF ListState, Doing
  <1>5. /\ L \in [Heads -> SUBSET Nat] /\ R \in [Heads -> [Nat -> Nat]]
        /\ Holding(p) => \A l \in Heads : db[p].idxoff \notin L[l]
    BY <1>4 DEF Lists, Holds
  <1>6. Confined(p, L, R, L, R, {})
    BY <1>1, <1>2, <1>5 DEF Confined
  <1>7. ASSUME NEW x \in L[0] \ {0} PROVE valof'[x] = valof[x] \/ valof'[x] = Blank
    <2>1. x \in AllRecs /\ x \notin L[c]
      BY <1>3
    <2>2. ~(Holding(p) /\ x = db[p].idxoff)
      BY <1>5, RecordNumbers
    <2> QED BY <2>1, <2>2
  <1> DEFINE W == {}
  <1> HIDE DEF W
  <1>w. Confined(p, L, R, L, R, W) /\ W = {}
    BY <1>6 DEF W
  <1>8. FreeOK(L, R)
    BY <1>7, <1>w, FreeStays
  <1>9. ChainOK(db[p].chainoff, L, R)
    BY <1>2, <1>w, ChainStays
  <1>10. OwnLists(p, L, R)
    BY <1>3, <1>8, <1>9 DEF OwnLists
  <1>11. Kept(L)'
    BY <1>1, KeptStays
  <1>12. Holding(p)' => \A q \in Procs : q # p /\ Holding(q) => db[q].idxoff # db'[p].idxoff
    BY DEF ListState, Apart
  <1>13. OwnCall(p, L, R)
    BY <1>11, <1>12 DEF OwnCall
  <1> QED BY <1>6, <1>10, <1>13, ConfinedStep

(* The data of a record is erased.                                         *)
LEMMA DelDatLists ==
  ASSUME TypeInv, TypeInv', LockInv, LockInv', SizesStay, NEW L, NEW R, ListState(L, R),
         NEW p \in Procs, Acts(p), DelDat(p)
  PROVE  ListState(L, R)'
  <1> DEFINE c == db[p].chainoff
             k == call[p].key
             h == db[p]
  <1>1. /\ pc[p] = "del.dat" /\ pc'[p] = "del.free" /\ call'[p] = call[p] /\ db'[p] = h
        /\ UNCHANGED <<head, idx>> /\ dat' = [dat EXCEPT ![h.datoff] = Blank]
    BY Functions3 DEF DelDat, Step, Goto
  <1>2. Finds(p, L) /\ Unlinks(p, L) /\ h.datoff \in 1 .. Len(dat) /\ h.idxoff \in AllRecs
    BY <1>1, HandleOf DEF ListState, Doing, UsesData, UsesRecord
  <1>3. /\ \A x \in AllRecs : valof'[x] = IF offof[x] = h.datoff THEN Blank ELSE valof[x]
    BY <1>1, <1>2, SetDatEffect
  <1>4. /\ next' = next /\ keyof' = keyof /\ offof' = offof /\ AllRecs' = AllRecs
    BY <1>1 DEF next, ReadPtr, Rec, keyof, offof, AllRecs
  <1>5. c = Hash[k] /\ k \in Keys /\ pc[p] \in Writers
    <2>1. pc[p] \in Writers
      BY <1>1 DEF Writers
    <2> QED BY <2>1, Where
  <1>6. Doing(p, L, R)'
    <2> HIDE DEF c, h
    <2>1. Keyed(p)' /\ Walks(p, L, R)' /\ Missed(p, L)' /\ Saved(p)' /\ Searches(p, L)' /\ Holds(p, L)' /\ Fresh(p)'
      BY <1>1, <1>5 DEF c, h, k, Keyed, Walks, Missed, Saved, Searches, Holds, Fresh, OfStore, OnData, OnTail, Holding, Appending
    <2>2. Finds(p, L)'
      BY <1>1, <1>2, <1>4 DEF h, Finds
    <2>3. valof'[h.idxoff] = Blank
      BY <1>1, <1>2, <1>3 DEF h, Finds
    <2>4. Unlinks(p, L)'
      BY <1>1, <1>2, <1>4, <2>3 DEF h, Unlinks, OfDelete
    <2> QED BY <2>1, <2>2, <2>4 DEF Doing
  <1>7. ~Deleting(p)' /\ ~Holding(p)' /\ ~Holding(p) /\ ~Appending(p)'
    BY <1>1 DEF Deleting, Holding, Appending
  <1> QED BY <1>1, <1>3, <1>6, <1>7, DatLists

(* The data of a free record is overwritten.                               *)
LEMMA ReuseDatLists ==
  ASSUME TypeInv, TypeInv', LockInv, LockInv', SizesStay, NEW L, NEW R, ListState(L, R),
         NEW p \in Procs, Acts(p), ReuseDat(p)
  PROVE  ListState(L, R)'
  <1> DEFINE c == db[p].chainoff
             k == call[p].key
             h == db[p]
  <1>1. /\ pc[p] = "reuse.dat" /\ pc'[p] = "reuse.idx" /\ call'[p] = call[p]
        /\ db'[p] = [h EXCEPT !.datlen = DatLen[call[p].data]]
        /\ UNCHANGED <<head, idx>> /\ dat' = [dat EXCEPT ![h.datoff] = call[p].data]
    BY Functions3 DEF ReuseDat, Step, Goto, Handle
  <1>2. Missed(p, L) /\ Saved(p) /\ Holds(p, L) /\ h.datoff \in 1 .. Len(dat) /\ h.idxoff \in AllRecs /\ h \in Handles
    BY <1>1, HandleOf DEF ListState, Doing, UsesData, UsesRecord
  <1>3. \A x \in AllRecs : valof'[x] = IF offof[x] = h.datoff THEN call[p].data ELSE valof[x]
    BY <1>1, <1>2, SetDatEffect
  <1>4. /\ next' = next /\ keyof' = keyof /\ offof' = offof /\ AllRecs' = AllRecs
    BY <1>1 DEF next, ReadPtr, Rec, keyof, offof, AllRecs
  <1>5. c = Hash[k] /\ k \in Keys /\ pc[p] \in Writers
    <2>1. pc[p] \in Writers
      BY <1>1 DEF Writers
    <2> QED BY <2>1, Where
  <1>6. /\ db'[p].idxoff = h.idxoff /\ db'[p].chainoff = c /\ db'[p].datoff = h.datoff /\ db'[p].saveptr = h.saveptr
    BY <1>1, <1>2 DEF Handles
  <1>7. /\ ~Deleting(p)' /\ Holding(p)' /\ Holding(p) /\ ~Appending(p)'
    BY <1>1 DEF Deleting, Holding, Appending
  <1>8. Doing(p, L, R)'
    <2> HIDE DEF c, h
    <2>1. Keyed(p)' /\ Walks(p, L, R)' /\ Finds(p, L)' /\ Unlinks(p, L)' /\ Searches(p, L)' /\ Fresh(p)'
      BY <1>1, <1>5, <1>6 DEF k, Keyed, Walks, Finds, Unlinks, Searches, Fresh, OfDelete, Appending
    <2>2. Missed(p, L)' /\ Saved(p)'
      BY <1>1, <1>2, <1>4, <1>6 DEF c, h, Missed, Saved, OfStore
    <2>3. Holds(p, L)'
      BY <1>1, <1>2, <1>4, <1>6, <1>7 DEF h, Holds
    <2> QED BY <2>1, <2>2, <2>3 DEF Doing
  <1>9. h.datoff = offof[h.idxoff]
    BY <1>1, <1>2 DEF Holds
  <1>10. ASSUME NEW x \in AllRecs PROVE valof'[x] = valof[x] \/ x = h.idxoff
    BY <1>2, <1>3, <1>9 DEF ListState, Contents
  <1> QED BY <1>1, <1>6, <1>7, <1>8, <1>10, DatLists

(* The data of a record is replaced.                                       *)
LEMMA ReplaceDatLists ==
  ASSUME TypeInv, TypeInv', LockInv, LockInv', SizesStay, NEW L, NEW R, ListState(L, R),
         NEW p \in Procs, Acts(p), ReplaceDat(p)
  PROVE  ListState(L, R)'
  <1> DEFINE c == db[p].chainoff
             k == call[p].key
             h == db[p]
  <1>1. /\ pc[p] = "rep.dat" /\ pc'[p] = "unlock" /\ call'[p] = call[p] /\ db'[p] = h
        /\ UNCHANGED <<head, idx>> /\ dat' = [dat EXCEPT ![h.datoff] = call[p].data]
    BY Functions3 DEF ReplaceDat, Step, Goto
  <1>2. /\ h.datoff \in 1 .. Len(dat) /\ h.datoff = offof[h.idxoff] /\ h.idxoff \in L[c] \ {c}
    BY <1>1, HandleOf DEF ListState, Doing, UsesData, Finds
  <1>3. \A x \in AllRecs : valof'[x] = IF offof[x] = h.datoff THEN call[p].data ELSE valof[x]
    BY <1>1, <1>2, SetDatEffect
  <1>5. c = Hash[k] /\ k \in Keys /\ L[c] \ {c} \subseteq AllRecs
    <2>1. pc[p] \in Writers
      BY <1>1 DEF Writers
    <2> QED BY <2>1, Where
  <1>6. Doing(p, L, R)' /\ ~Deleting(p)' /\ ~Holding(p)' /\ ~Appending(p)'
    BY <1>1, <1>5, Leaves
  <1>7. ~Holding(p)
    BY <1>1 DEF Holding
  <1>8. ASSUME NEW x \in AllRecs PROVE valof'[x] = valof[x] \/ x \in L[c]
    <2>1. h.idxoff \in AllRecs
      BY <1>2, <1>5
    <2>2. offof[x] = offof[h.idxoff] => x = h.idxoff
      BY <2>1 DEF ListState, Contents
    <2> QED BY <1>2, <1>3, <2>2
  <1> QED BY <1>1, <1>6, <1>7, <1>8, DatLists

(* Data is appended; no record refers to it yet.                           *)
LEMMA AppDatLists ==
  ASSUME TypeInv, TypeInv', LockInv, LockInv', SizesStay, NEW L, NEW R, ListState(L, R),
         NEW p \in Procs, Acts(p), AppDat(p)
  PROVE  ListState(L, R)'
  <1> DEFINE c == db[p].chainoff
             k == call[p].key
             h == db[p]
  <1>1. /\ pc[p] = "app.dat" /\ pc'[p] = "app.datunlock" /\ call'[p] = call[p]
        /\ db'[p] = [h EXCEPT !.datoff = Len(dat) + 1, !.datlen = DatLen[call[p].data]]
        /\ UNCHANGED <<head, idx>> /\ dat' = Append(dat, call[p].data)
    BY Functions3 DEF AppDat, Step, Goto, Handle
  <1>2. Missed(p, L) /\ Saved(p) /\ call[p].data \in Data /\ h \in Handles /\ Len(dat) \in Nat
    BY <1>1, HandleOf, RecordNumbers DEF ListState, Doing, OfStore, OnData
  <1>3. \A x \in AllRecs : valof'[x] = valof[x]
    BY <1>1, <1>2, AppendDatEffect DEF SameVals
  <1>4. /\ next' = next /\ keyof' = keyof /\ offof' = offof /\ AllRecs' = AllRecs
    BY <1>1 DEF next, ReadPtr, Rec, keyof, offof, AllRecs
  <1>5. c = Hash[k] /\ k \in Keys /\ pc[p] \in Writers
    <2>1. pc[p] \in Writers
      BY <1>1 DEF Writers
    <2> QED BY <2>1, Where
  <1>6. /\ db'[p].chainoff = c /\ db'[p].datoff = Len(dat) + 1 /\ db'[p].saveptr = h.saveptr
    BY <1>1, <1>2 DEF Handles
  <1>7. /\ ~Deleting(p)' /\ ~Holding(p)' /\ ~Holding(p)
    BY <1>1 DEF Deleting, Holding
  <1>8. \A x \in AllRecs : offof'[x] # Len(dat) + 1
    <2>1. \A x \in AllRecs : offof[x] \in 1 .. Len(dat)
      BY FileValues
    <2> QED BY <1>2, <1>4, <2>1
  <1>9. Doing(p, L, R)'
    <2> HIDE DEF c, h
    <2>1. Keyed(p)' /\ Walks(p, L, R)' /\ Finds(p, L)' /\ Unlinks(p, L)' /\ Searches(p, L)' /\ Holds(p, L)'
      BY <1>1, <1>5, <1>6 DEF k, Keyed, Walks, Finds, Unlinks, Searches, Holds, Holding, OfDelete
    <2>2. Missed(p, L)' /\ Saved(p)'
      BY <1>1, <1>2, <1>4, <1>6 DEF c, h, Missed, Saved, OfStore, OnData, OnTail
    <2>3. Fresh(p)'
      BY <1>4, <1>6, <1>8 DEF Fresh
    <2> QED BY <2>1, <2>2, <2>3 DEF Doing
  <1>10. \A q \in Procs : db[q].datoff # db'[p].datoff
    <2>1. \A q \in Procs : db[q].datoff \in 0 .. Len(dat)
      BY HandleOf
    <2> QED BY <1>2, <1>6, <2>1
  <1> QED BY <1>1, <1>3, <1>7, <1>9, <1>10, DatLists

-----------------------------------------------------------------------------
(* The steps that write index records. *)

(* A free record gets its new key; it is on no list.                       *)
LEMMA ReuseIdxLists ==
  ASSUME TypeInv, TypeInv', LockInv, LockInv', SizesStay, NEW L, NEW R, ListState(L, R),
         NEW p \in Procs, Acts(p), ReuseIdx(p)
  PROVE  ListState(L, R)'
  <1> DEFINE c == db[p].chainoff
             k == call[p].key
             h == db[p]
             o == db[p].idxoff
             r == IdxRec(k, KeyLen[k], h.datoff, h.datlen, h.saveptr)
             W == {o}
  <1>1. /\ pc[p] = "reuse.idx" /\ pc'[p] = "link" /\ call'[p] = call[p] /\ db'[p] = h
        /\ UNCHANGED <<head, dat>> /\ idx' = [idx EXCEPT ![o - NHash] = r]
    BY Functions3 DEF ReuseIdx, Step, Goto
  <1>2. pc[p] \in Writers /\ pc[p] \notin OnFree /\ ~Deleting(p) /\ Holding(p) /\ pc[p] # "del.unlink"
    BY <1>1 DEF Writers, OnFree, Deleting, Holding
  <1>3. /\ c = Hash[k] /\ k \in Keys /\ c \in Heads /\ c \in L[c] /\ L[c] \ {c} \subseteq AllRecs
        /\ \A x \in L[c] : x \notin L[0]
    BY <1>2, Where
  <1>4. Missed(p, L) /\ Saved(p) /\ Holds(p, L) /\ Lists(L, R)
    BY DEF ListState, Doing
  <1>5. o \in AllRecs /\ (\A l \in Heads : o \notin L[l]) /\ h.datoff = offof[o]
    BY <1>1, <1>2, <1>4 DEF Holds
  <1>6. h.datoff \in 1 .. Len(dat) /\ h.datlen \in Nat /\ h.saveptr \in Nat /\ KeyLen[k] \in Nat /\ h \in Handles
    <2>1. h \in Handles /\ h.datoff \in 1 .. Len(dat)
      BY <1>1, HandleOf DEF UsesData
    <2> QED BY <1>3, <2>1, DbAssumption DEF Handles
  <1>7. r \in IdxRecs /\ r.datoff = offof[o] /\ r.ptr = h.saveptr /\ r.key = k
    <2>1. h.datoff \in Nat \ {0}
      BY <1>6, RecordNumbers
    <2> QED BY <1>3, <1>5, <1>6, <2>1 DEF IdxRec, IdxRecs
  <1> HIDE DEF r
  <1>8. /\ Len(idx') = Len(idx) /\ SameOffs /\ SameVals
        /\ next'[o] = h.saveptr /\ \A x \in Places : x # o => next'[x] = next[x]
        /\ keyof'[o] = k /\ \A x \in AllRecs : x # o => keyof'[x] = keyof[x]
    BY <1>1, <1>5, <1>7, SetRecEffect
  <1>9. AllRecs' = AllRecs
    BY <1>8 DEF AllRecs
  <1>10. ~Deleting(p)' /\ Holding(p)' /\ ~Appending(p)' /\ pc'[p] # "del.sethead"
    BY <1>1 DEF Deleting, Holding, Appending
  <1> HIDE DEF W
  <1>11. (\A x \in W : x = o) /\ (\A x : x \notin W => x # o)
    BY DEF W
  <1>12. 0 \in Heads /\ L \in [Heads -> SUBSET Nat] /\ R \in [Heads -> [Nat -> Nat]]
    BY <1>4, RecordNumbers DEF Lists
  <1>13. Confined(p, L, R, L, R, W)
    <2>1. \A x \in AllRecs : valof'[x] = valof[x] /\ offof'[x] = offof[x]
      BY <1>8 DEF SameVals, SameOffs
    <2> QED BY <1>2, <1>5, <1>8, <1>9, <1>10, <1>11, <1>12, <2>1 DEF Confined
  <1>14. FreeOK(L, R)
    <2>1. \A x \in W : x \notin L[0]
      BY <1>5, <1>11, <1>12
    <2>2. \A x \in L[0] \ {0} : valof'[x] = valof[x]
      <3>1. L[0] \ {0} \subseteq AllRecs
        BY <1>12, ListOf DEF ListState
      <3> QED BY <1>8, <3>1 DEF SameVals
    <2> QED BY <1>13, <2>1, <2>2, FreeStays
  <1>15. ChainOK(db[p].chainoff, L, R)
    <2>1. \A x \in W : x \notin L[db[p].chainoff]
      BY <1>3, <1>5, <1>11
    <2> QED BY <1>2, <1>10, <1>13, <2>1, ChainStays
  <1>16. OwnLists(p, L, R)
    BY <1>3, <1>14, <1>15 DEF OwnLists
  <1>17. Kept(L)'
    BY <1>1, <1>8, <1>9, <1>10, KeptStays
  <1>18. Doing(p, L, R)'
    <2>1. /\ \A x \in L[c] \ {c} : keyof'[x] = keyof[x]
          /\ next'[c] = next[c]
      BY <1>3, <1>5, <1>8, RecordNumbers
    <2> HIDE DEF c, h, o
    <2>2. Keyed(p)' /\ Walks(p, L, R)' /\ Finds(p, L)' /\ Unlinks(p, L)' /\ Searches(p, L)' /\ Fresh(p)'
      BY <1>1, <1>3, <1>10 DEF k, c, h, Keyed, Walks, Finds, Unlinks, Searches, Fresh, OfDelete
    <2>3. Missed(p, L)' /\ Saved(p)'
      BY <1>1, <1>4, <2>1 DEF c, h, Missed, Saved, OfStore
    <2>4. Holds(p, L)'
      BY <1>1, <1>5, <1>8, <1>9 DEF h, k, o, Holds
    <2> QED BY <2>2, <2>3, <2>4 DEF Doing
  <1>19. \A q \in Procs : q # p /\ Holding(q) => db[q].idxoff # db'[p].idxoff
    BY <1>1, <1>2 DEF ListState, Apart
  <1>20. OwnCall(p, L, R)
    BY <1>10, <1>17, <1>18, <1>19 DEF OwnCall
  <1> QED BY <1>13, <1>16, <1>20, ConfinedStep

(* A record gets a blank key and points into the free list, but its chain  *)
(* goes on at the pointer that was saved.                                  *)
LEMMA DelIdxLists ==
  ASSUME TypeInv, TypeInv', LockInv, LockInv', SizesStay, SlotInv, NEW L, NEW R, ListState(L, R),
         NEW p \in Procs, Acts(p), DelIdx(p)
  PROVE  ListState(L, R)'
  <1> DEFINE c == db[p].chainoff
             k == call[p].key
             h == db[p]
             o == db[p].idxoff
             r == IdxRec(Blank, klenof[o], h.datoff, h.datlen, h.ptrval)
             W == {o}
  <1>1. /\ pc[p] = "del.idx" /\ pc'[p] = "del.sethead" /\ call'[p] = call[p] /\ db'[p] = h
        /\ UNCHANGED <<head, dat>> /\ o \in AllRecs
    BY Functions3, HandleOf DEF DelIdx, Step, Goto, UsesRecord
  <1>2. pc[p] \in Writers /\ pc[p] \in OnFree /\ ~Deleting(p) /\ ~Holding(p) /\ pc[p] # "del.unlink"
    BY <1>1 DEF Writers, OnFree, Deleting, Holding
  <1>3. /\ c = Hash[k] /\ k \in Keys /\ c \in Heads /\ c \in L[c] /\ L[c] \ {c} \subseteq AllRecs
        /\ (\A x \in L[c] : x \notin L[0]) /\ InChain(p) /\ c \in Chains /\ L[c] \subseteq Places
    BY <1>2, Where
  <1>4. Finds(p, L) /\ Unlinks(p, L) /\ Lists(L, R)
    BY DEF ListState, Doing
  <1>5. /\ o \in L[c] \ {c} /\ keyof[o] = k /\ h.datoff = offof[o]
        /\ h.ptroff \in L[c] /\ next[h.ptroff] = o
        /\ h.saveptr = next[o] /\ h.ptrval = next[0] /\ valof[o] = Blank
    BY <1>1, <1>4 DEF Finds, Unlinks, OfDelete
  <1>6. idx' = [idx EXCEPT ![o - NHash] = r]
    <2>1. idx[o - NHash].klen = klenof[o]
      BY <1>1, RecordNumbers DEF klenof, Rec
    <2> QED BY <2>1 DEF DelIdx
  <1>7. r \in IdxRecs /\ r.datoff = offof[o] /\ r.ptr = next[0] /\ r.key = Blank
    <2>1. h.datoff \in Nat \ {0} /\ h.datlen \in Nat /\ h.ptrval \in Nat
      <3>1. h \in Handles /\ h.datoff \in 1 .. Len(dat)
        BY <1>1, HandleOf DEF UsesData
      <3> QED BY <3>1, RecordNumbers DEF Handles
    <2>2. klenof[o] \in Nat
      <3>1. o \in Nat /\ o - NHash \in 1 .. Len(idx)
        BY <1>1, RecordNumbers
      <3>2. idx[o - NHash] \in IdxRecs
        BY <3>1 DEF TypeInv, FilesOK
      <3> QED BY <3>1, <3>2 DEF klenof, Rec, IdxRecs
    <2> QED BY <1>5, <2>1, <2>2 DEF IdxRec, IdxRecs
  <1> HIDE DEF r
  <1>8. /\ Len(idx') = Len(idx) /\ SameOffs /\ SameVals
        /\ next'[o] = next[0] /\ \A x \in Places : x # o => next'[x] = next[x]
        /\ keyof'[o] = Blank /\ \A x \in AllRecs : x # o => keyof'[x] = keyof[x]
    BY <1>1, <1>6, <1>7, SetRecEffect
  <1>9. AllRecs' = AllRecs /\ \A x \in AllRecs : valof'[x] = valof[x] /\ offof'[x] = offof[x]
    BY <1>8 DEF AllRecs, SameVals, SameOffs
  <1>10. Deleting(p)' /\ ~Holding(p)' /\ ~Appending(p)'
    BY <1>1 DEF Deleting, Holding, Appending
  <1> HIDE DEF W
  <1>11. (\A x \in W : x = o) /\ (\A x : x \notin W => x # o)
    BY DEF W
  <1>12. 0 \in Heads /\ L \in [Heads -> SUBSET Nat] /\ R \in [Heads -> [Nat -> Nat]] /\ 0 \in Places /\ 0 # o
    BY <1>1, <1>4, RecordNumbers DEF Lists
  <1>13. Confined(p, L, R, L, R, W)
    BY <1>1, <1>2, <1>5, <1>8, <1>9, <1>11, <1>12 DEF Confined
  <1>14. FreeOK(L, R)
    <2>1. \A x \in W : x \notin L[0]
      BY <1>3, <1>5, <1>11
    <2>2. \A x \in L[0] \ {0} : valof'[x] = valof[x]
      <3>1. L[0] \ {0} \subseteq AllRecs
        BY <1>12, ListOf DEF ListState
      <3> QED BY <1>9, <3>1
    <2> QED BY <1>13, <2>1, <2>2, FreeStays
  <1>15. Linked(L[c], c, R[c], next)
    BY <1>2, <1>3, OwnChain
  <1>16. /\ chain'[o] = next[o] /\ \A x : x = o => Dying(x)'
         /\ \A x \in L[c] : x # o => chain'[x] = next[x] /\ ~Dying(x)'
    <2>1. ChainFacts'
      BY ChainIsNext
    <2>2. chain'[o] = next[o]
      BY <1>1, <1>5, <1>10, <2>1 DEF ChainFacts
    <2>3. ASSUME NEW x, x = o PROVE Dying(x)'
      BY <1>1, <1>10, <2>3 DEF Dying
    <2>4. ASSUME NEW x \in L[c], x # o PROVE chain'[x] = next[x] /\ ~Dying(x)'
      <3>1. ~Dying(x)'
        BY <1>1, <1>10, <2>1, <2>4 DEF ChainFacts
      <3>2. x \in Places /\ x \in Nat
        BY <1>3, RecordNumbers
      <3> QED BY <1>8, <2>1, <2>4, <3>1, <3>2 DEF ChainFacts
    <2> QED BY <2>2, <2>3, <2>4
  <1>17. ASSUME NEW x \in L[c] \ {c}, x # o
         PROVE  keyof'[x] = keyof[x] /\ keyof[x] \in Keys /\ Hash[keyof[x]] = c /\ keyof[x] # k
    <2>1. keyof'[x] = keyof[x]
      BY <1>3, <1>8, <1>17
    <2>2. keyof[x] \in Keys /\ Hash[keyof[x]] = c
      BY <1>2, <1>3, OnChainIs
    <2>3. keyof[x] # k
      BY <1>3, <1>5, <1>17 DEF ListState, Contents
    <2> QED BY <2>1, <2>2, <2>3
  <1>18. Blank \notin Keys
    BY DbAssumption
  <1>19. ChainOK(c, L, R)
    <2> HIDE DEF c, o
    <2>1. Linked(L[c], c, R[c], chain')
      BY <1>15, <1>16, SamePointers
    <2>2. \A x \in L[c] \ {c} : ~Dying(x)' => keyof'[x] \in Keys /\ Hash[keyof'[x]] = c
      <3>1. ASSUME NEW x \in L[c] \ {c}, ~Dying(x)' PROVE keyof'[x] \in Keys /\ Hash[keyof'[x]] = c
        <4>1. x # o
          BY <1>16, <3>1
        <4> QED BY <1>17, <3>1, <4>1
      <3> QED BY <3>1
    <2>3. \A x, s \in L[c] \ {c} : keyof'[x] = keyof'[s] /\ keyof'[x] \in Keys => x = s
      <3>1. ASSUME NEW x \in L[c] \ {c}, NEW s \in L[c] \ {c}, keyof'[x] = keyof'[s], keyof'[x] \in Keys
            PROVE  x = s
        <4>1. x # o /\ s # o
          BY <1>8, <1>18, <3>1
        <4> QED BY <1>3, <1>17, <3>1, <4>1 DEF ListState, Contents
      <3> QED BY <3>1
    <2> QED BY <2>1, <2>2, <2>3 DEF ChainOK
  <1>20. OwnLists(p, L, R)
    BY <1>3, <1>14, <1>19 DEF OwnLists
  <1>21. Kept(L)'
    BY <1>2, <1>8, <1>9, KeptStays
  <1>22. Doing(p, L, R)'
    <2>1. h.ptroff # o /\ h.ptroff \in Places
      <3>1. next[o] # o
        BY <1>5, <1>12, <1>15, Successor
      <3> QED BY <1>3, <1>5, <3>1
    <2>2. next'[h.ptroff] = o /\ next'[0] = next[0]
      BY <1>5, <1>8, <1>12, <2>1
    <2>3. \A x \in L[c] \ {c} : keyof'[x] # k
      BY <1>3, <1>8, <1>17, <1>18
    <2> HIDE DEF c, h, o
    <2>4. Keyed(p)' /\ Walks(p, L, R)' /\ Finds(p, L)' /\ Searches(p, L)' /\ Saved(p)' /\ Holds(p, L)' /\ Fresh(p)'
      BY <1>1, <1>3, <1>10
         DEF k, c, h, Keyed, Walks, Finds, Searches, Saved, Holds, Fresh, OfStore, OnData, OnTail
    <2>5. Missed(p, L)'
      BY <1>1, <2>3 DEF c, h, k, Missed
    <2>6. Unlinks(p, L)'
      BY <1>1, <1>3, <1>5, <1>8, <1>9, <2>2 DEF c, h, o, Unlinks, OfDelete
    <2> QED BY <2>4, <2>5, <2>6 DEF Doing
  <1>23. OwnCall(p, L, R)
    BY <1>10, <1>21, <1>22 DEF OwnCall
  <1> QED BY <1>13, <1>20, <1>23, ConfinedStep

-----------------------------------------------------------------------------
(* The steps that write a pointer. *)

(* _db_writeptr with a value that fits.                                    *)
LEMMA PtrWritten ==
  ASSUME TypeInv, NEW p \in Procs, NEW o \in Places, NEW v \in Nat, v <= PtrMax, NEW l, WritePtr(p, o, v, l)
  PROVE  /\ Len(idx') = Len(idx) /\ AllRecs' = AllRecs
         /\ next'[o] = v /\ \A x \in Places : x # o => next'[x] = next[x]
         /\ \A x \in AllRecs : keyof'[x] = keyof[x] /\ valof'[x] = valof[x] /\ offof'[x] = offof[x]
         /\ pc'[p] = l /\ call'[p] = call[p] /\ db'[p] = db[p]
  <1>1. SetPtr(o, v) /\ dat' = dat /\ pc'[p] = l /\ call'[p] = call[p] /\ db'[p] = db[p]
    BY DbAssumption, Functions3 DEF WritePtr, Goto
  <1>2. /\ Len(idx') = Len(idx) /\ SameKeys /\ SameOffs /\ SameVals
        /\ next'[o] = v /\ \A x \in Places : x # o => next'[x] = next[x]
    BY <1>1, SetPtrEffect
  <1> QED BY <1>1, <1>2 DEF SameKeys, SameOffs, SameVals, AllRecs

(* What a step of p makes of the chains L: the last step of a deletion     *)
(* takes a record off its chain, the last one of an insertion puts it on.  *)
TakesOff(p, d) == pc[p] = "del.unlink" /\ pc'[p] = "del.unlock" /\ d = db[p].chainoff
PutsOn(p, d)   == pc[p] = "link" /\ pc'[p] = "unlock" /\ d = db[p].chainoff
Relinks(p, L, M) ==
  \A d \in Chains : M[d] = IF TakesOff(p, d) THEN L[d] \ {db[p].idxoff}
                           ELSE IF PutsOn(p, d) THEN L[d] \cup {db[p].idxoff} ELSE L[d]

(* An erased record comes to the front of the free list.                   *)
LEMMA DelSetHeadLists ==
  ASSUME TypeInv, TypeInv', LockInv, LockInv', SizesStay, NEW L, NEW R, ListState(L, R),
         NEW p \in Procs, Acts(p), DelSetHead(p)
  PROVE  \E M, Q : ListState(M, Q)' /\ Relinks(p, L, M)
  <1> DEFINE c == db[p].chainoff
             k == call[p].key
             h == db[p]
             o == db[p].idxoff
             a == db[p].ptroff
             W == {0}
  <1>1. pc[p] = "del.sethead" /\ WritePtr(p, 0, o, "del.unlink")
    BY DEF DelSetHead, FREE_OFF
  <1>2. pc[p] \in Writers /\ pc[p] \in OnFree /\ Deleting(p) /\ ~Holding(p)
    BY <1>1 DEF Writers, OnFree, Deleting, Holding
  <1>3. /\ c = Hash[k] /\ k \in Keys /\ c \in Chains /\ c \in Heads /\ c # 0 /\ c \in L[c]
        /\ L[c] \ {c} \subseteq AllRecs /\ L[c] \subseteq Places /\ 0 \in L[0] /\ 0 \notin L[c]
        /\ \A x \in L[c] : x \notin L[0]
        /\ \A x \in L[0] : x \in Places
    BY <1>1, <1>2, Where
  <1>4. Lists(L, R) /\ Contents(L) /\ Unlinks(p, L) /\ Missed(p, L)
    BY DEF ListState, Doing
  <1>5. /\ o \in L[c] \ {c} /\ a \in L[c] /\ next[a] = o /\ valof[o] = Blank
        /\ o \notin L[0] /\ keyof[o] = Blank /\ next[o] = next[0]
        /\ \A x \in L[c] \ {c} : keyof[x] # k
    BY <1>1, <1>4 DEF Unlinks, OfDelete, Missed
  <1>6. o <= PtrMax /\ o \in AllRecs /\ o \in Nat \ {0} /\ 0 \in Places /\ o \in Places /\ 0 \in Heads
    BY <1>3, <1>4, <1>5, RecordNumbers DEF Lists
  <1>7. /\ Len(idx') = Len(idx) /\ AllRecs' = AllRecs
        /\ next'[0] = o /\ \A x \in Places : x # 0 => next'[x] = next[x]
        /\ \A x \in AllRecs : keyof'[x] = keyof[x] /\ valof'[x] = valof[x] /\ offof'[x] = offof[x]
        /\ pc'[p] = "del.unlink" /\ call'[p] = call[p] /\ db'[p] = h
    BY <1>1, <1>6, PtrWritten
  <1>8. Deleting(p)' /\ ~Holding(p)' /\ ~Appending(p)'
    BY <1>7 DEF Deleting, Holding, Appending
  <1>9. \E rk : Linked(L[0] \cup {o}, 0, rk, next')
    <2>1. Linked(L[0], 0, R[0], next)
      BY <1>4 DEF Lists
    <2>2. next'[o] = next[0] /\ \A x \in L[0] : x # 0 => next'[x] = next[x]
      BY <1>3, <1>5, <1>6, <1>7
    <2>3. o \in Nat \ {0} /\ o \notin L[0] /\ next'[0] = o
      BY <1>5, <1>6, <1>7
    <2> HIDE DEF o
    <2> QED BY <2>1, <2>2, <2>3, PutInFront
  <1>10. PICK rk : Linked(L[0] \cup {o}, 0, rk, next')
    BY <1>9
  <1>11. PICK M, Q : /\ M \in [Heads -> SUBSET Nat] /\ Q \in [Heads -> [Nat -> Nat]]
                     /\ M[0] = L[0] \cup {o} /\ Q[0] = rk
                     /\ \A d \in Heads : d # 0 => M[d] = L[d] /\ Q[d] = R[d]
    <2>1. L \in [Heads -> SUBSET Nat] /\ R \in [Heads -> [Nat -> Nat]]
      BY <1>4 DEF Lists
    <2>2. rk \in [Nat -> Nat] /\ L[0] \cup {o} \in SUBSET Nat
      BY <1>10 DEF Linked
    <2> HIDE DEF o
    <2> DEFINE N == [L EXCEPT ![0] = L[0] \cup {o}]
               S == [R EXCEPT ![0] = rk]
    <2>3. /\ N \in [Heads -> SUBSET Nat] /\ S \in [Heads -> [Nat -> Nat]]
          /\ N[0] = L[0] \cup {o} /\ S[0] = rk
          /\ \A d \in Heads : d # 0 => N[d] = L[d] /\ S[d] = R[d]
      BY <1>6, <2>1, <2>2
    <2> HIDE DEF N, S
    <2> QED BY <2>3
  <1> HIDE DEF W
  <1>12. \A x : x \in W <=> x = 0
    BY DEF W
  <1>13. Confined(p, L, R, M, Q, W)
    <2>1. \A d \in Chains : d \in Heads /\ d # 0
      BY RecordNumbers
    <2>2. ASSUME NEW l \in Heads, NEW x \in M[l] PROVE x \in L[l] \/ x \in L[c] \ {c}
      <3> HIDE DEF c
      <3> QED BY <1>5, <1>11, <2>2
    <2>3. \A x \in Places : x \notin W => next'[x] = next[x]
      BY <1>7, <1>12
    <2>4. \A x \in W : x \in L[0]
      BY <1>3, <1>12
    <2> QED BY <1>2, <1>7, <1>11, <2>1, <2>2, <2>3, <2>4 DEF Confined
  <1>14. FreeOK(M, Q)
    <2>1. Linked(M[0], 0, Q[0], next')
      BY <1>10, <1>11
    <2>2. ASSUME NEW x \in M[0] \ {0} PROVE keyof'[x] = Blank /\ valof'[x] = Blank
      <3>1. x \in AllRecs /\ keyof[x] = Blank /\ valof[x] = Blank
        <4>1. CASE x = o
          BY <1>5, <1>6, <4>1
        <4>2. CASE x \in L[0] \ {0}
          BY <1>4, <1>6, <4>2, ListOf DEF Contents
        <4> QED BY <1>11, <2>2, <4>1, <4>2
      <3> QED BY <1>7, <3>1
    <2> QED BY <2>1, <2>2 DEF FreeOK
  <1>15. ChainOK(db[p].chainoff, M, Q)
    <2>1. \A x \in W : x \notin L[db[p].chainoff]
      BY <1>3, <1>12
    <2>2. M[db[p].chainoff] = L[db[p].chainoff] /\ Q[db[p].chainoff] = R[db[p].chainoff]
      BY <1>3, <1>11
    <2> QED BY <1>2, <1>7, <1>8, <1>13, <2>1, <2>2, ChainStays
  <1>16. OwnLists(p, M, Q)
    <2>1. \A x \in M[c] : x \in M[0] => x = o
      BY <1>3, <1>11
    <2> QED BY <1>7, <1>14, <1>15, <2>1 DEF OwnLists
  <1>17. Kept(M)'
    <2>1. \A l \in Heads : \A x \in L[l] : x \in M[l]
      BY <1>11
    <2> QED BY <1>2, <1>7, <2>1, KeptStays
  <1>18. Doing(p, M, Q)'
    <2>1. M[c] = L[c] /\ o \in M[0] /\ next'[a] = o /\ \A x \in L[c] \ {c} : keyof'[x] # k
      BY <1>3, <1>5, <1>7, <1>11
    <2> HIDE DEF c, h, o, a
    <2>2. Keyed(p)' /\ Walks(p, M, Q)' /\ Finds(p, M)' /\ Searches(p, M)' /\ Saved(p)' /\ Holds(p, M)' /\ Fresh(p)'
      BY <1>3, <1>7, <1>8
         DEF k, c, h, Keyed, Walks, Finds, Searches, Saved, Holds, Fresh, OfStore, OnData, OnTail
    <2>3. Missed(p, M)'
      BY <1>7, <2>1 DEF c, h, k, Missed
    <2>4. Unlinks(p, M)'
      BY <1>5, <1>7, <2>1 DEF c, h, o, a, Unlinks, OfDelete
    <2> QED BY <2>2, <2>3, <2>4 DEF Doing
  <1>19. OwnCall(p, M, Q)
    BY <1>8, <1>17, <1>18 DEF OwnCall
  <1>20. ListState(M, Q)'
    BY <1>13, <1>16, <1>19, ConfinedStep
  <1>21. Relinks(p, L, M)
    <2>1. \A d \in Chains : d \in Heads /\ d # 0
      BY RecordNumbers
    <2> QED BY <1>1, <1>11, <2>1 DEF Relinks, TakesOff, PutsOn
  <1> QED BY <1>20, <1>21

(* It leaves its chain.                                                    *)
LEMMA DelUnlinkLists ==
  ASSUME TypeInv, TypeInv', LockInv, LockInv', SizesStay, NEW L, NEW R, ListState(L, R),
         NEW p \in Procs, Acts(p), DelUnlink(p)
  PROVE  \E M, Q : ListState(M, Q)' /\ Relinks(p, L, M)
  <1> DEFINE c == db[p].chainoff
             k == call[p].key
             h == db[p]
             o == db[p].idxoff
             a == db[p].ptroff
             v == db[p].saveptr
             W == {a}
  <1>1. pc[p] = "del.unlink" /\ WritePtr(p, a, v, "del.unlock")
    BY DEF DelUnlink
  <1>2. pc[p] \in Writers /\ pc[p] \in OnFree /\ Deleting(p) /\ ~Holding(p)
    BY <1>1 DEF Writers, OnFree, Deleting, Holding
  <1>3. /\ c = Hash[k] /\ k \in Keys /\ c \in Chains /\ c \in Heads /\ c # 0 /\ c \in L[c]
        /\ L[c] \ {c} \subseteq AllRecs /\ L[c] \subseteq Places /\ 0 \in L[0] /\ 0 \notin L[c]
        /\ (\A x \in L[c] : x \in L[0] => x = o) /\ InChain(p)
    BY <1>1, <1>2, Where
  <1>4. Lists(L, R) /\ Contents(L) /\ Unlinks(p, L) /\ Missed(p, L)
    BY DEF ListState, Doing
  <1>5. /\ o \in L[c] \ {c} /\ a \in L[c] /\ next[a] = o /\ o \in L[0]
        /\ \A x \in L[c] \ {c} : keyof[x] # k
    BY <1>1, <1>4 DEF Unlinks, OfDelete, Missed
  <1>6. 0 \in Heads /\ Places \subseteq Nat /\ o \in AllRecs /\ o # 0 /\ v \in Nat /\ a \in Places
    BY <1>3, <1>5, RecordNumbers, HandleOf
  <1>7. a # o
    <2>1. Linked(L[0], 0, R[0], next)
      BY <1>4 DEF Lists
    <2>2. next[o] # o
      <3> HIDE DEF o
      <3> QED BY <1>5, <1>6, <2>1, Successor
    <2> QED BY <1>5, <2>2
  <1>8. /\ Linked(L[c], c, R[c], chain) /\ chain[o] = v
        /\ \A x \in L[c] : x # o => ~Dying(x) /\ chain[x] = next[x]
    <2>1. Linked(L[c], c, R[c], chain)
      BY <1>3, <1>4 DEF Lists
    <2>2. chain[o] = v
      BY <1>2, ChainIs DEF ChainFacts
    <2> QED BY <1>3, <2>1, <2>2, NotDying
  <1>9. v <= PtrMax
    <2>1. v = 0 \/ v \in L[c] \ {c}
      <3> HIDE DEF c, o, v
      <3> QED BY <1>5, <1>8, Successor
    <2> QED BY <1>3, <1>4, <2>1, DbAssumption DEF Lists
  <1>10. /\ Len(idx') = Len(idx) /\ AllRecs' = AllRecs
         /\ next'[a] = v /\ \A x \in Places : x # a => next'[x] = next[x]
         /\ \A x \in AllRecs : keyof'[x] = keyof[x] /\ valof'[x] = valof[x] /\ offof'[x] = offof[x]
         /\ pc'[p] = "del.unlock" /\ call'[p] = call[p] /\ db'[p] = h
    BY <1>1, <1>6, <1>9, PtrWritten
  <1>11. ~Deleting(p)' /\ ~Holding(p)' /\ ~Appending(p)'
    BY <1>10 DEF Deleting, Holding, Appending
  <1>12. \A x \in Nat : ~Dying(x)' /\ chain'[x] = next'[x]
    <2>1. ASSUME NEW q \in Procs PROVE ~Deleting(q)'
      <3>1. CASE q = p
        BY <1>11, <3>1
      <3>2. CASE q # p
        <4>1. pc[q] \notin OnFree /\ pc'[q] = pc[q]
          BY <1>2, <3>2, Alone, OthersStay DEF Stays
        <4> QED BY <4>1 DEF Deleting, OnFree
      <3> QED BY <3>1, <3>2
    <2>2. \A x : ~Dying(x)'
      BY <2>1 DEF Dying
    <2>3. ChainFacts'
      BY ChainIsNext
    <2> QED BY <2>2, <2>3 DEF ChainFacts
  <1>13. Linked(L[c] \ {o}, c, R[c], chain')
    <2>1. chain[a] = o
      BY <1>5, <1>7, <1>8
    <2>2. chain'[a] = chain[o]
      BY <1>6, <1>8, <1>10, <1>12
    <2>3. \A x \in L[c] : x # a /\ x # o => chain'[x] = chain[x]
      BY <1>3, <1>6, <1>8, <1>10, <1>12
    <2> HIDE DEF c, o, a, v
    <2> QED BY <1>5, <1>6, <1>8, <2>1, <2>2, <2>3, TakeOut
  <1>14. PICK M : /\ M \in [Heads -> SUBSET Nat]
                  /\ M[c] = L[c] \ {o} /\ \A d \in Heads : d # c => M[d] = L[d]
    <2>1. L \in [Heads -> SUBSET Nat]
      BY <1>4 DEF Lists
    <2> HIDE DEF c, o
    <2> DEFINE N == [L EXCEPT ![c] = L[c] \ {o}]
    <2>2. /\ N \in [Heads -> SUBSET Nat]
          /\ N[c] = L[c] \ {o} /\ \A d \in Heads : d # c => N[d] = L[d]
      BY <1>3, <2>1
    <2> HIDE DEF N
    <2> QED BY <2>2
  <1> HIDE DEF W
  <1>15. \A x : x \in W <=> x = a
    BY DEF W
  <1>16. Confined(p, L, R, M, R, W)
    <2>1. \A d \in Chains : d \in Heads
      BY RecordNumbers
    <2>2. \A l \in Heads : \A x \in M[l] : x \in L[l]
      <3> HIDE DEF c, o
      <3> QED BY <1>14
    <2>3. R \in [Heads -> [Nat -> Nat]]
      BY <1>4 DEF Lists
    <2> QED BY <1>2, <1>5, <1>10, <1>11, <1>14, <1>15, <2>1, <2>2, <2>3 DEF Confined
  <1>17. M[0] = L[0]
    BY <1>3, <1>6, <1>14
  <1>18. FreeOK(M, R)
    <2>1. \A x \in W : x \notin L[0]
      BY <1>3, <1>5, <1>7, <1>15
    <2>2. \A x \in L[0] \ {0} : valof'[x] = valof[x]
      BY <1>4, <1>6, <1>10, ListOf
    <2> QED BY <1>16, <1>17, <2>1, <2>2, FreeStays
  <1>19. ChainOK(c, M, R)
    <2> HIDE DEF c, o
    <2>1. \A x \in M[c] \ {c} : keyof'[x] = keyof[x] /\ x \in L[c] \ {c} /\ ~Dying(x)
      BY <1>3, <1>8, <1>10, <1>14
    <2>2. \A x \in M[c] \ {c} : keyof'[x] \in Keys /\ Hash[keyof'[x]] = c
      BY <1>3, <1>4, <2>1 DEF Contents
    <2>3. \A x, s \in M[c] \ {c} : keyof'[x] = keyof'[s] /\ keyof'[x] \in Keys => x = s
      BY <1>3, <1>4, <2>1 DEF Contents
    <2> QED BY <1>13, <1>14, <2>2, <2>3 DEF ChainOK
  <1>20. OwnLists(p, M, R)
    <2>1. \A x \in M[c] : x \notin M[0]
      BY <1>3, <1>14, <1>17
    <2> QED BY <1>18, <1>19, <2>1 DEF OwnLists
  <1>21. Kept(M)'
    <2>1. ASSUME NEW l \in Heads, NEW x \in L[l] PROVE \E m \in Heads : x \in M[m]
      <3>1. CASE x = o
        BY <1>5, <1>6, <1>17, <3>1
      <3>2. CASE x # o
        <4> HIDE DEF c, o
        <4>1. x \in M[l]
          BY <1>14, <2>1, <3>2
        <4> QED BY <4>1
      <3> QED BY <3>1, <3>2
    <2> QED BY <1>2, <1>10, <2>1, KeptStays
  <1>22. Doing(p, M, R)'
    <2>1. \A x \in M[c] \ {c} : keyof'[x] # k
      BY <1>3, <1>5, <1>10, <1>14
    <2> HIDE DEF c, h, o, a
    <2>2. Keyed(p)' /\ Walks(p, M, R)' /\ Finds(p, M)' /\ Searches(p, M)' /\ Saved(p)' /\ Holds(p, M)' /\ Fresh(p)'
      BY <1>3, <1>10, <1>11
         DEF k, c, h, Keyed, Walks, Finds, Searches, Saved, Holds, Fresh, OfStore, OnData, OnTail
    <2>3. Missed(p, M)'
      BY <1>10, <2>1 DEF c, h, k, Missed
    <2>4. Unlinks(p, M)'
      BY <1>10 DEF Unlinks, OfDelete
    <2> QED BY <2>2, <2>3, <2>4 DEF Doing
  <1>23. OwnCall(p, M, R)
    BY <1>11, <1>21, <1>22 DEF OwnCall
  <1>24. ListState(M, R)'
    BY <1>16, <1>20, <1>23, ConfinedStep
  <1>25. Relinks(p, L, M)
    <2>1. \A d \in Chains : d \in Heads
      BY RecordNumbers
    <2> HIDE DEF o
    <2>2. \A d \in Chains : TakesOff(p, d) <=> d = c
      BY <1>1, <1>10 DEF TakesOff
    <2>3. \A d \in Chains : M[d] = IF d = c THEN L[d] \ {o} ELSE L[d]
      <3> HIDE DEF c
      <3> QED BY <1>3, <1>14, <2>1
    <2>4. \A d \in Chains : ~PutsOn(p, d)
      BY <1>1 DEF PutsOn
    <2> HIDE DEF c
    <2>5. \A d \in Chains : M[d] = IF TakesOff(p, d) THEN L[d] \ {o} ELSE IF PutsOn(p, d) THEN L[d] \cup {o} ELSE L[d]
      BY <2>2, <2>3, <2>4
    <2> QED BY <2>5 DEF Relinks, o
  <1> QED BY <1>24, <1>25

(* A record that fits leaves the free list.                                *)
LEMMA FindFreeTakeLists ==
  ASSUME TypeInv, TypeInv', LockInv, LockInv', SizesStay, NEW L, NEW R, ListState(L, R),
         NEW p \in Procs, Acts(p), FindFreeTake(p)
  PROVE  \E M, Q : ListState(M, Q)' /\ Relinks(p, L, M)
  <1> DEFINE c == db[p].chainoff
             k == call[p].key
             h == db[p]
             o == db[p].idxoff
             a == db[p].ptroff
             v == db[p].ptrval
             W == {a}
  <1>1. pc[p] = "ff.take" /\ WritePtr(p, a, v, "ff.unlock")
    BY DEF FindFreeTake
  <1>2. pc[p] \in Writers /\ pc[p] \in OnFree /\ ~Deleting(p) /\ ~Holding(p)
    BY <1>1 DEF Writers, OnFree, Deleting, Holding
  <1>3. /\ c = Hash[k] /\ k \in Keys /\ c \in Chains /\ c \in Heads /\ c # 0 /\ c \in L[c] /\ c \notin L[0]
        /\ L[0] \ {0} \subseteq AllRecs /\ L[0] \subseteq Places /\ 0 \in L[0] /\ c \in Places
        /\ L[c] \ {c} \subseteq AllRecs
        /\ \A d \in Chains : \A x \in L[d] : x \notin L[0]
    BY <1>1, <1>2, Where
  <1>4. Lists(L, R) /\ Contents(L) /\ Searches(p, L) /\ Missed(p, L) /\ Saved(p) /\ Holds(p, L)
    BY DEF ListState, Doing
  <1>5. /\ o \in L[0] \ {0} /\ a \in L[0] /\ next[a] = o /\ v = next[o] /\ h.datoff = offof[o]
        /\ \A x \in L[c] \ {c} : keyof[x] # k
        /\ h.saveptr = next[c] /\ h.offset # 0
    BY <1>1, <1>4 DEF Searches, Missed, Saved, Holds, OfStore
  <1>6. 0 \in Heads /\ Places \subseteq Nat /\ o \in AllRecs /\ o # 0 /\ v \in Nat /\ a \in Places
    BY <1>3, <1>5, RecordNumbers, HandleOf
  <1>7. Linked(L[0], 0, R[0], next)
    BY <1>4 DEF Lists
  <1>8. a # o /\ v <= PtrMax
    <2>1. next[o] # o /\ (v = 0 \/ v \in L[0] \ {0})
      <3> HIDE DEF o, v
      <3> QED BY <1>5, <1>6, <1>7, Successor
    <2> QED BY <1>4, <1>5, <1>6, <2>1, DbAssumption DEF Lists
  <1>9. /\ Len(idx') = Len(idx) /\ AllRecs' = AllRecs
        /\ next'[a] = v /\ \A x \in Places : x # a => next'[x] = next[x]
        /\ \A x \in AllRecs : keyof'[x] = keyof[x] /\ valof'[x] = valof[x] /\ offof'[x] = offof[x]
        /\ pc'[p] = "ff.unlock" /\ call'[p] = call[p] /\ db'[p] = h
    BY <1>1, <1>6, <1>8, PtrWritten
  <1>10. ~Deleting(p)' /\ Holding(p)' /\ ~Appending(p)'
    BY <1>5, <1>9 DEF Deleting, Holding, Appending
  <1>11. Linked(L[0] \ {o}, 0, R[0], next')
    <2>1. \A x \in L[0] : x # a /\ x # o => next'[x] = next[x]
      BY <1>3, <1>9
    <2> HIDE DEF o, a, v
    <2> QED BY <1>5, <1>6, <1>7, <1>9, <2>1, TakeOut
  <1>12. PICK M : /\ M \in [Heads -> SUBSET Nat]
                  /\ M[0] = L[0] \ {o} /\ \A d \in Heads : d # 0 => M[d] = L[d]
    <2>1. L \in [Heads -> SUBSET Nat]
      BY <1>4 DEF Lists
    <2> HIDE DEF o
    <2> DEFINE N == [L EXCEPT ![0] = L[0] \ {o}]
    <2>2. /\ N \in [Heads -> SUBSET Nat]
          /\ N[0] = L[0] \ {o} /\ \A d \in Heads : d # 0 => N[d] = L[d]
      BY <1>6, <2>1
    <2> HIDE DEF N
    <2> QED BY <2>2
  <1> HIDE DEF W
  <1>13. \A x : x \in W <=> x = a
    BY DEF W
  <1>14. Confined(p, L, R, M, R, W)
    <2>1. \A d \in Chains : d \in Heads /\ d # 0
      BY RecordNumbers
    <2>2. \A l \in Heads : \A x \in M[l] : x \in L[l]
      <3> HIDE DEF o
      <3> QED BY <1>12
    <2>3. R \in [Heads -> [Nat -> Nat]]
      BY <1>4 DEF Lists
    <2> QED BY <1>2, <1>5, <1>9, <1>10, <1>12, <1>13, <2>1, <2>2, <2>3 DEF Confined
  <1>15. FreeOK(M, R)
    <2>1. \A x \in M[0] \ {0} : keyof'[x] = Blank /\ valof'[x] = Blank
      BY <1>3, <1>4, <1>9, <1>12 DEF Contents
    <2> QED BY <1>11, <1>12, <2>1 DEF FreeOK
  <1>16. ChainOK(db[p].chainoff, M, R)
    <2>1. \A x \in W : x \notin L[db[p].chainoff]
      BY <1>3, <1>5, <1>13
    <2> QED BY <1>2, <1>3, <1>10, <1>12, <1>14, <2>1, ChainStays
  <1>17. OwnLists(p, M, R)
    <2>1. \A x \in M[c] : x \notin M[0]
      BY <1>3, <1>12
    <2> QED BY <1>15, <1>16, <2>1 DEF OwnLists
  <1>18. Kept(M)'
    <2>1. ASSUME NEW l \in Heads, NEW x \in L[l]
          PROVE  (\E m \in Heads : x \in M[m]) \/ (Holding(p)' /\ db'[p].idxoff = x)
      <3>1. CASE x = o
        BY <1>9, <1>10, <3>1
      <3>2. CASE x # o
        <4> HIDE DEF o
        <4>1. x \in M[l]
          BY <1>12, <2>1, <3>2
        <4> QED BY <4>1
      <3> QED BY <3>1, <3>2
    <2> QED BY <1>2, <1>9, <2>1, KeptStays
  <1>19. Doing(p, M, R)'
    <2>1. M[c] = L[c] /\ \A x \in L[c] \ {c} : keyof'[x] # k
      BY <1>3, <1>5, <1>9, <1>12
    <2>2. h.saveptr = next'[c]
      BY <1>3, <1>5, <1>9
    <2>3. o \in AllRecs' /\ (\A l \in Heads : o \notin M[l]) /\ h.datoff = offof'[o]
      <3>1. \A l \in Heads : l = 0 \/ l \in Chains
        BY DEF Heads, Chains
      <3>2. ASSUME NEW l \in Heads PROVE o \notin M[l]
        <4> HIDE DEF o
        <4> QED BY <1>3, <1>5, <1>12, <3>1, <3>2
      <3> QED BY <1>5, <1>6, <1>9, <3>2
    <2> HIDE DEF c, h, o, a
    <2>4. Keyed(p)' /\ Walks(p, M, R)' /\ Finds(p, M)' /\ Unlinks(p, M)' /\ Searches(p, M)' /\ Fresh(p)'
      BY <1>3, <1>9, <1>10 DEF k, c, h, Keyed, Walks, Finds, Unlinks, Searches, Fresh, OfDelete
    <2>5. Missed(p, M)' /\ Saved(p)'
      BY <1>9, <2>1, <2>2 DEF c, h, k, Missed, Saved
    <2>6. Holds(p, M)'
      BY <1>9, <2>3 DEF h, o, Holds
    <2> QED BY <2>4, <2>5, <2>6 DEF Doing
  <1>20. \A q \in Procs : q # p /\ Holding(q) => db[q].idxoff # db'[p].idxoff
    <2>1. \A q \in Procs : Holding(q) => db[q].idxoff \notin L[0]
      BY <1>6 DEF ListState, Doing, Holds
    <2> QED BY <1>5, <1>9, <2>1
  <1>21. OwnCall(p, M, R)
    BY <1>10, <1>18, <1>19, <1>20 DEF OwnCall
  <1>22. ListState(M, R)'
    BY <1>14, <1>17, <1>21, ConfinedStep
  <1>23. Relinks(p, L, M)
    <2>1. \A d \in Chains : d \in Heads /\ d # 0
      BY RecordNumbers
    <2> QED BY <1>1, <1>12, <2>1 DEF Relinks, TakesOff, PutsOn
  <1> QED BY <1>22, <1>23

(* A new record comes to the front of its chain, or its offset does not    *)
(* fit a pointer and the process ends.                                     *)
LEMMA LinkLists ==
  ASSUME TypeInv, TypeInv', LockInv, LockInv', SizesStay, NEW L, NEW R, ListState(L, R),
         NEW p \in Procs, Acts(p), Link(p)
  PROVE  \E M, Q : ListState(M, Q)' /\ Relinks(p, L, M)
  <1> DEFINE c == db[p].chainoff
             k == call[p].key
             h == db[p]
             o == db[p].idxoff
             W == {c}
  <1>1. pc[p] = "link" /\ WritePtr(p, c, o, "unlock")
    BY DEF Link
  <1>2. pc[p] \in Writers /\ pc[p] \notin OnFree /\ ~Deleting(p) /\ Holding(p)
    BY <1>1 DEF Writers, OnFree, Deleting, Holding
  <1>3. /\ c = Hash[k] /\ k \in Keys /\ c \in Chains /\ c \in Heads /\ c # 0 /\ c \in L[c] /\ c \notin L[0]
        /\ L[c] \ {c} \subseteq AllRecs /\ L[c] \subseteq Places /\ c \in Places /\ InChain(p)
        /\ \A x \in L[c] : x \notin L[0]
    BY <1>1, <1>2, Where
  <1>4. Lists(L, R) /\ Contents(L) /\ Missed(p, L) /\ Saved(p) /\ Holds(p, L)
    BY DEF ListState, Doing
  <1>5. /\ o \in AllRecs /\ (\A l \in Heads : o \notin L[l]) /\ keyof[o] = k /\ next[o] = next[c]
        /\ \A x \in L[c] \ {c} : keyof[x] # k
    BY <1>1, <1>2, <1>4 DEF Missed, Saved, Holds, OfStore, OnTail
  <1>6. /\ 0 \in Heads /\ Places \subseteq Nat /\ o \in Nat \ {0} /\ o \in Places /\ o # c
        /\ o <= NHash + Len(idx) /\ Len(idx) \in Nat /\ NHash \in Nat
    BY <1>3, <1>5, RecordNumbers DEF Places
  <1>7. ASSUME ~(o <= PtrMax) PROVE ListState(L, R)' /\ Relinks(p, L, L)
    <2>1. Exit(p) /\ UNCHANGED files
      BY <1>1, <1>6, <1>7, DbAssumption DEF WritePtr, files
    <2>2. pc'[p] = "dead"
      BY <2>1, ExitMoves DEF Moves
    <2>3. Doing(p, L, R)' /\ ~Deleting(p)' /\ ~Holding(p)' /\ ~Appending(p)'
      BY <2>2, DoesNothing
    <2>4. ~(NHash + Len(idx) <= PtrMax)
      BY <1>6, <1>7, DbAssumption
    <2>5. Quiet(p)
      BY <1>2, <2>1, <2>3, <2>4 DEF Quiet
    <2>6. Relinks(p, L, L)
      BY <2>2 DEF Relinks, TakesOff, PutsOn
    <2> QED BY <2>3, <2>5, <2>6, QuietLists
  <1>8. ASSUME o <= PtrMax PROVE \E N, Q : ListState(N, Q)' /\ Relinks(p, L, N)
    <2>1. /\ Len(idx') = Len(idx) /\ AllRecs' = AllRecs
          /\ next'[c] = o /\ \A x \in Places : x # c => next'[x] = next[x]
          /\ \A x \in AllRecs : keyof'[x] = keyof[x] /\ valof'[x] = valof[x] /\ offof'[x] = offof[x]
          /\ pc'[p] = "unlock" /\ call'[p] = call[p] /\ db'[p] = h
      BY <1>1, <1>3, <1>6, <1>8, PtrWritten
    <2>2. ~Deleting(p)' /\ ~Holding(p)' /\ ~Appending(p)'
      BY <2>1 DEF Deleting, Holding, Appending
    <2>3. \E rk : Linked(L[c] \cup {o}, c, rk, next')
      <3>1. Linked(L[c], c, R[c], next)
        BY <1>2, <1>3, OwnChain
      <3>2. next'[o] = next[c] /\ o \notin L[c] /\ \A x \in L[c] : x # c => next'[x] = next[x]
        BY <1>3, <1>5, <1>6, <2>1
      <3>3. o \in Nat \ {0} /\ next'[c] = o
        BY <1>6, <2>1
      <3> HIDE DEF c, o
      <3> QED BY <3>1, <3>2, <3>3, PutInFront
    <2>4. PICK rk : Linked(L[c] \cup {o}, c, rk, next')
      BY <2>3
    <2>5. PICK M, Q : /\ M \in [Heads -> SUBSET Nat] /\ Q \in [Heads -> [Nat -> Nat]]
                      /\ M[c] = L[c] \cup {o} /\ Q[c] = rk
                      /\ \A d \in Heads : d # c => M[d] = L[d] /\ Q[d] = R[d]
      <3>1. L \in [Heads -> SUBSET Nat] /\ R \in [Heads -> [Nat -> Nat]]
        BY <1>4 DEF Lists
      <3>2. rk \in [Nat -> Nat] /\ L[c] \cup {o} \in SUBSET Nat
        BY <2>4 DEF Linked
      <3> HIDE DEF o, c
      <3> DEFINE N == [L EXCEPT ![c] = L[c] \cup {o}]
                 S == [R EXCEPT ![c] = rk]
      <3>3. /\ N \in [Heads -> SUBSET Nat] /\ S \in [Heads -> [Nat -> Nat]]
            /\ N[c] = L[c] \cup {o} /\ S[c] = rk
            /\ \A d \in Heads : d # c => N[d] = L[d] /\ S[d] = R[d]
        BY <1>3, <3>1, <3>2
      <3> HIDE DEF N, S
      <3> QED BY <3>3
    <2> HIDE DEF W
    <2>6. \A x : x \in W <=> x = c
      BY DEF W
    <2>7. M[0] = L[0] /\ Q[0] = R[0]
      BY <1>3, <1>6, <2>5
    <2>8. Confined(p, L, R, M, Q, W)
      <3>1. \A d \in Chains : d \in Heads
        BY RecordNumbers
      <3>2. ASSUME NEW l \in Heads, NEW x \in M[l] PROVE x \in L[l] \/ x = o
        <4> HIDE DEF c, o
        <4> QED BY <2>5, <3>2
      <3> QED BY <1>2, <1>3, <1>8, <2>1, <2>2, <2>5, <2>6, <2>7, <3>1, <3>2, ZenonT(30) DEF Confined
    <2>9. FreeOK(M, Q)
      <3>1. \A x \in W : x \notin L[0]
        BY <1>3, <2>6
      <3>2. \A x \in L[0] \ {0} : valof'[x] = valof[x]
        BY <1>4, <1>6, <2>1, ListOf
      <3> QED BY <2>7, <2>8, <3>1, <3>2, FreeStays
    <2>10. \A x \in L[c] \cup {o} : ~Dying(x) /\ x \in Nat
      <3>1. \A x \in L[c] : ~Dying(x)
        BY <1>2, <1>3, NotDying
      <3>2. ASSUME NEW q \in Procs, Deleting(q), db[q].idxoff = o PROVE FALSE
        <4>1. o \in L[db[q].chainoff] /\ pc[q] \in OnFree
          BY <3>2 DEF ListState, Doing, Unlinks, OfDelete, Deleting, OnFree
        <4>2. db[q].chainoff \in Heads
          BY HandleOf
        <4> QED BY <1>5, <4>1, <4>2
      <3>3. ~Dying(o)
        BY <3>2 DEF Dying
      <3> QED BY <1>3, <1>6, <3>1, <3>3
    <2>11. Linked(M[c], c, Q[c], chain')
      <3>1. \A x \in L[c] \cup {o} : chain'[x] = next'[x]
        BY <1>2, <2>2, <2>10, ChainsStay
      <3> HIDE DEF c, o
      <3> QED BY <2>4, <2>5, <3>1, SamePointers
    <2>12. ChainOK(c, M, Q)
      <3>1. \A x \in L[c] \ {c} : keyof'[x] = keyof[x] /\ keyof[x] \in Keys /\ Hash[keyof[x]] = c /\ keyof[x] # k
        BY <1>2, <1>3, <1>5, <2>1, OnChainIs
      <3>2. keyof'[o] = k /\ k \in Keys /\ Hash[k] = c
        BY <1>3, <1>5, <2>1
      <3>3. \A x, s \in L[c] \ {c} : keyof[x] = keyof[s] => x = s
        BY <1>3, <1>4, <3>1 DEF Contents
      <3> HIDE DEF c, o, k
      <3>4. \A x \in M[c] \ {c} : x = o \/ x \in L[c] \ {c}
        BY <2>5
      <3>5. \A x \in M[c] \ {c} : keyof'[x] \in Keys /\ Hash[keyof'[x]] = c
        BY <3>1, <3>2, <3>4
      <3>6. \A x, s \in M[c] \ {c} : keyof'[x] = keyof'[s] => x = s
        BY <3>1, <3>2, <3>3, <3>4
      <3> QED BY <2>11, <3>5, <3>6 DEF ChainOK
    <2>13. OwnLists(p, M, Q)
      <3>1. \A x \in M[c] : x \notin M[0]
        BY <1>3, <1>5, <1>6, <2>5, <2>7
      <3> QED BY <2>9, <2>12, <3>1 DEF OwnLists
    <2>14. Kept(M)'
      <3>1. ASSUME NEW l \in Heads, NEW x \in L[l] PROVE x \in M[l]
        <4> HIDE DEF c, o
        <4> QED BY <2>5, <3>1
      <3>2. \E m \in Heads : o \in M[m]
        BY <1>3, <2>5
      <3> QED BY <2>1, <3>1, <3>2, KeptStays
    <2>15. Doing(p, M, Q)'
      BY <1>3, <2>1, Leaves
    <2>16. OwnCall(p, M, Q)
      BY <2>2, <2>14, <2>15 DEF OwnCall
    <2>17. ListState(M, Q)'
      BY <2>8, <2>13, <2>16, ConfinedStep
    <2>18. Relinks(p, L, M)
      <3>1. \A d \in Chains : d \in Heads
        BY RecordNumbers
      <3> HIDE DEF o
      <3>2. \A d \in Chains : (PutsOn(p, d) <=> d = c) /\ ~TakesOff(p, d)
        BY <1>1, <2>1 DEF PutsOn, TakesOff
      <3>3. \A d \in Chains : M[d] = IF d = c THEN L[d] \cup {o} ELSE L[d]
        <4> HIDE DEF c
        <4> QED BY <1>3, <2>5, <3>1
      <3> HIDE DEF c
      <3>4. \A d \in Chains : M[d] = IF TakesOff(p, d) THEN L[d] \ {o} ELSE IF PutsOn(p, d) THEN L[d] \cup {o} ELSE L[d]
        BY <3>2, <3>3
      <3> QED BY <3>4 DEF Relinks, o
    <2> QED BY <2>17, <2>18
  <1> QED BY <1>7, <1>8

(* A record is appended; it is on no list yet.                             *)
LEMMA AppIdxLists ==
  ASSUME TypeInv, TypeInv', LockInv, LockInv', SizesStay, NEW L, NEW R, ListState(L, R),
         NEW p \in Procs, Acts(p), AppIdx(p)
  PROVE  ListState(L, R)'
  <1> DEFINE c == db[p].chainoff
             k == call[p].key
             h == db[p]
             r == IdxRec(k, KeyLen[k], h.datoff, h.datlen, h.saveptr)
             W == {}
  <1>1. /\ pc[p] = "app.idx" /\ pc'[p] = "app.idxunlock" /\ call'[p] = call[p]
        /\ db'[p] = [h EXCEPT !.idxoff = Eof]
        /\ UNCHANGED <<head, dat>> /\ idx' = Append(idx, r)
    BY Functions3 DEF AppIdx, Step, Goto, Handle
  <1>2. pc[p] \in Writers /\ pc[p] \notin OnFree /\ ~Deleting(p) /\ ~Holding(p) /\ Appending(p)
    BY <1>1 DEF Writers, OnFree, Deleting, Holding, Appending
  <1>3. /\ c = Hash[k] /\ k \in Keys /\ c \in Heads /\ c \in L[c] /\ L[c] \ {c} \subseteq AllRecs /\ c \in Places
        /\ \A x \in L[c] : x \notin L[0]
    BY <1>1, <1>2, Where
  <1>4. Missed(p, L) /\ Saved(p) /\ Lists(L, R)
    BY DEF ListState, Doing
  <1>5. /\ \A x \in L[c] \ {c} : keyof[x] # k
        /\ h.saveptr = next[c]
    BY <1>1, <1>4 DEF Missed, Saved, OfStore, OnTail
  <1>6. h \in Handles /\ h.datoff \in 1 .. Len(dat) /\ h.datlen \in Nat /\ h.saveptr \in Nat /\ KeyLen[k] \in Nat
    <2>1. h \in Handles /\ h.datoff \in 1 .. Len(dat)
      BY <1>1, HandleOf DEF UsesData
    <2> QED BY <1>3, <2>1, DbAssumption DEF Handles
  <1>7. r \in IdxRecs /\ r.datoff = h.datoff /\ r.ptr = h.saveptr /\ r.key = k
    <2>1. h.datoff \in Nat \ {0}
      BY <1>6, RecordNumbers
    <2> QED BY <1>3, <1>6, <2>1 DEF IdxRec, IdxRecs
  <1>8. /\ db'[p].idxoff = Eof /\ db'[p].chainoff = c /\ db'[p].saveptr = h.saveptr
    BY <1>1, <1>6 DEF Handles
  <1> HIDE DEF r
  <1>9. /\ SameLists /\ SameKeys /\ SameOffs /\ SameVals
        /\ Len(idx') = Len(idx) + 1 /\ AllRecs' = AllRecs \cup {Eof} /\ Eof \notin Places
        /\ next'[Eof] = h.saveptr /\ keyof'[Eof] = k /\ offof'[Eof] = h.datoff
    BY <1>1, <1>7, AppendRecEffect
  <1>10. /\ \A x \in Places : next'[x] = next[x]
         /\ \A x \in AllRecs : keyof'[x] = keyof[x] /\ valof'[x] = valof[x] /\ offof'[x] = offof[x]
    BY <1>9 DEF SameLists, SameKeys, SameOffs, SameVals
  <1>11. ~Deleting(p)' /\ Holding(p)' /\ ~Appending(p)'
    BY <1>1 DEF Deleting, Holding, Appending
  <1> HIDE DEF W
  <1>12. \A x : x \notin W
    BY DEF W
  <1>13. /\ 0 \in Heads /\ L \in [Heads -> SUBSET Nat] /\ R \in [Heads -> [Nat -> Nat]]
         /\ \A l \in Heads : L[l] \subseteq Places
         /\ L[0] \ {0} \subseteq AllRecs
    BY <1>4, RecordNumbers, ListOf DEF Lists
  <1>14. Confined(p, L, R, L, R, W)
    <2>1. \A x \in AllRecs' : \/ x \in AllRecs /\ offof'[x] = offof[x]
                              \/ Appending(p) /\ x = Eof /\ offof'[x] = db[p].datoff
      BY <1>2, <1>9, <1>10
    <2> QED BY <1>2, <1>10, <1>11, <1>12, <1>13, <2>1 DEF Confined
  <1>15. FreeOK(L, R)
    BY <1>10, <1>12, <1>13, <1>14, FreeStays
  <1>16. ChainOK(db[p].chainoff, L, R)
    BY <1>2, <1>11, <1>12, <1>14, ChainStays
  <1>17. OwnLists(p, L, R)
    BY <1>3, <1>15, <1>16 DEF OwnLists
  <1>18. Kept(L)'
    <2>1. SUFFICES ASSUME HoldersLive, NHash + Len(idx') <= PtrMax, NEW o \in AllRecs'
                   PROVE  (\E l \in Heads : o \in L[l]) \/ (\E q \in Procs : Holding(q)' /\ db'[q].idxoff = o)
      BY DEF Kept
    <2>2. CASE o = Eof
      BY <1>8, <1>11, <2>2
    <2>3. CASE o \in AllRecs
      <3>1. NHash + Len(idx) <= PtrMax
        BY <1>9, <2>1, RecordNumbers, DbAssumption
      <3>2. (\E l \in Heads : o \in L[l]) \/ (\E q \in Procs : Holding(q) /\ db[q].idxoff = o)
        BY <2>1, <2>3, <3>1 DEF ListState, Kept
      <3>3. ASSUME NEW q \in Procs, Holding(q), db[q].idxoff = o PROVE Holding(q)' /\ db'[q].idxoff = o
        <4>1. q # p
          BY <1>2, <3>3
        <4> QED BY <3>3, <4>1, OthersStay DEF Stays, Holding
      <3> QED BY <3>2, <3>3
    <2> QED BY <1>9, <2>1, <2>2, <2>3
  <1>19. Doing(p, L, R)'
    <2>1. /\ \A x \in L[c] \ {c} : keyof'[x] # k
          /\ h.saveptr = next'[c] /\ next'[c] = next[c]
      BY <1>3, <1>5, <1>10
    <2>2. Eof \in AllRecs' /\ (\A l \in Heads : Eof \notin L[l]) /\ keyof'[Eof] = k /\ next'[Eof] = h.saveptr
      BY <1>9, <1>13
    <2> HIDE DEF c, h
    <2>3. Keyed(p)' /\ Walks(p, L, R)' /\ Finds(p, L)' /\ Unlinks(p, L)' /\ Searches(p, L)' /\ Fresh(p)'
      BY <1>1, <1>3, <1>8, <1>11 DEF k, c, Keyed, Walks, Finds, Unlinks, Searches, Fresh, OfDelete
    <2>4. Missed(p, L)'
      BY <1>1, <1>8, <2>1 DEF k, Missed
    <2>5. Saved(p)'
      BY <1>1, <1>8, <2>1 DEF Saved
    <2>6. Holds(p, L)'
      BY <1>1, <1>8, <2>2 DEF k, Holds
    <2> QED BY <2>3, <2>4, <2>5, <2>6 DEF Doing
  <1>20. \A q \in Procs : q # p /\ Holding(q) => db[q].idxoff # db'[p].idxoff
    <2>1. \A q \in Procs : Holding(q) => db[q].idxoff \in AllRecs
      BY DEF ListState, Doing, Holds
    <2> QED BY <1>8, <1>9, <2>1, RecordNumbers
  <1>21. OwnCall(p, L, R)
    BY <1>11, <1>18, <1>19, <1>20 DEF OwnCall
  <1> QED BY <1>14, <1>17, <1>21, ConfinedStep

-----------------------------------------------------------------------------
(* Every step keeps the lists. *)

ListsSurvive == Mortal \cap {"del.sethead", "del.unlink"} = {}

(* A step that links nothing leaves the chains as they are.                *)
LEMMA NoRelink ==
  ASSUME NEW p \in Procs, pc[p] \notin {"del.unlink", "link"} \/ pc'[p] = "dead", NEW L
  PROVE  Relinks(p, L, L)
  BY DEF Relinks, TakesOff, PutsOn

(* Every step of a process, whatever is killed where, as long as nobody is *)
(* killed between the two pointers.                                        *)
LEMMA ActionLists ==
  ASSUME TypeInv, TypeInv', LockInv, LockInv', SlotInv, NEW L, NEW R, ListState(L, R),
         NEW p \in Procs, Acts(p), ListsSurvive \/ ~Killed(p)
  PROVE  \E M, Q : ListState(M, Q)' /\ Relinks(p, L, M)
  <1>1. SizesStay
    BY SizesKept
  <1>3. CASE Find(p)
    <2>1. pc[p] \in {"find.lock", "find.head", "find.rec", "fetch.dat"}
      BY <1>3, FindMoves
    <2> QED BY <1>1, <1>3, <2>1, FindQuiet, QuietLists, NoRelink
  <1>4. CASE DelLock(p) \/ DelFree(p) \/ DelUnlock(p)
    <2>1. pc[p] \in {"del.lock", "del.free", "del.unlock"}
      BY <1>4 DEF DelLock, DelFree, DelUnlock, Step
    <2> QED BY <1>1, <1>4, <2>1, DeleteQuiet, QuietLists, NoRelink
  <1>5. CASE InsHead(p) \/ FindFreeLock(p) \/ FindFreeHead(p) \/ FindFreeRec(p) \/ FindFreeUnlock(p)
    <2>1. pc[p] \in {"ins.head", "ff.lock", "ff.head", "ff.rec", "ff.unlock"}
      BY <1>5 DEF InsHead, FindFreeLock, FindFreeHead, FindFreeRec, FindFreeUnlock, Step
    <2> QED BY <1>1, <1>5, <2>1, FreeQuiet, QuietLists, NoRelink
  <1>6. CASE AppReread(p) \/ AppDatLock(p) \/ AppDatUnlock(p) \/ AppIdxLock(p) \/ AppIdxUnlock(p)
    <2>1. pc[p] \in {"app.reread", "app.datlock", "app.datunlock", "app.idxlock", "app.idxunlock"}
      BY <1>6 DEF AppReread, AppDatLock, AppDatUnlock, AppIdxLock, AppIdxUnlock, Step
    <2> QED BY <1>1, <1>6, <2>1, WriteQuiet, QuietLists, NoRelink
  <1>7. CASE Begin(p) \/ DbRewind(p) \/ Return(p) \/ Scan(p)
    <2>1. pc[p] \in {"idle", "unlock", "scan.lock", "scan.rec", "scan.dat", "scan.unlock"}
      BY <1>7 DEF Begin, DbRewind, Return, Scan, ScanLock, ScanEof, ScanSkip, ScanRec, ScanDump, ScanDat, ScanUnlock, Step
    <2> QED BY <1>1, <1>7, <2>1, OtherQuiet, QuietLists, NoRelink
  <1>8. CASE Killed(p)
    <2>1. pc'[p] = "dead" /\ Mortal \cap {"del.sethead", "del.unlink"} = {}
      BY <1>8, ExitMoves DEF Killed, Moves, ListsSurvive
    <2> QED BY <1>1, <1>8, <2>1, OtherQuiet, QuietLists, NoRelink
  <1>9. CASE DelDat(p) \/ ReuseDat(p) \/ ReplaceDat(p) \/ AppDat(p)
    <2>1. pc[p] \in {"del.dat", "reuse.dat", "rep.dat", "app.dat"}
      BY <1>9 DEF DelDat, ReuseDat, ReplaceDat, AppDat, Step
    <2> QED BY <1>1, <1>9, <2>1, DelDatLists, ReuseDatLists, ReplaceDatLists, AppDatLists, NoRelink
  <1>10. CASE ReuseIdx(p) \/ DelIdx(p) \/ AppIdx(p)
    <2>1. pc[p] \in {"reuse.idx", "del.idx", "app.idx"}
      BY <1>10 DEF ReuseIdx, DelIdx, AppIdx, Step
    <2> QED BY <1>1, <1>10, <2>1, ReuseIdxLists, DelIdxLists, AppIdxLists, NoRelink
  <1>11. CASE DelSetHead(p) \/ DelUnlink(p)
    BY <1>1, <1>11, DelSetHeadLists, DelUnlinkLists
  <1>12. CASE FindFreeTake(p) \/ Link(p)
    BY <1>1, <1>12, FindFreeTakeLists, LinkLists
  <1> QED BY <1>3, <1>4, <1>5, <1>6, <1>7, <1>8, <1>9, <1>10, <1>11, <1>12 DEF Acts, Run, Delete, FindFree, Write

(* And the steps in which nothing happens.                                 *)
LEMMA StutterLists ==
  ASSUME TypeInv, TypeInv', LockInv, LockInv', NEW L, NEW R, ListState(L, R), UNCHANGED vars
  PROVE  ListState(L, R)'
  <1>1. /\ next' = next /\ keyof' = keyof /\ offof' = offof /\ valof' = valof
        /\ AllRecs' = AllRecs /\ pc' = pc /\ db' = db /\ call' = call /\ idx' = idx
    BY SameFiles DEF vars, files
  <1>2. \A p : (Deleting(p)' <=> Deleting(p)) /\ (Holding(p)' <=> Holding(p)) /\ (Appending(p)' <=> Appending(p))
    BY <1>1 DEF Deleting, Holding, Appending
  <1>3. \A o : Dying(o)' <=> Dying(o)
    BY <1>1, <1>2 DEF Dying
  <1>4. \A o \in Nat : chain'[o] = chain[o]
    <2>1. ChainFacts /\ ChainFacts'
      BY ChainIs, ChainIsNext
    <2>2. ASSUME NEW o \in Nat, Dying(o) PROVE chain'[o] = chain[o]
      <3>1. PICK p \in Procs : Deleting(p) /\ db[p].idxoff = o
        BY <2>2 DEF Dying
      <3>2. chain[db[p].idxoff] = db[p].saveptr /\ chain'[db'[p].idxoff] = db'[p].saveptr
        BY <1>2, <2>1, <3>1 DEF ChainFacts
      <3> QED BY <1>1, <3>1, <3>2
    <2>3. ASSUME NEW o \in Nat, ~Dying(o) PROVE chain'[o] = chain[o]
      <3>1. chain'[o] = next'[o] /\ chain[o] = next[o]
        BY <1>3, <2>1, <2>3 DEF ChainFacts
      <3> QED BY <1>1, <3>1
    <2> QED BY <2>2, <2>3
  <1>6. Lists(L, R) /\ Contents(L) /\ (\A p \in Procs : Doing(p, L, R)) /\ Apart /\ Kept(L)
    BY DEF ListState
  <1>7. Lists(L, R)'
    <2>1. \A c \in Chains : Linked(L[c], c, R[c], chain')
      <3>1. ASSUME NEW c \in Chains PROVE Linked(L[c], c, R[c], chain')
        <4>1. Linked(L[c], c, R[c], chain) /\ L[c] \subseteq Nat
          BY <1>6 DEF Lists, Linked
        <4>2. \A x \in L[c] : chain'[x] = chain[x]
          BY <1>4, <4>1
        <4> QED BY <4>1, <4>2, SamePointers
      <3> QED BY <3>1
    <2> QED BY <1>1, <1>6, <2>1 DEF Lists
  <1>8. Contents(L)'
    BY <1>1, <1>3, <1>6 DEF Contents
  <1>9. Apart' /\ Kept(L)'
    <2>1. Apart'
      BY <1>1, <1>2, <1>6 DEF Apart
    <2>2. Kept(L)'
      BY <1>1, <1>2, <1>6 DEF Kept
    <2> QED BY <2>1, <2>2
  <1>10. ASSUME NEW p \in Procs PROVE Doing(p, L, R)'
    <2>1. Doing(p, L, R)
      BY <1>6
    <2>2. Keyed(p)' /\ Walks(p, L, R)' /\ Finds(p, L)' /\ Unlinks(p, L)'
      BY <1>1, <2>1 DEF Doing, Keyed, InChain, Walks, Finds, Unlinks
    <2>3. Missed(p, L)' /\ Saved(p)' /\ Searches(p, L)'
      BY <1>1, <2>1 DEF Doing, Missed, Saved, Searches
    <2>4. Holds(p, L)' /\ Fresh(p)'
      BY <1>1, <1>2, <2>1 DEF Doing, Holds, Fresh
    <2> QED BY <2>2, <2>3, <2>4 DEF Doing
  <1>11. ListState(L, R)'
    BY <1>7, <1>8, <1>9, <1>10 DEF ListState
  <1> QED BY <1>11

(* So every step keeps the lists.                                          *)
LEMMA NextListInv ==
  ListsSurvive => (TypeInv /\ TypeInv' /\ LockInv /\ LockInv' /\ SlotInv /\ ListInv /\ [Next]_vars => ListInv')
  <1> SUFFICES ASSUME ListsSurvive, TypeInv, TypeInv', LockInv, LockInv', SlotInv, ListInv, [Next]_vars
               PROVE  ListInv'
    OBVIOUS
  <1>1. PICK L, R : ListState(L, R)
    BY DEF ListInv
  <1>2. CASE UNCHANGED vars
    BY <1>1, <1>2, StutterLists DEF ListInv
  <1>3. ASSUME NEW p \in Procs, Acts(p) PROVE ListInv'
    BY <1>1, <1>3, ActionLists DEF ListInv
  <1> QED BY <1>2, <1>3 DEF Next, Acts

(* A new database has empty lists.                                         *)
LEMMA InitListInv == Init => ListInv
  <1> SUFFICES ASSUME Init PROVE ListInv
    OBVIOUS
  <1> DEFINE L == [l \in Heads |-> {l}]
             R == [l \in Heads |-> [n \in Nat |-> 0]]
  <1>0. TypeInv
    BY InitTypeInv
  <1>1. /\ AllRecs = {} /\ Len(idx) = 0 /\ \A p \in Procs : pc[p] = "idle"
        /\ \A o \in Heads : head[o] = 0
    BY DbAssumption DEF Init, AllRecs, Heads
  <1>2. \A o \in Heads : o \in Nat /\ o <= NHash /\ next[o] = 0
    BY <1>1, DbAssumption DEF Heads, next, ReadPtr
  <1>3. \A o \in Nat : ~Dying(o)
    BY <1>1 DEF Dying, Deleting
  <1>4. \A o \in Heads : chain[o] = 0
    BY <1>2, <1>3 DEF chain, ChainNext, Dying, next
  <1>5. Chains \subseteq Heads /\ 0 \in Heads /\ 0 \notin Chains
    BY <1>0, RecordNumbers
  <1>6. ASSUME NEW l \in Heads, NEW nx, nx[l] = 0 PROVE Linked(L[l], l, R[l], nx)
    <2>1. L[l] = {l} /\ R[l] = [n \in Nat |-> 0] /\ l \in Nat
      BY <1>2
    <2> HIDE DEF L, R
    <2> QED BY <1>6, <2>1 DEF Linked, Follows
  <1>7. L \in [Heads -> SUBSET Nat] /\ R \in [Heads -> [Nat -> Nat]] /\ \A l \in Heads : L[l] = {l}
    BY <1>2
  <1> HIDE DEF L, R
  <1>8. Lists(L, R)
    <2>1. Linked(L[0], 0, R[0], next) /\ \A c \in Chains : Linked(L[c], c, R[c], chain)
      BY <1>2, <1>4, <1>5, <1>6
    <2> QED BY <1>5, <1>7, <2>1 DEF Lists
  <1>9. Contents(L) /\ Apart /\ Kept(L)
    BY <1>1, <1>5, <1>7 DEF Contents, Apart, Kept, Holding, Appending
  <1>10. ASSUME NEW p \in Procs PROVE Doing(p, L, R)
    BY <1>1 DEF Doing, Keyed, Walks, Finds, Unlinks, Missed, Saved, Searches, Holds, Fresh, InChain,
         OnChain, OnFree, OnData, OnTail, OfStore, OfDelete, Holding, Appending
  <1>11. ListState(L, R)
    BY <1>8, <1>9, <1>10 DEF ListState
  <1> QED BY <1>11 DEF ListInv

-----------------------------------------------------------------------------
(* What a walk along a list meets. *)

(* There is a function that walks the list.                                *)
LEMMA WalkExists ==
  ASSUME TypeInv, NEW P, NEW h \in Heads, NEW rk, NEW nx, Linked(P, h, rk, nx), P \ {h} \subseteq AllRecs,
         \A x \in Places : nx[x] \in {0} \cup AllRecs
  PROVE  \E g \in [0 .. Len(idx) -> {0} \cup AllRecs] :
           Goes(g, h, nx, Len(idx)) /\ Meets(g, P, h, Len(idx))
  <1> DEFINE U == {0} \cup AllRecs
             m == Len(idx)
             f == [x \in U |-> IF x = 0 THEN 0 ELSE nx[x]]
             b == nx[h]
  <1>1. /\ m \in Nat /\ NHash \in Nat /\ U \subseteq Places /\ h \in Places
    BY RecordNumbers
  <1>2. b \in U /\ f \in [U -> U]
    BY <1>1
  <1>3. \E g : Iterated(g, U, f, b, m)
    <2> HIDE DEF U, f, m, b
    <2>1. m \in Nat
      BY <1>1
    <2> QED BY <1>2, <2>1, Iterates
  <1>4. PICK g : g \in [0 .. m -> U] /\ g[0] = b /\ \A i \in 1 .. m : g[i] = f[g[i - 1]]
    BY <1>3 DEF Iterated
  <1>5. \A i \in 1 .. m : g[i] = IF g[i - 1] = 0 THEN 0 ELSE nx[g[i - 1]]
    <2>1. ASSUME NEW i \in 1 .. m PROVE g[i] = IF g[i - 1] = 0 THEN 0 ELSE nx[g[i - 1]]
      <3>1. i - 1 \in 0 .. m
        BY <1>1
      <3>2. g[i - 1] \in U
        BY <1>4, <3>1
      <3> QED BY <1>4, <3>2
    <2> QED BY <2>1
  <1>6. IsFiniteSet(AllRecs) /\ Cardinality(AllRecs) = m
    <2> DEFINE l == NHash + 1
               r == NHash + m
    <2>1. l \in Int /\ r \in Int /\ (IF l > r THEN 0 ELSE r - l + 1) = m
      BY <1>1
    <2>2. AllRecs = l .. r
      BY DEF AllRecs
    <2> HIDE DEF l, r, m
    <2>3. IsFiniteSet(l .. r) /\ Cardinality(l .. r) = IF l > r THEN 0 ELSE r - l + 1
      BY <2>1, FS_Interval
    <2> QED BY <2>1, <2>2, <2>3
  <1>7. Goes(g, h, nx, m)
    BY <1>4, <1>5 DEF Goes
  <1>8. Meets(g, P, h, m)
    <2> HIDE DEF m, U, b, f
    <2> QED BY <1>1, <1>6, <1>7, WalkOfList
  <1> QED BY <1>4, <1>7, <1>8

(* Two functions that begin alike and go on alike are alike.               *)
LEMMA SameWalk ==
  ASSUME NEW N \in Nat, NEW g, NEW w, w[0] = g[0], \A i \in 1 .. N : w[i - 1] = g[i - 1] => w[i] = g[i]
  PROVE  \A i \in 0 .. N : w[i] = g[i]
  <1> DEFINE T == {i \in Nat : i \in 0 .. N => w[i] = g[i]}
  <1>1. T \in SUBSET Nat /\ 0 \in T
    OBVIOUS
  <1>2. ASSUME NEW i \in T PROVE i + 1 \in T
    <2>1. ASSUME i + 1 \in 0 .. N PROVE w[i + 1] = g[i + 1]
      <3>1. i + 1 \in 1 .. N /\ i + 1 - 1 = i /\ i \in 0 .. N
        BY <2>1
      <3>2. w[i] = g[i]
        BY <1>2, <3>1
      <3> QED BY <3>1, <3>2
    <2> QED BY <1>2, <2>1
  <1> HIDE DEF T
  <1>3. T = Nat
    BY <1>1, <1>2, Induction
  <1> QED BY <1>3 DEF T

(* The lists of DbInv are the lists of the invariant.                      *)
LEMMA ChainMembers ==
  ASSUME TypeInv, LockInv, NEW L, NEW R, ListState(L, R), NEW c \in Chains
  PROVE  Ends(ChainList(c)) /\ Members(ChainList(c)) = L[c] \ {c}
  <1> DEFINE N == Len(idx)
             F(f) == [n \in 0 .. N |-> IF n = 0 THEN ChainNext(c)
                                       ELSE IF f[n - 1] = 0 THEN 0 ELSE ChainNext(f[n - 1])]
             w == CHOOSE f : f = F(f)
  <1>1. Linked(L[c], c, R[c], chain) /\ L[c] \ {c} \subseteq AllRecs /\ c \in Heads /\ c \in Nat
    BY ListOf, RecordNumbers DEF ListState
  <1>2. \A x \in Places : chain[x] \in {0} \cup AllRecs
    <2>1. ASSUME NEW x \in Places PROVE chain[x] \in {0} \cup AllRecs
      <3>1. x \in Nat /\ next[x] \in {0} \cup AllRecs
        BY RecordNumbers, FileValues
      <3>2. CASE ~Dying(x)
        BY <3>1, <3>2, ChainIs DEF ChainFacts
      <3>3. CASE Dying(x)
        <4>1. PICK p \in Procs : Deleting(p) /\ db[p].idxoff = x
          BY <3>3 DEF Dying
        <4>2. chain[x] = db[p].saveptr
          BY <4>1, ChainIs DEF ChainFacts
        <4> QED BY <4>2, HandleOf
      <3> QED BY <3>2, <3>3
    <2> QED BY <2>1
  <1>2a. PICK g \in [0 .. N -> {0} \cup AllRecs] : Goes(g, c, chain, N) /\ Meets(g, L[c], c, N)
    BY <1>1, <1>2, WalkExists
  <1>3. /\ g[0] = chain[c]
        /\ \A i \in 1 .. N : g[i] = IF g[i - 1] = 0 THEN 0 ELSE chain[g[i - 1]]
        /\ g[N] = 0 /\ {g[i] : i \in 0 .. N} \ {0} = L[c] \ {c}
    BY <1>2a DEF Goes, Meets
  <1>4. \A x \in Nat : chain[x] = ChainNext(x)
    BY DEF chain
  <1>5. N \in Nat /\ {0} \cup AllRecs \subseteq Nat
    BY RecordNumbers
  <1>6. \A i \in 1 .. N : g[i] = IF g[i - 1] = 0 THEN 0 ELSE ChainNext(g[i - 1])
    <2>1. ASSUME NEW i \in 1 .. N PROVE g[i] = IF g[i - 1] = 0 THEN 0 ELSE ChainNext(g[i - 1])
      <3>1. i - 1 \in 0 .. N
        BY <1>5
      <3>2. g[i - 1] \in Nat
        BY <1>5, <3>1
      <3> QED BY <1>3, <1>4, <3>2
    <2> QED BY <2>1
  <1>7. g = F(g)
    <2>1. \A i \in 0 .. N : i = 0 \/ i \in 1 .. N
      BY <1>5
    <2> QED BY <1>1, <1>3, <1>4, <1>6, <2>1
  <1>8. w = F(w)
    BY <1>7
  <1>9. ChainList(c) = w
    BY DEF ChainList, Walk
  <1> HIDE DEF w
  <1>10. DOMAIN w = 0 .. N
    BY <1>8
  <1>11. w[0] = g[0] /\ \A i \in 1 .. N : w[i - 1] = g[i - 1] => w[i] = g[i]
    <2>1. w[0] = ChainNext(c)
      BY <1>5, <1>8
    <2>2. ASSUME NEW i \in 1 .. N, w[i - 1] = g[i - 1] PROVE w[i] = g[i]
      <3>1. i \in 0 .. N /\ i # 0
        BY <1>5
      <3>2. w[i] = IF w[i - 1] = 0 THEN 0 ELSE ChainNext(w[i - 1])
        BY <1>8, <3>1
      <3> QED BY <1>6, <2>2, <3>2
    <2> QED BY <1>1, <1>3, <1>4, <2>1, <2>2
  <1>12. \A i \in 0 .. N : w[i] = g[i]
    <2> HIDE DEF N
    <2> QED BY <1>5, <1>11, SameWalk, ZenonT(30)
  <1>13. N \in 0 .. N
    BY <1>5
  <1> QED BY <1>3, <1>9, <1>10, <1>12, <1>13 DEF Members, Ends

(* The same of the free list.                                              *)
LEMMA FreeMembers ==
  ASSUME TypeInv, NEW L, NEW R, ListState(L, R)
  PROVE  Ends(FreeList) /\ Members(FreeList) = L[0] \ {0}
  <1> DEFINE N == Len(idx)
             F(f) == [n \in 0 .. N |-> IF n = 0 THEN ReadPtr(0)
                                       ELSE IF f[n - 1] = 0 THEN 0 ELSE ReadPtr(f[n - 1])]
             w == CHOOSE f : f = F(f)
  <1>1. Linked(L[0], 0, R[0], next) /\ L[0] \ {0} \subseteq AllRecs /\ 0 \in Heads
    BY ListOf, RecordNumbers DEF ListState
  <1>2. \A x \in Places : next[x] \in {0} \cup AllRecs
    BY FileValues
  <1>2a. PICK g \in [0 .. N -> {0} \cup AllRecs] : Goes(g, 0, next, N) /\ Meets(g, L[0], 0, N)
    BY <1>1, <1>2, WalkExists
  <1>3. /\ g[0] = next[0]
        /\ \A i \in 1 .. N : g[i] = IF g[i - 1] = 0 THEN 0 ELSE next[g[i - 1]]
        /\ g[N] = 0 /\ {g[i] : i \in 0 .. N} \ {0} = L[0] \ {0}
    BY <1>2a DEF Goes, Meets
  <1>4. \A x \in Nat : next[x] = ReadPtr(x)
    BY DEF next
  <1>5. N \in Nat /\ {0} \cup AllRecs \subseteq Nat
    BY RecordNumbers
  <1>6. \A i \in 1 .. N : g[i] = IF g[i - 1] = 0 THEN 0 ELSE ReadPtr(g[i - 1])
    <2>1. ASSUME NEW i \in 1 .. N PROVE g[i] = IF g[i - 1] = 0 THEN 0 ELSE ReadPtr(g[i - 1])
      <3>1. i - 1 \in 0 .. N
        BY <1>5
      <3>2. g[i - 1] \in Nat
        BY <1>5, <3>1
      <3> QED BY <1>3, <1>4, <3>2
    <2> QED BY <2>1
  <1>7. g = F(g)
    <2>1. \A i \in 0 .. N : i = 0 \/ i \in 1 .. N
      BY <1>5
    <2> QED BY <1>3, <1>4, <1>6, <2>1
  <1>8. w = F(w)
    BY <1>7
  <1>9. FreeList = w
    BY DEF FreeList, Walk, FREE_OFF
  <1> HIDE DEF w
  <1>10. DOMAIN w = 0 .. N
    BY <1>8
  <1>11. w[0] = g[0] /\ \A i \in 1 .. N : w[i - 1] = g[i - 1] => w[i] = g[i]
    <2>1. w[0] = ReadPtr(0)
      BY <1>5, <1>8
    <2>2. ASSUME NEW i \in 1 .. N, w[i - 1] = g[i - 1] PROVE w[i] = g[i]
      <3>1. i \in 0 .. N /\ i # 0
        BY <1>5
      <3>2. w[i] = IF w[i - 1] = 0 THEN 0 ELSE ReadPtr(w[i - 1])
        BY <1>8, <3>1
      <3> QED BY <1>6, <2>2, <3>2
    <2> QED BY <1>3, <1>4, <2>1, <2>2
  <1>12. \A i \in 0 .. N : w[i] = g[i]
    <2> HIDE DEF N
    <2> QED BY <1>5, <1>11, SameWalk, ZenonT(30)
  <1>13. N \in 0 .. N
    BY <1>5
  <1> QED BY <1>3, <1>9, <1>10, <1>12, <1>13, SMTT(30) DEF Members, Ends

-----------------------------------------------------------------------------
(* What the invariant says. *)

(* The index is well formed.                                               *)
LEMMA ListsWellFormed == TypeInv /\ LockInv /\ ListInv => IndexWellFormed
  <1> SUFFICES ASSUME TypeInv, LockInv, NEW L, NEW R, ListState(L, R) PROVE IndexWellFormed
    BY DEF ListInv
  <1>1. /\ \A c \in Chains : Ends(ChainList(c)) /\ Members(ChainList(c)) = L[c] \ {c}
        /\ Ends(FreeList) /\ Members(FreeList) = L[0] \ {0}
    BY ChainMembers, FreeMembers
  <1>2. Lists(L, R) /\ Contents(L) /\ \A p \in Procs : Holds(p, L)
    BY DEF ListState, Doing
  <1>3. /\ 0 \in Heads /\ Chains \subseteq Heads
        /\ \A l \in Heads : L[l] \ {l} \subseteq AllRecs
        /\ \A o \in AllRecs : keyof[o] = Rec(o).key /\ offof[o] = Rec(o).datoff /\ valof[o] = Value(o)
    <2>1. \A o \in AllRecs : valof[o] = Value(o)
      BY RecordNumbers DEF valof
    <2> QED BY <1>2, <2>1, RecordNumbers, ListOf, FileValues
  <1>4. ChainsWellFormed
    <2> SUFFICES ASSUME NEW c \in Chains
                 PROVE  LET l == ChainList(c)
                            live == {o \in Members(l) : \A p \in Procs : ~(Deleting(p) /\ db[p].idxoff = o)}
                        IN /\ Ends(l)
                           /\ \A o \in live : Rec(o).key \in Keys /\ Hash[Rec(o).key] = c
                           /\ \A o1, o2 \in live : Rec(o1).key = Rec(o2).key => o1 = o2
      BY DEF ChainsWellFormed
    <2> DEFINE live == {o \in Members(ChainList(c)) : \A p \in Procs : ~(Deleting(p) /\ db[p].idxoff = o)}
    <2>1. \A o \in live : o \in L[c] \ {c} /\ ~Dying(o) /\ o \in AllRecs
      BY <1>1, <1>3 DEF Dying
    <2>2. \A o \in live : Rec(o).key = keyof[o] /\ keyof[o] \in Keys /\ Hash[keyof[o]] = c
      BY <1>2, <1>3, <2>1 DEF Contents
    <2>3. \A o1, o2 \in live : Rec(o1).key = Rec(o2).key => o1 = o2
      BY <1>2, <2>1, <2>2 DEF Contents
    <2> HIDE DEF live
    <2>4. \A o \in live : Rec(o).key \in Keys /\ Hash[Rec(o).key] = c
      BY <2>2
    <2> QED BY <1>1, <2>3, <2>4 DEF live
  <1>5. FreeListErased
    BY <1>1, <1>2, <1>3 DEF FreeListErased, Contents
  <1>6. ListsDisjoint
    <2>1. \A c \in Chains : \A o \in Members(ChainList(c)) \cap Members(FreeList) :
            \E p \in Procs : pc[p] = "del.unlink" /\ db[p].idxoff = o
      BY <1>1, <1>2, ZenonT(30) DEF Lists
    <2>2. \A c1, c2 \in Chains : c1 # c2 => Members(ChainList(c1)) \cap Members(ChainList(c2)) = {}
      <3>1. ASSUME NEW c1 \in Chains, NEW c2 \in Chains, c1 # c2
            PROVE  Members(ChainList(c1)) \cap Members(ChainList(c2)) = {}
        <4>1. L[c1] \cap L[c2] = {}
          BY <1>2, <3>1 DEF Lists
        <4> QED BY <1>1, <4>1
      <3> QED BY <3>1
    <2>3. \A o1, o2 \in AllRecs : Rec(o1).datoff = Rec(o2).datoff => o1 = o2
      BY <1>2, <1>3 DEF Contents
    <2>4. ASSUME NEW o \in InTransit
          PROVE  o \notin Members(FreeList) /\ \A c \in Chains : o \notin Members(ChainList(c))
      <3>1. PICK p \in Procs : Holding(p) /\ db[p].idxoff = o
        BY <2>4 DEF InTransit, Holding
      <3> QED BY <1>1, <1>2, <1>3, <3>1 DEF Holds
    <2> QED BY <2>1, <2>2, <2>3, <2>4 DEF ListsDisjoint
  <1> QED BY <1>4, <1>5, <1>6 DEF IndexWellFormed

(* Walkers stand on live records.                                          *)
LEMMA WalkersWell == TypeInv /\ LockInv /\ ListInv => WalkersOnLiveRecords
  <1> SUFFICES ASSUME TypeInv, LockInv, NEW L, NEW R, ListState(L, R), NEW p \in Procs, pc[p] = "find.rec"
               PROVE  Rec(db[p].offset).key \in {k \in Keys : Hash[k] = db[p].chainoff}
    BY DEF ListInv, WalkersOnLiveRecords
  <1>1. InChain(p) /\ ~Deleting(p) /\ Walks(p, L, R)
    BY DEF InChain, OnChain, Deleting, ListState, Doing
  <1>2. db[p].offset \in L[db[p].chainoff] \ {db[p].chainoff}
    BY <1>1 DEF Walks
  <1>3. /\ keyof[db[p].offset] \in Keys /\ Hash[keyof[db[p].offset]] = db[p].chainoff
        /\ db[p].offset \in AllRecs
    BY <1>1, <1>2, OnChainIs
  <1> QED BY <1>3, FileValues

(* No record is lost.                                                      *)
LEMMA AllKept ==
  ASSUME HoldersLive
  PROVE  TypeInv /\ LockInv /\ ListInv => (NHash + Len(idx) <= PtrMax => NoRecordLost)
  <1> SUFFICES ASSUME TypeInv, LockInv, NEW L, NEW R, ListState(L, R), NHash + Len(idx) <= PtrMax
               PROVE  NoRecordLost
    BY DEF ListInv
  <1>1. /\ \A c \in Chains : Members(ChainList(c)) = L[c] \ {c}
        /\ Members(FreeList) = L[0] \ {0}
    BY ChainMembers, FreeMembers
  <1>2. /\ 0 \in Heads /\ Chains \subseteq Heads
        /\ \A l \in Heads : L[l] \ {l} \subseteq AllRecs /\ (l = 0 \/ l \in Chains)
        /\ \A o \in AllRecs : o \notin Heads
    BY RecordNumbers, ListOf DEF ListState, Heads, Chains
  <1>3. ASSUME NEW o \in AllRecs
        PROVE  \/ o \in Members(FreeList) \/ o \in InTransit
               \/ \E c \in Chains : o \in Members(ChainList(c))
    <2>1. (\E l \in Heads : o \in L[l]) \/ (\E p \in Procs : Holding(p) /\ db[p].idxoff = o)
      BY <1>3 DEF ListState, Kept
    <2>2. ASSUME NEW p \in Procs, Holding(p), db[p].idxoff = o PROVE o \in InTransit
      BY <2>2 DEF InTransit, Holding
    <2> QED BY <1>1, <1>2, <2>1, <2>2
  <1>4. InTransit \subseteq AllRecs
    <2>1. ASSUME NEW o \in InTransit PROVE o \in AllRecs
      <3>1. PICK p \in Procs : Holding(p) /\ db[p].idxoff = o
        BY <2>1 DEF InTransit, Holding
      <3> QED BY <3>1 DEF ListState, Doing, Holds
    <2> QED BY <2>1
  <1>5. /\ Members(FreeList) \subseteq AllRecs
        /\ \A c \in Chains : Members(ChainList(c)) \subseteq AllRecs
    BY <1>1, <1>2
  <1> QED BY <1>3, <1>4, <1>5 DEF NoRecordLost

-----------------------------------------------------------------------------
(* The theorems. *)

(* The invariant of the lists, with those it rests on.                     *)
LEMMA ListsStay ==
  ASSUME Mortal \cap {"del.sethead", "del.unlink"} = {}
  PROVE  Spec => [](TypeInv /\ LockInv /\ SlotInv /\ ListInv)
  <1>1. Init => TypeInv /\ LockInv /\ SlotInv /\ ListInv
    BY InitTypeInv, InitLockInv, SlotInit, InitListInv
  <1>2. TypeInv /\ LockInv /\ SlotInv /\ ListInv /\ [Next]_vars => (TypeInv /\ LockInv /\ SlotInv /\ ListInv)'
    BY NextTypeInv, NextLockInv, SlotStep, NextListInv DEF ListsSurvive
  <1> QED BY <1>1, <1>2, PTL DEF Spec

(* The index file is a hash table of disjoint finite lists, at every moment *)
(* of every run of any number of processes (db.c), unless one is killed in *)
(* the two windows of _db_dodelete where a chain runs into the free list.  *)
THEOREM IndexStaysWellFormed ==
  ASSUME Mortal \cap {"del.sethead", "del.unlink"} = {}
  PROVE  Spec => []IndexWellFormed
  BY ListsStay, ListsWellFormed, PTL

(* A process that follows a chain in _db_find_and_lock stands on a live    *)
(* record of that chain, whatever the others do meanwhile (db.c).          *)
THEOREM WalkersStayOnLiveRecords ==
  ASSUME Mortal \cap {"del.sethead", "del.unlink"} = {}
  PROVE  Spec => []WalkersOnLiveRecords
  BY ListsStay, WalkersWell, PTL

(* No record of the index file is lost, as long as its offsets fit the     *)
(* pointers and no process is killed while it holds one that is on no list *)
(* (db.c): what db_delete frees, db_store finds again.                     *)
THEOREM RecordsAreKept ==
  ASSUME Mortal \cap {"del.sethead", "del.unlink"} = {},
         Mortal \cap {"ff.unlock", "reuse.dat", "reuse.idx", "app.idxunlock", "link"} = {}
  PROVE  Spec => [](NHash + Len(idx) <= PtrMax => NoRecordLost)
  <1>1. TypeInv /\ LockInv /\ ListInv => (NHash + Len(idx) <= PtrMax => NoRecordLost)
    BY AllKept DEF HoldersLive
  <1> QED BY <1>1, ListsStay, PTL
=============================================================================
