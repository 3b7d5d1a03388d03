------------------------------ MODULE Objects ------------------------------
(* The object with a count of its references of threads/mutex1.c, mutex2.c    *)
(* and mutex3.c: foo_alloc, foo_hold, foo_find and foo_rele.  The count is read  *)
(* in one step and written in another, under the lock that the version takes.     *)
EXTENDS Naturals, FiniteSets

CONSTANTS
    Threads,   \* threads that share the object
    Nobody,
    Refs,      \* bound: references that may be held at once
    Variants   \* the versions to look at

ASSUME ObjAssumption ==
    /\ Nobody \notin Threads
    /\ IsFiniteSet(Refs)
    /\ Variants \subseteq {"mutex1", "mutex2", "mutex3"}

VARIABLES
    variant,   \* the version
    foo,       \* struct foo: memory, f_count, f_next
    fh,        \* fh[idx]: the chain the object belongs to, "fp" or "NULL"
    locks,     \* who has f_lock, and hashlock
    owner,     \* reference -> the thread that has it
    at,        \* thread -> where it stands: the step it still has to take
    seen,      \* thread -> the f_count it has read in its call, or 0
    found,     \* what the last foo_find returned
    segv       \* the process has been killed by an invalid pointer

objvars == <<variant, foo, fh, locks, owner, at, seen, found, segv>>

Held == {r \in Refs : owner[r] # Nobody}

ObjInit ==
    /\ variant \in Variants
    /\ foo = [mem |-> "none", count |-> 0, next |-> "NULL"]
    /\ fh = "NULL"
    /\ locks = [f |-> Nobody, hash |-> Nobody]
    /\ owner = [r \in Refs |-> Nobody]
    /\ at = [t \in Threads |-> "idle"]
    /\ seen = [t \in Threads |-> 0]
    /\ found = "none"
    /\ segv = FALSE

Idle(t) == ~segv /\ at[t] = "idle"

(* foo_alloc, when nobody has an object.  In mutex2 and mutex3 the assignment  *)
(* to fh[idx] is of f_next, not of fp; mutex3 returns with f_lock locked.         *)
FooAlloc(t, r) ==
    /\ Idle(t) /\ foo.mem # "live" /\ Held = {}
    /\ \A u \in Threads : at[u] = "idle"
    /\ owner' = [owner EXCEPT ![r] = t]
    /\ foo' = [mem |-> "live", count |-> 1, next |-> fh]
    /\ fh' = IF variant = "mutex1" THEN fh ELSE foo'.next
    /\ locks' = [f |-> IF variant = "mutex1" THEN Nobody ELSE t, hash |-> Nobody]
    /\ at' = [at EXCEPT ![t] = IF variant = "mutex2" THEN "init" ELSE @]
    /\ UNCHANGED <<variant, seen, found, segv>>

FooInitialised(t) ==
    /\ ~segv /\ at[t] = "init"
    /\ locks' = [locks EXCEPT !.f = Nobody]
    /\ at' = [at EXCEPT ![t] = "idle"]
    /\ UNCHANGED <<variant, foo, fh, owner, seen, found, segv>>

(* The lock that protects f_count, of the object or of the hash table. *)
CountLock == IF variant = "mutex3" THEN "hash" ELSE "f"

BeginUnlocked(t, a) ==
    /\ Idle(t)
    /\ locks' = [locks EXCEPT ![CountLock] = t]
    /\ seen' = [seen EXCEPT ![t] = foo.count]
    /\ at' = [at EXCEPT ![t] = a]
    /\ UNCHANGED <<variant, foo, fh, owner, found, segv>>

(* Lock, and look at the count. *)
Begin(t, a) ==
    /\ Idle(t) /\ locks[CountLock] = Nobody
    /\ locks' = [locks EXCEPT ![CountLock] = t]
    /\ seen' = [seen EXCEPT ![t] = foo.count]
    /\ at' = [at EXCEPT ![t] = a]
    /\ UNCHANGED <<variant, foo, fh, owner, found, segv>>

Unlock == locks' = [locks EXCEPT ![CountLock] = Nobody]

(* foo_hold, by a thread that has a reference. *)
FooHold(t, r) == owner[r] = Nobody /\ (\E q \in Refs : owner[q] = t) /\ Begin(t, "hold")

FooHeld(t, r) ==
    /\ ~segv /\ at[t] = "hold" /\ owner[r] = Nobody
    /\ foo' = [foo EXCEPT !.count = seen[t] + 1]
    /\ owner' = [owner EXCEPT ![r] = t]
    /\ Unlock /\ at' = [at EXCEPT ![t] = "idle"] /\ seen' = [seen EXCEPT ![t] = 0]
    /\ UNCHANGED <<variant, fh, found, segv>>

(* foo_find, which walks the chain that its uninitialised fp names. *)
FooFind(t, r) ==
    /\ Idle(t) /\ variant # "mutex1" /\ owner[r] = Nobody
    /\ locks.hash = Nobody
    /\ found' = fh
    /\ IF fh = "NULL" THEN UNCHANGED <<foo, owner>>
       ELSE /\ locks[CountLock] = Nobody
            /\ foo' = [foo EXCEPT !.count = @ + 1]
            /\ owner' = [owner EXCEPT ![r] = t]
    /\ UNCHANGED <<variant, fh, locks, at, seen, segv>>

(* A thread hands a reference to another one. *)
Pass(t, u, r) ==
    /\ Idle(t) /\ owner[r] = t
    /\ owner' = [owner EXCEPT ![r] = u]
    /\ UNCHANGED <<variant, foo, fh, locks, at, seen, found, segv>>

(* The end of foo_rele for the last reference: off the chain, where an object  *)
(* that is not at its head is looked for behind tfp, NULL or not.                 *)
Unchain(t) ==
    IF variant = "mutex1" \/ fh = "fp"
    THEN /\ at' = [at EXCEPT ![t] = "destroy"]
         /\ fh' = IF variant = "mutex1" THEN fh ELSE foo.next
         /\ UNCHANGED segv
    ELSE segv' = TRUE /\ at' = [at EXCEPT ![t] = "idle"] /\ UNCHANGED fh

(* One reference less: the last, or not. *)
OneLess(t, r, n) ==
    /\ foo' = [foo EXCEPT !.count = n - 1]
    /\ owner' = [owner EXCEPT ![r] = Nobody]
    /\ Unlock
    /\ IF n = 1 THEN Unchain(t)
       ELSE at' = [at EXCEPT ![t] = "idle"] /\ UNCHANGED <<fh, segv>>

(* foo_rele.  mutex2 lets f_lock go, to take hashlock first, and looks again.   *)
FooRele(t, r) == owner[r] = t /\ Begin(t, "rele")

FooReleased(t, r) ==
    /\ ~segv /\ at[t] = "rele" /\ owner[r] = t
    /\ IF variant = "mutex2" /\ seen[t] = 1
       THEN /\ Unlock /\ at' = [at EXCEPT ![t] = "last"]
            /\ UNCHANGED <<foo, owner, fh, segv>>
       ELSE OneLess(t, r, seen[t])
    /\ seen' = [seen EXCEPT ![t] = 0]
    /\ UNCHANGED <<variant, found>>

FooLast(t, r) ==
    /\ ~segv /\ at[t] = "last" /\ owner[r] = t
    /\ locks.hash = Nobody /\ locks.f = Nobody
    /\ OneLess(t, r, foo.count)
    /\ UNCHANGED <<variant, seen, found>>

(* pthread_mutex_destroy and free. *)
FooFree(t) ==
    /\ ~segv /\ at[t] = "destroy"
    /\ foo' = [foo EXCEPT !.mem = "freed"]
    /\ at' = [at EXCEPT ![t] = "idle"]
    /\ UNCHANGED <<variant, fh, locks, owner, seen, found, segv>>

ObjNext ==
    \E t \in Threads :
        \/ FooInitialised(t) \/ FooFree(t)
        \/ \E r \in Refs :
             \/ FooAlloc(t, r) \/ FooHold(t, r) \/ FooHeld(t, r) \/ FooFind(t, r)
             \/ FooRele(t, r) \/ FooReleased(t, r) \/ FooLast(t, r)
             \/ \E u \in Threads \ {t} : Pass(t, u, r)

ObjSpec == ObjInit /\ [][ObjNext]_objvars

---------------------------------------------------------------------------

ObjTypeOK ==
    /\ variant \in Variants
    /\ foo \in [mem : {"none", "live", "freed"}, count : Nat, next : {"NULL", "fp"}]
    /\ fh \in {"NULL", "fp"}
    /\ locks \in [{"f", "hash"} -> Threads \cup {Nobody}]
    /\ owner \in [Refs -> Threads \cup {Nobody}]
    /\ at \in [Threads -> {"idle", "init", "hold", "rele", "last", "destroy"}]
    /\ seen \in [Threads -> Nat]
    /\ found \in {"none", "NULL", "fp"}
    /\ segv \in BOOLEAN

(* An object that nobody has a reference to any more is freed, or is about to be     *)
(* (foo_rele: "release a reference to the object", mutex2.c:75, and for the last        *)
(* one "remove from list", mutex2.c:99).                                                   *)
LastFrees ==
    Held = {} /\ foo.mem = "live" => \E t \in Threads : at[t] = "destroy"

(* No reference is lost between the reading of the count and its writing, and a thread   *)
(* within a call finds the object in memory: it goes only when no reference is left, by     *)
(* one thread.  In mutex1 it does go then.  In mutex2 and mutex3 no release frees it: the    *)
(* one that gives up the last reference follows a null pointer, and no other does.              *)
CountsAreRefs ==
    /\ foo.count = Cardinality(Held)
    /\ (Held # {} \/ \E t \in Threads : at[t] # "idle") => foo.mem = "live" /\ ~segv
    /\ \A t, u \in Threads : at[t] = "destroy" => Held = {} /\ (at[u] = "destroy" => t = u)
    /\ variant = "mutex1" => LastFrees /\ ~segv
    /\ variant # "mutex1" => (segv <=> Held = {} /\ foo.mem = "live") /\ foo.mem # "freed"
=============================================================================
