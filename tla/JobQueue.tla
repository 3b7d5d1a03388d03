----------------------------- MODULE JobQueue -----------------------------
(* The list of jobs of threads/rwlock.c.  The lock of the queue is held from     *)
(* the first to the last access of every function, so each one is a step.  `jobs'  *)
(* is what the queue is meant to hold.                                               *)
EXTENDS Naturals, Sequences, FiniteSets, SequencesExt

CONSTANTS
    Jobs,     \* struct job's that threads have ready; each is queued once
    NULL

ASSUME JobAssumption == IsFiniteSet(Jobs) /\ NULL \notin Jobs

VARIABLES
    qp,       \* struct queue: head and tail
    next,     \* job -> j_next
    prev,     \* job -> j_prev
    jobs,     \* history: the jobs in the queue, in their order
    fresh,    \* the jobs nobody has queued yet
    jobfound, \* what job_find has just been asked for, and returned
    torn      \* "yes": a job was put in front of one that is not in the queue;
              \* "crash": a function has followed NULL

jobvars == <<qp, next, prev, jobs, fresh, jobfound, torn>>

Nothing == [asked |-> NULL, got |-> NULL]

JobInit ==
    /\ qp = [head |-> NULL, tail |-> NULL]
    /\ next = [j \in Jobs |-> NULL] /\ prev = [j \in Jobs |-> NULL]
    /\ jobs = <<>> /\ fresh = Jobs /\ jobfound = Nothing /\ torn = "no"

TakenOut(j) == \E i \in DOMAIN jobs : jobs[i] = j /\ jobs' = RemoveAt(jobs, i)

Set1(f, j, v) == IF j = NULL THEN f ELSE [f EXCEPT ![j] = v]

JobInsert(j) ==
    /\ torn # "crash"
    /\ j \in fresh /\ fresh' = fresh \ {j}
    /\ next' = [next EXCEPT ![j] = qp.head]
    /\ prev' = Set1([prev EXCEPT ![j] = NULL], qp.head, j)
    /\ qp' = [head |-> j, tail |-> IF qp.head = NULL THEN j ELSE qp.tail]
    /\ jobs' = <<j>> \o jobs
    /\ torn' = IF jobs = <<>> /\ qp.head # NULL THEN "yes" ELSE torn
    /\ jobfound' = Nothing

JobAppend(j) ==
    /\ torn # "crash"
    /\ j \in fresh /\ fresh' = fresh \ {j}
    /\ next' = Set1([next EXCEPT ![j] = NULL], qp.tail, j)
    /\ prev' = [prev EXCEPT ![j] = qp.tail]
    /\ qp' = [head |-> IF qp.tail = NULL THEN j ELSE qp.head, tail |-> j]
    /\ jobs' = Append(jobs, j)
    /\ jobfound' = Nothing
    /\ UNCHANGED torn

(* A middle job whose prev is not followed back from the next one. *)
JobRemoveHalf(j) ==
    /\ torn # "crash" /\ TakenOut(j)
    /\ IF j = qp.head THEN qp' = [head |-> next[j], tail |-> IF qp.tail = j THEN NULL ELSE qp.tail]
       ELSE IF j = qp.tail THEN qp' = [qp EXCEPT !.tail = prev[j]]
       ELSE UNCHANGED qp
    /\ next' = IF j = qp.head \/ j = qp.tail THEN next ELSE Set1(next, prev[j], next[j])
    /\ jobfound' = Nothing
    /\ UNCHANGED <<prev, fresh, torn>>

(* job_remove: neither the new head's j_prev nor the new tail's j_next is reset. *)
JobRemove(j) ==
    /\ torn # "crash" /\ TakenOut(j)
    /\ IF j = qp.head
       THEN /\ qp' = [head |-> next[j], tail |-> IF qp.tail = j THEN NULL ELSE qp.tail]
            /\ UNCHANGED <<next, prev, torn>>
       ELSE IF j = qp.tail
       THEN /\ qp' = [qp EXCEPT !.tail = prev[j]]
            /\ UNCHANGED <<next, prev, torn>>
       ELSE /\ next' = Set1(next, prev[j], next[j])
            /\ prev' = Set1(prev, next[j], prev[j])
            /\ torn' = IF prev[j] = NULL \/ next[j] = NULL THEN "crash" ELSE torn
            /\ UNCHANGED qp
    /\ jobfound' = Nothing
    /\ UNCHANGED fresh

(* What the loop of job_find comes to after n turns. *)
Walk(n) == LET w[i \in 0 .. n] == IF i = 0 THEN qp.head
                                  ELSE IF w[i - 1] = NULL THEN NULL ELSE next[w[i - 1]]
           IN  w[n]

JobFind(j) ==
    /\ torn # "crash"
    /\ jobfound' = [asked |-> j,
                    got |-> IF \E n \in 0 .. Cardinality(Jobs) : Walk(n) = j THEN j ELSE NULL]
    /\ UNCHANGED <<qp, next, prev, jobs, fresh, torn>>

JobNext == \E j \in Jobs : JobInsert(j) \/ JobAppend(j) \/ JobRemove(j) \/ JobFind(j)

JobSpec == JobInit /\ [][JobNext]_jobvars

---------------------------------------------------------------------------

(* The queue holds the jobs that were put into it and not yet removed, in  *)
(* their order: each one points to its neighbours, the head is the first,  *)
(* the tail the last and NULL when there is none, and job_find finds every *)
(* job there is.  Outside are two pointers that job_remove leaves as they  *)
(* are, j_prev of a new head and j_next of a new tail, until a job is      *)
(* inserted in front of one that was removed: from there on nothing is     *)
(* said.                                                                   *)
JobsKept ==
    torn = "no" =>
      /\ qp.tail = IF jobs = <<>> THEN NULL ELSE Last(jobs)
      /\ jobs # <<>> => qp.head = Head(jobs)
      /\ \A i \in 1 .. Len(jobs) - 1 : next[jobs[i]] = jobs[i + 1] /\ prev[jobs[i + 1]] = jobs[i]
      /\ jobfound.asked \in ToSet(jobs) => jobfound.got = jobfound.asked
=============================================================================
