----------------------------- MODULE WorkQueue -----------------------------
(* process_msg and enqueue_msg of threads/condvar.c: threads that wait for work   *)
(* on a condition variable, and threads that put messages on a list.                *)
EXTENDS Naturals, Sequences, SequencesExt

CONSTANTS
    Workers,   \* threads in process_msg
    Msgs,      \* messages, each enqueued once, by a thread of its own
    NoMsg

ASSUME WorkAssumption == Workers # {} /\ {NoMsg, "lock", "wait"} \cap Msgs = {}

VARIABLES
    workq,     \* the list, newest first
    worker,    \* worker -> at the lock, in pthread_cond_wait, or the message it has
    sender,    \* message -> its thread: before the lock, before the signal, done
    processed  \* messages processed

workvars == <<workq, worker, sender, processed>>

WorkInit ==
    /\ workq = <<>>
    /\ worker = [w \in Workers |-> "lock"]
    /\ sender = [m \in Msgs |-> "lock"]
    /\ processed = {}

(* From the lock, or the return of pthread_cond_wait, which has it again, to    *)
(* letting it go: the list is looked at again after every wait.                    *)
TakeMsg(w) ==
    /\ worker[w] = "lock"
    /\ IF workq = <<>> THEN worker' = [worker EXCEPT ![w] = "wait"] /\ UNCHANGED workq
       ELSE /\ worker' = [worker EXCEPT ![w] = Head(workq)]
            /\ workq' = Tail(workq)
    /\ UNCHANGED <<sender, processed>>

(* "now process the message mp" *)
ProcessMsg(w) ==
    /\ worker[w] \in Msgs
    /\ processed' = processed \cup {worker[w]}
    /\ worker' = [worker EXCEPT ![w] = "lock"]
    /\ UNCHANGED <<workq, sender>>

EnqueueMsg(m) ==
    /\ sender[m] = "lock"
    /\ workq' = <<m>> \o workq
    /\ sender' = [sender EXCEPT ![m] = "signal"]
    /\ UNCHANGED <<worker, processed>>

(* pthread_cond_signal, after the lock is gone, wakes one of those that wait.    *)
SignalReady(m) ==
    /\ sender[m] = "signal"
    /\ sender' = [sender EXCEPT ![m] = "done"]
    /\ LET waiting == {w \in Workers : worker[w] = "wait"} IN
       IF waiting = {} THEN UNCHANGED worker
       ELSE \E w \in waiting : worker' = [worker EXCEPT ![w] = "lock"]
    /\ UNCHANGED <<workq, processed>>

(* pthread_cond_wait may return by itself. *)
WakeUp(w) ==
    /\ worker[w] = "wait"
    /\ worker' = [worker EXCEPT ![w] = "lock"]
    /\ UNCHANGED <<workq, sender, processed>>

WorkNext ==
    \/ \E w \in Workers : TakeMsg(w) \/ ProcessMsg(w) \/ WakeUp(w)
    \/ \E m \in Msgs : EnqueueMsg(m) \/ SignalReady(m)

WorkFairness ==
    /\ \A w \in Workers : WF_workvars(TakeMsg(w) \/ ProcessMsg(w))
    /\ \A m \in Msgs : WF_workvars(SignalReady(m))

WorkSpec == WorkInit /\ [][WorkNext]_workvars /\ WorkFairness

---------------------------------------------------------------------------

(* Every message that was put on the list is in one place: on the list, with one   *)
(* worker, or processed; and when nobody is about to look at a list that is not        *)
(* empty, a signal is on its way, although it is sent without the lock.                  *)
WorkNotLost ==
    /\ \A m \in Msgs : sender[m] # "lock" =>
         \/ m \in ToSet(workq) /\ m \notin processed /\ \A w \in Workers : worker[w] # m
         \/ m \notin ToSet(workq) /\ m \notin processed
            /\ \E w \in Workers : worker[w] = m /\ \A v \in Workers : worker[v] = m => v = w
         \/ m \in processed /\ m \notin ToSet(workq) /\ \A w \in Workers : worker[w] # m
    /\ \A i, j \in DOMAIN workq : workq[i] = workq[j] => i = j
    /\ workq # <<>> /\ (\A w \in Workers : worker[w] = "wait")
       => \E m \in Msgs : sender[m] = "signal"

(* Every message that is enqueued is processed, by workers that are scheduled.      *)
MsgsProcessed == \A m \in Msgs : sender[m] # "lock" ~> m \in processed
=============================================================================
