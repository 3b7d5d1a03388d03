-------------------------------- MODULE DbMap --------------------------------
(***************************************************************************)
(* What the database of db/db.c promises to its callers: a map from keys   *)
(* to values on which every call takes effect atomically, at one instant   *)
(* between its invocation and its return.  db_nextrec promises only that   *)
(* the pair it returns is in the map at that instant.                      *)
(***************************************************************************)
EXTENDS Integers

CONSTANTS Procs, Keys, Calls, None, Pending

VARIABLES
  map,   \* key -> value, or None
  op,    \* process -> the call it is executing, or None
  out    \* process -> Pending until the call has taken effect, then its result

vars == <<map, op, out>>

Finish(p, r) == out' = [out EXCEPT ![p] = r]
Put(k, v)    == map' = [map EXCEPT ![k] = v]

Invoke(p) ==
  /\ op[p] = None
  /\ \E c \in Calls[p] : op' = [op EXCEPT ![p] = c]
  /\ Finish(p, Pending)
  /\ UNCHANGED map

Fetch(p, c) == c.f = "fetch" /\ Finish(p, map[c.key]) /\ UNCHANGED map

Delete(p, c) ==
  /\ c.f = "delete"
  /\ \/ map[c.key] = None /\ Finish(p, -1) /\ UNCHANGED map
     \/ map[c.key] # None /\ Finish(p, 0) /\ Put(c.key, None)

Store(p, c) ==
  /\ c.f = "store"
  /\ \/ map[c.key] # None /\ c.flag = "INSERT" /\ Finish(p, 1) /\ UNCHANGED map
     \/ map[c.key] = None /\ c.flag = "REPLACE" /\ Finish(p, -1) /\ UNCHANGED map
     \/ /\ (map[c.key] = None) => (c.flag # "REPLACE")
        /\ (map[c.key] # None) => (c.flag # "INSERT")
        /\ Finish(p, 0) /\ Put(c.key, c.data)

NextRec(p, c) ==
  /\ c.f = "nextrec"
  /\ \/ Finish(p, None)
     \/ \E k \in Keys : map[k] # None /\ Finish(p, <<k, map[k]>>)
  /\ UNCHANGED map

TakeEffect(p) ==
  /\ op[p] # None /\ out[p] = Pending
  /\ LET c == op[p] IN Fetch(p, c) \/ Delete(p, c) \/ Store(p, c) \/ NextRec(p, c)
  /\ UNCHANGED op

Return(p) ==
  /\ op[p] # None /\ out[p] # Pending
  /\ op' = [op EXCEPT ![p] = None]
  /\ Finish(p, None)
  /\ UNCHANGED map

Init ==
  /\ map = [k \in Keys |-> None]
  /\ op = [p \in Procs |-> None]
  /\ out = [p \in Procs |-> None]

Next == \E p \in Procs : Invoke(p) \/ TakeEffect(p) \/ Return(p)

Spec == Init /\ [][Next]_vars
=============================================================================
