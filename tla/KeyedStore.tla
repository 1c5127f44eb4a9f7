----------------------------- MODULE KeyedStore -----------------------------
(***************************************************************************)
(* What db.c promises its callers: a map from keys to data strings on      *)
(* which every call takes effect at one instant between its invocation and *)
(* its return.  ApueDb implements this module.                             *)
(*                                                                         *)
(* A call is a record [op, key, data, flag]; the fields an operation does  *)
(* not take hold NONE.  A result is a record [rc, key, data].              *)
(***************************************************************************)
EXTENDS Integers

CONSTANTS
    Procs,     \* processes with the database open
    Keys,      \* keys
    Data,      \* data strings
    NONE       \* absent key, data, flag or result

VARIABLES
    store,     \* store[k]: the data filed under k, or NONE
    call,      \* call[p]: the call p is in, or Idle
    ret        \* ret[p]: the result of that call once it has taken effect

Flags == {"DB_INSERT", "DB_REPLACE", "DB_STORE"}

Idle == [op |-> "none", key |-> NONE, data |-> NONE, flag |-> NONE]

FetchCall(k)       == [op |-> "fetch",   key |-> k, data |-> NONE, flag |-> NONE]
DeleteCall(k)      == [op |-> "delete",  key |-> k, data |-> NONE, flag |-> NONE]
StoreCall(k, d, f) == [op |-> "store",   key |-> k, data |-> d,    flag |-> f]
NextrecCall        == [op |-> "nextrec", key |-> NONE, data |-> NONE, flag |-> NONE]

Calls == {FetchCall(k) : k \in Keys} \cup {DeleteCall(k) : k \in Keys}
         \cup {StoreCall(k, d, f) : k \in Keys, d \in Data, f \in Flags}
         \cup {NextrecCall}

Result(rc, k, d) == [rc |-> rc, key |-> k, data |-> d]
Pending == Result(0, NONE, NONE)      \* also the result of an idle process
Results == [rc : {-1, 0, 1}, key : Keys \cup {NONE}, data : Data \cup {NONE}]

vars == <<store, call, ret>>

TypeOK ==
    /\ store \in [Keys -> Data \cup {NONE}]
    /\ call \in [Procs -> Calls \cup {Idle}]
    /\ ret \in [Procs -> Results]

Init ==
    /\ store = [k \in Keys |-> NONE]
    /\ call = [p \in Procs |-> Idle]
    /\ ret = [p \in Procs |-> Pending]

Invoke(p, c) ==
    /\ call[p] = Idle
    /\ call' = [call EXCEPT ![p] = c]
    /\ UNCHANGED <<store, ret>>

\* The instant at which the call of p takes effect with result r.
Answer(p, r) ==
    /\ ret[p] = Pending
    /\ ret' = [ret EXCEPT ![p] = r]
    /\ UNCHANGED call

Fetch(p) ==
    /\ call[p].op = "fetch"
    /\ LET k == call[p].key
       IN Answer(p, Result(IF store[k] = NONE THEN -1 ELSE 0, k, store[k]))
    /\ UNCHANGED store

Delete(p) ==
    /\ call[p].op = "delete"
    /\ LET k == call[p].key
       IN /\ Answer(p, Result(IF store[k] = NONE THEN -1 ELSE 0, k, NONE))
          /\ store' = [store EXCEPT ![k] = NONE]

\* DB_REPLACE of an absent key fails with -1, DB_INSERT of a present one
\* with 1, and neither changes the store.
StoreOutcome(flag, present) ==
    IF flag = "DB_REPLACE" /\ ~present THEN -1
    ELSE IF flag = "DB_INSERT" /\ present THEN 1
    ELSE 0

Store(p) ==
    /\ call[p].op = "store"
    /\ LET k  == call[p].key
           rc == StoreOutcome(call[p].flag, store[k] # NONE)
       IN /\ Answer(p, Result(rc, k, NONE))
          /\ store' = IF rc = 0 THEN [store EXCEPT ![k] = call[p].data] ELSE store

\* A step of a scan: some record that is in the store now, or end of file.
\* Which records a whole scan visits is the subject of DbScan.
Nextrec(p) ==
    /\ call[p].op = "nextrec"
    /\ \/ \E k \in Keys : store[k] # NONE /\ Answer(p, Result(0, k, store[k]))
       \/ Answer(p, Result(-1, NONE, NONE))
    /\ UNCHANGED store

Return(p) ==
    /\ ret[p] # Pending
    /\ ret' = [ret EXCEPT ![p] = Pending]
    /\ call' = [call EXCEPT ![p] = Idle]
    /\ UNCHANGED store

Next ==
    \E p \in Procs :
        \/ \E c \in Calls : Invoke(p, c)
        \/ Fetch(p) \/ Delete(p) \/ Store(p) \/ Nextrec(p)
        \/ Return(p)

Spec == Init /\ [][Next]_vars
=============================================================================
