------------------------------ MODULE MCApueDb ------------------------------
(***************************************************************************)
(* Small instances of ApueDb: three keys, two of which share a chain, and  *)
(* data strings of two lengths.                                            *)
(***************************************************************************)
EXTENDS ApueDb, TLC

CONSTANTS p1, p2, ka, kb, kc, d1, dd, c1, c2

MCHash == [k \in Keys |-> IF k = kc THEN c2 ELSE c1]
MCKeyLen == [k \in Keys |-> IF k = kb THEN 2 ELSE 1]
MCDatLen == [d \in Data |-> IF d = dd THEN 3 ELSE 2]

Stores(K, D, F) == {Abs!StoreCall(k, d, f) : k \in K, d \in D, f \in F}
Deletes(K) == {Abs!DeleteCall(k) : k \in K}
Fetches(K) == {Abs!FetchCall(k) : k \in K}
AllFlags == {"DB_INSERT", "DB_REPLACE", "DB_STORE"}

\* Two processes that meet on one chain (ka and kb) or, on two chains (ka
\* and kc), only in the free list and the files.  The first makes every call
\* but db_nextrec with every flag.
WriterUses == [p \in Procs |->
    IF p = p1
    THEN Stores({ka}, Data, AllFlags) \cup Deletes({ka}) \cup Fetches({ka, kb})
    ELSE Stores({kb}, {d1}, {"DB_STORE"}) \cup Stores({kc}, Data, {"DB_STORE"})
         \cup Deletes({ka, kc}) \cup Fetches({ka})]
WriterCalls == [p \in Procs |-> 2]

\* A process that may be killed, and one that goes on and mixes its calls, so
\* that the sanity checks may stop it.
CrashUses == [p \in Procs |->
    IF p = p1 THEN Stores({ka}, Data, {"DB_STORE"}) \cup Deletes({ka})
    ELSE Stores({ka, kb, kc}, {d1}, {"DB_STORE"}) \cup Deletes({ka, kb})
         \cup {Abs!NextrecCall}]

\* A record fits any key, so that the blank one left by a deletion that was
\* cut is reused in its own chain and in the other.
CrashKeyLen == [k \in Keys |-> 1]
CrashCalls == [p \in Procs |-> IF p = p1 THEN 3 ELSE 2]
InsideCalls == Points \ (Ended \cup {"idle"})
=============================================================================
