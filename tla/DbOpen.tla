------------------------------- MODULE DbOpen -------------------------------
(***************************************************************************)
(* db_open and db_close of lab_1/apue.3e/db/db.c, and what the opening of  *)
(* one process does to the use of the database by another.  ApueDb starts  *)
(* from a database that everyone has open; here processes open, create,    *)
(* truncate, use and close it, and of the use only what touches the table  *)
(* of chain pointers is kept: one db_store, of a record of its own, each   *)
(* time it is open.                                                        *)
(***************************************************************************)
EXTENDS Naturals

CONSTANTS
    Callers,
    Flags,      \* Flags[p]: the oflag argument of p: a subset of OFlags
    MaxDbOpens    \* bound on the number of db_open calls of a process

OFlags == {"O_CREAT", "O_TRUNC"}

ASSUME OpenAssumption ==
    Flags \in [Callers -> SUBSET OFlags] /\ MaxDbOpens \in Nat

VARIABLES
    index,    \* the index file: see Index
    linked,   \* the processes whose record is linked into a chain
    data,     \* whether the data file exists
    whole,    \* the processes with a write lock on the whole index file
    chain,    \* the processes with a write lock on the one chain in use
    pt, dbopens

openVars == <<index, linked, data, whole, chain, pt, dbopens>>

\* The index file does not exist, is empty, begins with a table of chain
\* pointers, or has something else where the table should be.
Index == {"absent", "empty", "table", "garbage"}

OpenPoints == {"open_dat", "open_dat_only", "init_lock", "init_stat", "init_write", "init_unlock"}
UsePoints == {"ready", "read_ptr", "append", "link", "unlock", "stored"}

\* The types.
OpenOK ==
    /\ index \in Index
    /\ linked \subseteq Callers
    /\ data \in BOOLEAN
    /\ whole \subseteq Callers /\ chain \subseteq Callers
    /\ pt \in [Callers -> OpenPoints \cup UsePoints \cup {"closed", "dumped"}]
    /\ dbopens \in [Callers -> 0 .. MaxDbOpens]

OpenInit ==
    /\ index \in {"absent", "table"}
    /\ linked = {}
    /\ data = (index = "table")
    /\ whole = {}
    /\ chain = {}
    /\ pt = [p \in Callers |-> "closed"]
    /\ dbopens = [p \in Callers |-> 0]

Creates(p) == OFlags \subseteq Flags[p]

Passes(p, from, to) == pt[p] = from /\ pt' = [pt EXCEPT ![p] = to]
-----------------------------------------------------------------------------
\* db_open

\* open() of the index file, which creates and truncates it without a lock.
OpenIdx(p) ==
    /\ dbopens[p] < MaxDbOpens
    /\ dbopens' = [dbopens EXCEPT ![p] = @ + 1]
    /\ IF index = "absent" /\ "O_CREAT" \notin Flags[p]
       THEN Passes(p, "closed", "open_dat_only") /\ UNCHANGED <<index, linked>>
       ELSE /\ Passes(p, "closed", "open_dat")
            /\ index' = IF index = "absent" \/ "O_TRUNC" \in Flags[p] THEN "empty" ELSE index
            /\ linked' = IF index' = "empty" THEN {} ELSE linked
    /\ UNCHANGED <<data, whole, chain>>

\* open() of the data file.  The call returns NULL if either open failed.
OpenDat(p) ==
    /\ data' = (data \/ "O_CREAT" \in Flags[p])
    /\ \/ Passes(p, "open_dat_only", "closed")
       \/ Passes(p, "open_dat",
               IF ~data' THEN "closed" ELSE IF Creates(p) THEN "init_lock" ELSE "ready")
    /\ UNCHANGED <<index, linked, whole, chain, dbopens>>

InitLock(p) ==
    /\ Passes(p, "init_lock", "init_stat")
    /\ whole \cup chain \subseteq {p}
    /\ whole' = whole \cup {p}
    /\ UNCHANGED <<index, linked, data, chain, dbopens>>

\* (mutant) The size is not checked.
InitStatAlways(p) ==
    /\ Passes(p, "init_stat", "init_write")
    /\ UNCHANGED <<index, linked, data, whole, chain, dbopens>>

InitStat(p) ==
    /\ Passes(p, "init_stat", IF index = "empty" THEN "init_write" ELSE "init_unlock")
    /\ UNCHANGED <<index, linked, data, whole, chain, dbopens>>

InitWrite(p) ==
    /\ Passes(p, "init_write", "init_unlock")
    /\ index' = "table"
    /\ linked' = {}
    /\ UNCHANGED <<data, whole, chain, dbopens>>

\* (mutant) The file stays locked.
InitUnlockForgotten(p) ==
    /\ Passes(p, "init_unlock", "ready")
    /\ UNCHANGED <<index, linked, data, whole, chain, dbopens>>

InitUnlock(p) ==
    /\ Passes(p, "init_unlock", "ready")
    /\ whole' = whole \ {p}
    /\ UNCHANGED <<index, linked, data, chain, dbopens>>
-----------------------------------------------------------------------------
\* db_store of a new record, which locks its chain, reads the chain pointer,
\* appends the record to the files and links it.

StoreLock(p) ==
    /\ Passes(p, "ready", "read_ptr")
    /\ whole \cup chain \subseteq {p}
    /\ chain' = chain \cup {p}
    /\ UNCHANGED <<index, linked, data, whole, dbopens>>

\* What _db_readptr finds where there is no table depends on what is there.
ReadPtr(p) ==
    /\ index # "empty"
    /\ Passes(p, "read_ptr", "append")
    /\ UNCHANGED <<index, linked, data, whole, chain, dbopens>>

\* The table cannot be read: err_dump ends the process.
Dump(p) ==
    /\ index \in {"empty", "garbage"}
    /\ Passes(p, "read_ptr", "dumped")
    /\ whole' = whole \ {p}
    /\ chain' = chain \ {p}
    /\ UNCHANGED <<index, linked, data, dbopens>>

\* Anything written to a file that lost its table takes the table's place.
Written == IF index = "table" THEN "table" ELSE "garbage"

AppendRecord(p) ==
    /\ Passes(p, "append", "link")
    /\ index' = Written
    /\ UNCHANGED <<linked, data, whole, chain, dbopens>>

LinkRecord(p) ==
    /\ Passes(p, "link", "unlock")
    /\ index' = Written
    /\ linked' = IF index = "table" THEN linked \cup {p} ELSE linked
    /\ UNCHANGED <<data, whole, chain, dbopens>>

StoreUnlock(p) ==
    /\ Passes(p, "unlock", "stored")
    /\ chain' = chain \ {p}
    /\ UNCHANGED <<index, linked, data, whole, dbopens>>

\* db_close: the descriptors are closed, which drops the locks.
CloseDb(p) ==
    /\ Passes(p, "ready", "closed") \/ Passes(p, "stored", "closed")
    /\ whole' = whole \ {p}
    /\ chain' = chain \ {p}
    /\ UNCHANGED <<index, linked, data, dbopens>>
-----------------------------------------------------------------------------
OpenStep(p) == \/ OpenDat(p) \/ InitLock(p) \/ InitStat(p)
               \/ InitWrite(p) \/ InitUnlock(p)
UseStep(p) == ReadPtr(p) \/ Dump(p) \/ AppendRecord(p) \/ LinkRecord(p) \/ StoreUnlock(p)

OpenNext == \E p \in Callers :
            OpenIdx(p) \/ OpenStep(p) \/ StoreLock(p) \/ UseStep(p) \/ CloseDb(p)

OpenSpec == OpenInit /\ [][OpenNext]_openVars
OpenFairness == \A p \in Callers : WF_openVars(OpenStep(p) \/ UseStep(p))
OpenFairSpec == OpenSpec /\ OpenFairness
-----------------------------------------------------------------------------
\* Properties

\* The records of a database are only ever lost to an open() that asked for
\* its truncation: the lock and the size check of db_open keep a creator
\* from writing its table over the pointers of a database in use.
OnlyTruncationLoses ==
    [][linked \subseteq linked' \/ \E p \in Callers : "O_TRUNC" \in Flags[p] /\ OpenIdx(p)]_openVars

\* Every db_open returns: a creator waits for the whole file only while
\* others are inside a call (the lock conflicts with every chain lock), and
\* the others make a bounded number of calls.
OpenReturns == \A p \in Callers : pt[p] \in OpenPoints ~> pt[p] \in {"ready", "closed"}
=============================================================================
