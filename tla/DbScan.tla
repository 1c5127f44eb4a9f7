------------------------------- MODULE DbScan -------------------------------
(***************************************************************************)
(* What a scan of a changing database (db_rewind, then db_nextrec until it *)
(* returns NULL; db.c 812-875) visits.  Two history variables are added to *)
(* ApueDb; they observe its steps and restrict none.                       *)
(***************************************************************************)
EXTENDS ApueDb

VARIABLES
    stable,   \* stable[p]: keys in the database ever since the last rewind
              \* of p, in one and the same record
    seen      \* seen[p]: the keys db_nextrec has returned since, in order

scanVars == <<vars, stable, seen>>

KeysStored == {idx[n].key : n \in Live}

ScanInit ==
    /\ Init
    /\ stable = [p \in Procs |-> {}]
    /\ seen = [p \in Procs |-> << >>]

Rewound(p) ==
    /\ Rewind(p)
    /\ stable' = [stable EXCEPT ![p] = KeysStored]
    /\ seen' = [seen EXCEPT ![p] = << >>]

\* db_delete, and the deletion within a db_store of data of another length.
Removed(p) ==
    /\ DelWriteidx(p)
    /\ stable' = [q \in Procs |-> stable[q] \ {call[p].key}]
    /\ UNCHANGED seen

Visited(p) ==
    /\ ScanData(p)
    /\ seen' = [seen EXCEPT ![p] = Append(@, db[p].idxbuf)]
    /\ UNCHANGED stable

Unobserved(p) ==
    /\ \/ \E c \in Uses[p] : Invoke(p, c)
       \/ Progress(p) /\ pc[p] \notin {"del_idx", "scan_dat"}
       \/ Dump(p)
       \/ Crash(p)
    /\ UNCHANGED <<stable, seen>>

ScanNext == \E p \in Procs :
                Rewound(p) \/ Removed(p) \/ Visited(p) \/ Unobserved(p)

ScanSpec == ScanInit /\ [][ScanNext]_scanVars

\* A scan that reaches the end of the file has returned every key that was
\* there all the time, however the other processes stored, deleted and
\* reused records around it.
ScanComplete ==
    \A p \in Procs :
        (scanning[p] /\ pc[p] = "scan_unlock" /\ ret[p].rc = -1) =>
            stable[p] \subseteq {seen[p][i] : i \in DOMAIN seen[p]}

\* A scan returns no key twice that was there all the time.
ScanOnce ==
    \A p \in Procs : scanning[p] =>
        \A i, j \in DOMAIN seen[p] :
            (seen[p][i] = seen[p][j] /\ seen[p][i] \in stable[p]) => i = j

\* A scan visits every key that stays once, and the sanity checks of the
\* library never stop it (db_nextrec, _db_readidx).
ScanExact == ScanComplete /\ ScanOnce /\ NoDump
=============================================================================
