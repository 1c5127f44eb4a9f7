------------------------------ MODULE MCDbScan ------------------------------
(***************************************************************************)
(* A scanner and a writer: DbScan on a database of two keys and data of    *)
(* two lengths.                                                            *)
(***************************************************************************)
EXTENDS DbScan

CONSTANTS scanner, writer, ka, kb, d1, d2, c1

MCHash == [k \in Keys |-> c1]
MCKeyLen == [k \in Keys |-> 1]
MCDatLen == [d \in Data |-> IF d = d1 THEN 2 ELSE 3]

MCUses == [p \in Procs |->
    IF p = scanner THEN {Abs!NextrecCall}
    ELSE {Abs!StoreCall(ka, d, "DB_STORE") : d \in Data}
         \cup {Abs!StoreCall(kb, d1, "DB_STORE")}
         \cup {Abs!DeleteCall(k) : k \in Keys}]
MCMaxCalls == [p \in Procs |-> IF p = scanner THEN 3 ELSE 4]
=============================================================================
