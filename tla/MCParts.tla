------------------------------- MODULE MCParts ------------------------------
(***************************************************************************)
(* The parts that share no state with any other, one of them at a time:    *)
(* the heap, the job queue and the sorts of the exercises, the opening of  *)
(* a database, and the semaphores.                                         *)
(***************************************************************************)
EXTENDS Heap, JobQueue, Sorts, DbOpen, Semaph

CONSTANTS p1, p2, p3, d1, d2, d3

VARIABLE part

TheOwner(j) == CASE j = "j1" -> "t1" [] j = "j2" -> "t2" [] j = "j3" -> "t1"

\* Two creators and a user of the database.
CreatorsAndUser == [p \in Callers |-> IF p = d3 THEN {} ELSE OFlags]

\* Two processes come to the semaphore twice, one once.
TwiceTwiceOnce == [p \in Procs |-> IF p = p3 THEN 1 ELSE 2]

Parts == {"heap", "queue", "open", "semaphore"}
PartInit == part \in Parts /\ HeapInit /\ QueueInit /\ OpenInit /\ (part # "open" => index = "table")
            /\ Init
PartNext ==
    /\ UNCHANGED part
    /\ \/ part = "heap" /\ HeapNext /\ UNCHANGED <<queueVars, openVars, vars>>
       \/ part = "queue" /\ QueueNext /\ UNCHANGED <<heapVars, openVars, vars>>
       \/ part = "open" /\ OpenNext /\ UNCHANGED <<heapVars, queueVars, vars>>
       \/ part = "semaphore" /\ Next /\ UNCHANGED <<heapVars, queueVars, openVars>>

PartFairness == OpenFairness /\ Fairness

PartSpec == PartInit /\ [][PartNext]_<<part, heapVars, queueVars, openVars, vars>> /\ PartFairness
=============================================================================
