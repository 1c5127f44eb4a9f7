------------------------------ MODULE JobQueue ------------------------------
(***************************************************************************)
(* The doubly linked queue of jobs of threads/rwlock.c.  Threads that      *)
(* search it hold its lock for reading, several at a time, and go from job *)
(* to job; a change is made with the lock held for writing, in one step.   *)
(***************************************************************************)
EXTENDS Sequences, FiniteSets, SequencesExt

CONSTANTS Jobs, Threads,
          Owner(_),     \* j_id: the thread that handles a job
          NULL

ASSUME JobQueueAssumption ==
    IsFiniteSet(Jobs) /\ NULL \notin Jobs /\ \A j \in Jobs : Owner(j) \in Threads

VARIABLES q_head, q_tail, j_next, j_prev,
          readers,   \* the threads that hold q_lock for reading
          jp,        \* the job each of them looks at
          found      \* what its last search returned

links == <<q_head, q_tail, j_next, j_prev>>
queueVars == <<q_head, q_tail, j_next, j_prev, readers, jp, found>>
search == <<readers, jp, found>>

\* The jobs from j on, as a sequence.
From(j, next) ==
    LET walk[n \in 0 .. Cardinality(Jobs)] ==      \* at most n of them
          [k \in Jobs \cup {NULL} |->
             IF k = NULL \/ n = 0 THEN <<>> ELSE <<k>> \o walk[n - 1][next[k]]]
    IN  walk[Cardinality(Jobs)][j]
List == From(q_head, j_next)

-----------------------------------------------------------------------------

QueueInit ==                                             \* queue_init
    /\ q_head = NULL /\ q_tail = NULL
    /\ j_next = [j \in Jobs |-> NULL] /\ j_prev = [j \in Jobs |-> NULL]
    /\ readers = {} /\ jp = [t \in Threads |-> NULL] /\ found = [t \in Threads |-> NULL]

\* The lock is held for writing; a job is put into the queue once.
Writing == readers = {} /\ UNCHANGED search

\* (mutant) The old head does not point back to the new one.
job_insertOneWay(j) ==
    /\ Writing /\ j \notin ToSet(List)
    /\ j_next' = [j_next EXCEPT ![j] = q_head]
    /\ j_prev' = [j_prev EXCEPT ![j] = NULL]
    /\ q_tail' = IF q_head = NULL THEN j ELSE q_tail
    /\ q_head' = j

job_insert(j) ==
    /\ Writing /\ j \notin ToSet(List)
    /\ j_next' = [j_next EXCEPT ![j] = q_head]
    /\ j_prev' = IF q_head = NULL THEN [j_prev EXCEPT ![j] = NULL]
                 ELSE [j_prev EXCEPT ![j] = NULL, ![q_head] = j]
    /\ q_tail' = IF q_head = NULL THEN j ELSE q_tail
    /\ q_head' = j

job_append(j) ==
    /\ Writing /\ j \notin ToSet(List)
    /\ j_prev' = [j_prev EXCEPT ![j] = q_tail]
    /\ j_next' = IF q_tail = NULL THEN [j_next EXCEPT ![j] = NULL]
                 ELSE [j_next EXCEPT ![j] = NULL, ![q_tail] = j]
    /\ q_head' = IF q_tail = NULL THEN j ELSE q_head
    /\ q_tail' = j

\* (mutant) The job before the tail still points to it.
job_removeTail(j) ==
    /\ Writing /\ j \in ToSet(List)
    /\ q_head' = IF j = q_head THEN j_next[j] ELSE q_head
    /\ q_tail' = IF j # q_tail THEN q_tail ELSE IF j = q_head THEN NULL ELSE j_prev[j]
    /\ j_prev' = IF j = q_tail THEN j_prev ELSE [j_prev EXCEPT ![j_next[j]] = j_prev[j]]
    /\ j_next' = IF j \in {q_head, q_tail} THEN j_next ELSE [j_next EXCEPT ![j_prev[j]] = j_next[j]]

job_remove(j) ==
    /\ Writing /\ j \in ToSet(List)
    /\ q_head' = IF j = q_head THEN j_next[j] ELSE q_head
    /\ q_tail' = IF j # q_tail THEN q_tail ELSE IF j = q_head THEN NULL ELSE j_prev[j]
    /\ j_prev' = IF j = q_tail THEN j_prev ELSE [j_prev EXCEPT ![j_next[j]] = j_prev[j]]
    /\ j_next' = IF j = q_head THEN j_next ELSE [j_next EXCEPT ![j_prev[j]] = j_next[j]]

\* job_find, for the calling thread: rdlock, one job after the other, unlock.
FindStart(t) ==
    /\ t \notin readers
    /\ readers' = readers \cup {t}
    /\ jp' = [jp EXCEPT ![t] = q_head]
    /\ UNCHANGED <<links, found>>

FindNext(t) ==
    /\ t \in readers
    /\ jp[t] # NULL /\ Owner(jp[t]) # t
    /\ jp' = [jp EXCEPT ![t] = j_next[jp[t]]]
    /\ UNCHANGED <<links, readers, found>>

FindEnd(t) ==
    /\ t \in readers
    /\ jp[t] # NULL => Owner(jp[t]) = t
    /\ readers' = readers \ {t}
    /\ found' = [found EXCEPT ![t] = jp[t]]
    /\ jp' = [jp EXCEPT ![t] = NULL]
    /\ UNCHANGED links

QueueNext ==
    \/ \E j \in Jobs : job_insert(j) \/ job_append(j) \/ job_remove(j)
    \/ \E t \in Threads : FindStart(t) \/ FindNext(t) \/ FindEnd(t)

QueueSpec == QueueInit /\ [][QueueNext]_queueVars

-----------------------------------------------------------------------------

\* Read from its head the queue is the sequence the threads believe it is,
\* and a search returns its first job of the thread: no link of a job that
\* was removed and put back, at either end, leads anywhere else (JobList).
AbstractList == INSTANCE JobList WITH list <- List, answer <- found
IsJobList == AbstractList!Spec

\* The links back lead from the tail through the same jobs.
BothWays == From(q_tail, j_prev) = Reverse(List)
=============================================================================
