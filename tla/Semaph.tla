------------------------------- MODULE Semaph -------------------------------
(***************************************************************************)
(* The semaphores of lib/semaph.c, for one key.  Every one of them is a    *)
(* System V set of three members: [0] the value, [1] the counter of        *)
(* processes, which counts down from BIGCOUNT, and [2] the lock.           *)
(*                                                                         *)
(* Every system call is one step, and a process may end between any two.   *)
(* The kernel then adds to each member what the process has left to undo.  *)
(* A process opens the semaphore, takes and gives it back any number of    *)
(* times, and closes it when it does not hold it.                          *)
(***************************************************************************)
EXTENDS Integers, FiniteSets

CONSTANTS
    Procs,
    Openers,     \* the processes that call sem_open
    Servers,     \* the processes that may call sem_rm
    BIGCOUNT,
    InitVal,     \* the initial value sem_create is called with
    MaxOpens,    \* bound on the calls of sem_create and sem_open by each process
    MaxSets      \* bound on the sets the kernel makes

ASSUME SemaphAssumption ==
    /\ Openers \subseteq Procs /\ Servers \subseteq Procs
    /\ InitVal \in Nat /\ MaxOpens \in [Procs -> Nat] /\ MaxSets \in Nat
    /\ IsFiniteSet(Procs) /\ BIGCOUNT \in Nat /\ BIGCOUNT > Cardinality(Procs)

VARIABLES
    sets,       \* how many sets have been made; a set is known by its number
    cur,        \* the set the key stands for, 0 when there is none
    sem,        \* the members of that set
    adj,        \* what the kernel has to undo for each process
    pc, id,     \* each process, and the set its identifier names
    holds,      \* the processes between sem_wait and sem_signal
    opens,
    late        \* (history) who came by sem_open after a sem_close has found
                \* nobody, and before it removes the set

kernel == <<sets, cur, sem, adj>>
vars == <<sets, cur, sem, adj, pc, id, holds, opens, late>>

Members == 0 .. 2
Zero == [m \in Members |-> 0]

Points == {"out", "semget", "lock", "locking", "getval", "setval0", "setval1",
           "endcreate", "open", "using", "closeval", "rm", "unlock",
           "failed", "cantlock", "dumped"}
\* Where a process has ended with err_sys or err_dump.
Ended == {"failed", "cantlock", "dumped"}

TypeOK ==
    /\ sets \in 0 .. MaxSets
    /\ cur \in 0 .. sets
    /\ sem \in [Members -> Nat] /\ sem[2] \in {0, 1}
    /\ adj \in [Procs -> [Members -> {-1, 0, 1}]]
    /\ pc \in [Procs -> Points]
    /\ id \in [Procs -> 0 .. sets]
    /\ holds \subseteq Procs
    /\ opens \in [Procs -> Nat]
    /\ late \subseteq Procs

Init ==
    /\ sets = 0 /\ cur = 0
    /\ sem = Zero
    /\ adj = [p \in Procs |-> Zero]
    /\ pc = [p \in Procs |-> "out"]
    /\ id = [p \in Procs |-> 0]
    /\ holds = {}
    /\ opens = [p \in Procs |-> 0]
    /\ late = {}

-----------------------------------------------------------------------------
\* The kernel

\* The identifier of p is that of a set that has not been removed.
Valid(p) == id[p] = cur /\ cur # 0

\* What an array of operations adds to the members.
sembuf(v, c, l) == [m \in Members |-> IF m = 0 THEN v ELSE IF m = 1 THEN c ELSE l]
op_lock == sembuf(0, 0, 1)
op_endcreate == sembuf(0, -1, -1)
op_open == sembuf(0, -1, 0)
op_close == sembuf(0, 1, 1)
op_unlock == sembuf(0, 0, -1)
op_op(value) == sembuf(value, 0, 0)

\* The operations {2, 0, 0} of op_lock and op_close wait for the lock.
Unlocked == sem[2] = 0

\* semop by p, with SEM_UNDO: no member may fall below 0.
semop(p, ops) ==
    /\ Valid(p)
    /\ \A m \in Members : sem[m] + ops[m] >= 0
    /\ sem' = [m \in Members |-> sem[m] + ops[m]]
    /\ adj' = [adj EXCEPT ![p] = [m \in Members |-> adj[p][m] - ops[m]]]
    /\ UNCHANGED <<sets, cur>>

\* SETVAL clears what is to be undone to the member, for every process.
SETVAL(m, v) ==
    /\ sem' = [sem EXCEPT ![m] = v]
    /\ adj' = [q \in Procs |-> [adj[q] EXCEPT ![m] = 0]]
    /\ UNCHANGED <<sets, cur>>

\* IPC_RMID, with what was to be undone.
RMID ==
    /\ cur' = 0
    /\ sem' = Zero
    /\ adj' = [q \in Procs |-> Zero]
    /\ UNCHANGED sets

\* The kernel undoes what a process leaves; no member falls below 0.
Undo(p) ==
    /\ sem' = [m \in Members |-> IF sem[m] + adj[p][m] < 0 THEN 0
                                 ELSE sem[m] + adj[p][m]]
    /\ adj' = [adj EXCEPT ![p] = Zero]
    /\ UNCHANGED <<sets, cur>>

-----------------------------------------------------------------------------
Goto(p, from, to) == pc[p] = from /\ pc' = [pc EXCEPT ![p] = to]

\* A call that stays within the operation p is in.
Stay == UNCHANGED <<id, holds, opens>>

\* err_sys and err_dump end the process.
Err(p, how) ==
    /\ pc' = [pc EXCEPT ![p] = how]
    /\ Undo(p)
    /\ holds' = holds \ {p}
    /\ UNCHANGED <<id, opens>>

\* The next system call of p fails, the set having been removed.  Only the
\* semop of sem_create (at "lock") knows what to do about it.
Removed(p) ==
    /\ pc[p] \in {"getval", "setval0", "setval1", "endcreate", "open", "using",
                 "closeval", "rm", "unlock"}
    /\ ~Valid(p)
    /\ Err(p, "failed")

\* The processes that have the semaphore open, as the counter has it.
Users == {p \in Procs : pc[p] = "using" /\ Valid(p)}

\* The one that has found nobody and is about to remove the set.
Removing == {p \in Procs : pc[p] = "rm" /\ Valid(p)}

\* sem_create

CallCreate(p) ==
    /\ Goto(p, "out", "semget")
    /\ opens[p] < MaxOpens[p]
    /\ opens' = [opens EXCEPT ![p] = @ + 1]
    /\ UNCHANGED <<kernel, id, holds>>

\* semget with IPC_CREAT: a new set has all members 0.
Semget(p) ==
    /\ Goto(p, "semget", "lock")
    /\ IF cur # 0 THEN UNCHANGED <<sets, cur, sem>>
       ELSE /\ sets < MaxSets
            /\ sets' = sets + 1 /\ cur' = sets + 1 /\ sem' = Zero
    /\ id' = [id EXCEPT ![p] = cur']
    /\ UNCHANGED <<adj, holds, opens>>

\* (mutant) The lock is not waited for.
LockAnyway(p) ==
    /\ Goto(p, "lock", "getval") \/ Goto(p, "locking", "getval")
    /\ semop(p, sembuf(0, 0, 0)) /\ Stay

\* semop(op_lock), at once or after a wait.
Lock(p) ==
    /\ Goto(p, "lock", "getval") \/ Goto(p, "locking", "getval")
    /\ Unlocked /\ semop(p, op_lock) /\ Stay

Block(p) ==
    /\ Goto(p, "lock", "locking")
    /\ Valid(p) /\ ~Unlocked
    /\ UNCHANGED kernel /\ Stay

\* EINVAL, since the set was removed before the call: create it again.
Again(p) ==
    /\ Goto(p, "lock", "semget")
    /\ ~Valid(p)
    /\ UNCHANGED kernel /\ Stay

\* EIDRM, since the set was removed during the call: "can't lock".
CantLock(p) == pc[p] = "locking" /\ ~Valid(p) /\ Err(p, "cantlock")

\* (mutant) Every creator initialises the semaphore.
GetvalAlways(p) ==
    Goto(p, "getval", "setval0") /\ Valid(p) /\ UNCHANGED kernel /\ Stay

\* Has nobody initialised the semaphore yet?
Getval(p) ==
    /\ Goto(p, "getval", IF sem[1] = 0 THEN "setval0" ELSE "endcreate")
    /\ Valid(p)
    /\ UNCHANGED kernel /\ Stay

Setval0(p) ==
    Goto(p, "setval0", "setval1") /\ Valid(p) /\ SETVAL(0, InitVal) /\ Stay

Setval1(p) ==
    Goto(p, "setval1", "endcreate") /\ Valid(p) /\ SETVAL(1, BIGCOUNT) /\ Stay

EndCreate(p) ==
    Goto(p, "endcreate", "using") /\ semop(p, op_endcreate) /\ Stay

sem_create(p) ==
    \/ CallCreate(p) \/ Semget(p) \/ Lock(p) \/ Block(p) \/ Again(p) \/ CantLock(p)
    \/ Getval(p) \/ Setval0(p) \/ Setval1(p) \/ EndCreate(p)

\* sem_open.  Without a set there is nothing to open.
CallOpen(p) ==
    /\ p \in Openers
    /\ opens[p] < MaxOpens[p]
    /\ opens' = [opens EXCEPT ![p] = @ + 1]
    /\ pc[p] = "out"
    /\ pc' = [pc EXCEPT ![p] = IF cur = 0 THEN "out" ELSE "open"]
    /\ id' = [id EXCEPT ![p] = cur]
    /\ UNCHANGED <<kernel, holds>>

\* The lock is not taken; semop waits while the counter is 0.
Open(p) ==
    Goto(p, "open", "using") /\ semop(p, op_open) /\ Stay

sem_open(p) == CallOpen(p) \/ Open(p)

-----------------------------------------------------------------------------
\* sem_wait and sem_signal

sem_wait(p) ==
    /\ Goto(p, "using", "using")
    /\ p \notin holds
    /\ semop(p, op_op(-1))
    /\ holds' = holds \cup {p}
    /\ UNCHANGED <<id, opens>>

sem_signal(p) ==
    /\ Goto(p, "using", "using")
    /\ p \in holds
    /\ semop(p, op_op(1))
    /\ holds' = holds \ {p}
    /\ UNCHANGED <<id, opens>>

-----------------------------------------------------------------------------
\* sem_close

\* The lock and the counter in one semop.
Close(p) ==
    /\ Goto(p, "using", "closeval")
    /\ p \notin holds
    /\ Unlocked /\ semop(p, op_close)
    /\ Stay

\* (mutant) The set is removed by every process that closes it.
CloseValAlways(p) ==
    Goto(p, "closeval", "rm") /\ Valid(p) /\ UNCHANGED kernel /\ Stay

\* Was this the last process?
CloseVal(p) ==
    /\ pc[p] = "closeval" /\ Valid(p)
    /\ IF sem[1] > BIGCOUNT THEN Err(p, "dumped")
       ELSE /\ pc' = [pc EXCEPT ![p] = IF sem[1] = BIGCOUNT THEN "rm" ELSE "unlock"]
            /\ UNCHANGED kernel /\ Stay

CloseRm(p) ==
    Goto(p, "rm", "out") /\ Valid(p) /\ RMID /\ Stay

\* (mutant) The lock is kept.
CloseUnlockNot(p) ==
    Goto(p, "unlock", "out") /\ semop(p, sembuf(0, 0, 0)) /\ Stay

CloseUnlock(p) ==
    Goto(p, "unlock", "out") /\ semop(p, op_unlock) /\ Stay

sem_close(p) == Close(p) \/ CloseVal(p) \/ CloseRm(p) \/ CloseUnlock(p)

\* sem_rm, whoever may be using the semaphore.
sem_rm(p) ==
    /\ p \in Servers
    /\ Goto(p, "using", "out") /\ Valid(p) /\ p \notin holds
    /\ RMID /\ Stay

\* A process ends without sem_close; another one may take its place.
Exit(p) ==
    /\ pc[p] \notin Ended \cup {"out"}
    /\ pc' = [pc EXCEPT ![p] = "out"]
    /\ Undo(p)
    /\ holds' = holds \ {p}
    /\ UNCHANGED <<id, opens>>

Step(p) ==
    \/ sem_create(p) \/ sem_open(p) \/ sem_wait(p) \/ sem_signal(p)
    \/ sem_close(p) \/ sem_rm(p) \/ Removed(p) \/ Exit(p)

\* The history: the one at "open" that is among the users after the step has
\* come by sem_open.
Watch == late' = IF Removing' = {} THEN {} ELSE {p \in Users' : p \in late \/ pc[p] = "open"}

Next == \E p \in Procs : Step(p) /\ Watch

Spec == Init /\ [][Next]_vars

\* A process that is in a function goes on; one that holds the semaphore
\* gives it back or ends, and one that has it open closes it or ends.
Working(p) ==
    \/ Semget(p) \/ Lock(p) \/ Again(p) \/ CantLock(p) \/ Getval(p) \/ Setval0(p)
    \/ Setval1(p) \/ EndCreate(p) \/ Open(p) \/ CloseVal(p) \/ CloseRm(p) \/ CloseUnlock(p)
    \/ (pc[p] # "using" /\ Removed(p)) \/ sem_signal(p)

Fairness == \A p \in Procs : WF_vars(Working(p) /\ Watch)

FairSpec == Spec /\ Fairness
-----------------------------------------------------------------------------
\* Properties

\* The lock [2] is held by one process, the one between op_lock and
\* op_endcreate, or between op_close and its end, and the kernel gives it
\* back when that process ends.
Locked == {p \in Procs : Valid(p) /\
    pc[p] \in {"getval", "setval0", "setval1", "endcreate", "closeval", "rm", "unlock"}}
LockExact == Cardinality(Locked) = sem[2]

\* "a counter used to know when all processes have finished": once the
\* semaphore is initialised, [1] is BIGCOUNT less the processes that have it
\* open, those that ended without sem_close accounted for.
CounterExact == sem[1] # 0 => sem[1] = BIGCOUNT - Cardinality(Users)

\* The lock and the counter, of whatever set the name stands for.
CountsExact == TypeOK /\ LockExact /\ CounterExact

\* From the test of sem_close on, a process that comes by sem_create does not
\* lose the semaphore to it: who has the set open when it is removed has come
\* by sem_open, which takes no lock, since the test.
OnlyLateOpens == Removing # {} => Users \subseteq late

\* "if this was the last one, we can remove the semaphore": sem_close removes
\* no set that a process has open.
RemovedByLast == [][\A p \in Procs : CloseRm(p) => Users = {}]_vars

\* Every sem_create, sem_open and sem_close returns, whichever process ends in
\* one, but a sem_open of a set that is made and never initialised: its
\* creator has ended, and nobody else comes to create it.
Uninitialised(p) == pc[p] = "open" /\ Valid(p) /\ sem[1] = 0
CallsReturn == \A p \in Procs :
    pc[p] \notin Ended \cup {"out", "using"}
    ~> (pc[p] \in Ended \cup {"out", "using"} \/ []Uninitialised(p))

\* The library keeps the promise of CountedSemaphore: the semaphore is never
\* initialised under a process that has it open, what a process that ends has
\* taken is given back once, and no step but sem_rm ends it under a user that
\* did not come between the two calls of a last sem_close.
Counted == INSTANCE CountedSemaphore WITH
    exists <- sem[1] # 0,
    value <- IF sem[1] # 0 THEN sem[0] ELSE 0,
    users <- Users,
    held <- holds \cap Users,
    closing <- Removing # {}
IsCountedSemaphore == Counted!Spec
=============================================================================
