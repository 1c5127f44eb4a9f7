---------------------------- MODULE SemaphProofs ----------------------------
(***************************************************************************)
(* Theorems about Semaph, for any number of processes, each of which may   *)
(* end at any step: the lock and the counter are exact (CountsExact), only *)
(* a process that came by sem_open since the test of sem_close has a set   *)
(* open that it removes (OnlyLateOpens), and the library implements        *)
(* CountedSemaphore.                                                       *)
(***************************************************************************)
EXTENDS Semaph, FiniteSetTheorems, TLAPS

InLock == {"getval", "setval0", "setval1", "endcreate", "closeval", "rm", "unlock"}

\* What the kernel undoes is what the process has done and not undone
\* itself, and nothing for a process whose set is gone.
UndoOK == \A p \in Procs :
    /\ adj[p][0] = IF Valid(p) /\ p \in holds THEN 1 ELSE 0
    /\ adj[p][1] = IF Valid(p) /\ pc[p] = "using" THEN 1 ELSE 0
    /\ adj[p][2] = IF Valid(p) /\ pc[p] \in InLock THEN -1 ELSE 0
    /\ p \in holds => pc[p] = "using"

\* At most one process has the lock.
LockOK ==
    \/ sem[2] = 0 /\ Locked = {}
    \/ sem[2] = 1 /\ \E p \in Procs : Locked = {p}

\* Nobody has a semaphore open that is not initialised.
CountOK ==
    \/ sem[1] = 0 /\ Users = {}
    \/ sem[1] # 0 /\ sem[1] = BIGCOUNT - Cardinality(Users)

\* The one that initialises it has the lock, so that nobody else does.
CreateOK == \A p \in Procs : Valid(p) =>
    /\ pc[p] \in {"setval0", "setval1"} => sem[1] = 0
    /\ pc[p] = "endcreate" => sem[1] # 0

SInv == TypeOK /\ UndoOK /\ LockOK /\ CountOK /\ CreateOK

-----------------------------------------------------------------------------
\* Counting the users

\* There are fewer users than BIGCOUNT.
LEMMA UsersCounted ==
    /\ IsFiniteSet(Users)
    /\ Cardinality(Users) \in Nat
    /\ Cardinality(Users) < BIGCOUNT
    /\ Cardinality({}) = 0
    /\ Cardinality(Users) = 0 <=> Users = {}
<1>1. Users \subseteq Procs
  BY DEF Users
<1>2. IsFiniteSet(Users) /\ Cardinality(Users) <= Cardinality(Procs)
  BY <1>1, FS_Subset, SemaphAssumption
<1>3. Cardinality(Users) \in Nat /\ Cardinality(Procs) \in Nat
  BY <1>2, FS_CardinalityType, SemaphAssumption
<1>4. Cardinality(Users) < BIGCOUNT
  BY <1>2, <1>3, SemaphAssumption
<1>. QED
  BY <1>2, <1>3, <1>4, FS_EmptySet

\* The same after a step.
LEMMA UsersCountedNext ==
    /\ IsFiniteSet(Users')
    /\ Cardinality(Users') \in Nat
    /\ Cardinality(Users') < BIGCOUNT
    /\ Cardinality(Users') = 0 <=> Users' = {}
<1>1. Users' \subseteq Procs
  BY DEF Users
<1>2. IsFiniteSet(Users') /\ Cardinality(Users') <= Cardinality(Procs)
  BY <1>1, FS_Subset, SemaphAssumption
<1>3. Cardinality(Users') \in Nat /\ Cardinality(Procs) \in Nat
  BY <1>2, FS_CardinalityType, SemaphAssumption
<1>4. Cardinality(Users') < BIGCOUNT
  BY <1>2, <1>3, SemaphAssumption
<1>. QED
  BY <1>2, <1>3, <1>4, FS_EmptySet

\* A counter at BIGCOUNT counts nobody.
LEMMA NobodyLeft ==
  ASSUME CountOK, sem[1] = BIGCOUNT
  PROVE  Users = {}
BY UsersCounted, SemaphAssumption DEF CountOK

\* The counter goes up with the users.
LEMMA OneMore ==
  ASSUME NEW p, p \notin Users, Users' = Users \cup {p}
  PROVE  Cardinality(Users') = Cardinality(Users) + 1
BY UsersCounted, FS_AddElement

\* And down.
LEMMA OneLess ==
  ASSUME NEW p, p \in Users, Users' = Users \ {p}
  PROVE  Cardinality(Users') = Cardinality(Users) - 1
BY UsersCounted, FS_RemoveElement
-----------------------------------------------------------------------------
\* At the start there is no set, and nobody uses one.
LEMMA InitSInv == Init => SInv
BY SemaphAssumption, FS_EmptySet
   DEF Init, SInv, TypeOK, UndoOK, LockOK, CountOK, CreateOK, Zero, Members,
       Points, Ended, Valid, Users, Locked, InLock

\* Steps that change no member.
LEMMA QuietKept ==
  ASSUME SInv, late' \subseteq Procs, NEW p \in Procs, CallCreate(p) \/ Block(p) \/ Again(p) \/ Getval(p) \/ CallOpen(p)
  PROVE  SInv'
<1>. USE DEF SInv, Goto, kernel, Stay, Valid, InLock, Points, Ended, Members
<1>1. CASE CallCreate(p)
  <2>. USE <1>1 DEF CallCreate
  <2>1. TypeOK'
    BY SemaphAssumption DEF TypeOK, UndoOK, LockOK
  <2>2. Users' = Users
    BY DEF TypeOK, Users
  <2>3. Locked' = Locked
    BY DEF TypeOK, Locked
  <2>4. UndoOK'
    BY DEF TypeOK, UndoOK
  <2>5. LockOK'
    <3>1. sem'[2] = sem[2]
      BY DEF TypeOK
    <3>. QED
      BY <2>3, <3>1 DEF LockOK
  <2>6. CountOK'
    <3>1. sem'[1] = sem[1]
      BY DEF TypeOK
    <3>. QED
      BY <2>2, <3>1, SemaphAssumption, UsersCounted DEF CountOK
  <2>7. CreateOK'
    BY UsersCounted, UsersCountedNext, <2>2, <2>6 DEF TypeOK, CreateOK, CountOK, LockOK, Locked
  <2>. QED
    BY <2>1, <2>4, <2>5, <2>6, <2>7
<1>2. CASE Block(p)
  <2>. USE <1>2 DEF Block
  <2>1. TypeOK'
    BY SemaphAssumption DEF TypeOK, UndoOK, LockOK
  <2>2. Users' = Users
    BY DEF TypeOK, Users
  <2>3. Locked' = Locked
    BY DEF TypeOK, Locked
  <2>4. UndoOK'
    BY DEF TypeOK, UndoOK
  <2>5. LockOK'
    <3>1. sem'[2] = sem[2]
      BY DEF TypeOK
    <3>. QED
      BY <2>3, <3>1 DEF LockOK
  <2>6. CountOK'
    <3>1. sem'[1] = sem[1]
      BY DEF TypeOK
    <3>. QED
      BY <2>2, <3>1, SemaphAssumption, UsersCounted DEF CountOK
  <2>7. CreateOK'
    BY UsersCounted, UsersCountedNext, <2>2, <2>6 DEF TypeOK, CreateOK, CountOK, LockOK, Locked
  <2>. QED
    BY <2>1, <2>4, <2>5, <2>6, <2>7
<1>3. CASE Again(p)
  <2>. USE <1>3 DEF Again
  <2>1. TypeOK'
    BY SemaphAssumption DEF TypeOK, UndoOK, LockOK
  <2>2. Users' = Users
    BY DEF TypeOK, Users
  <2>3. Locked' = Locked
    BY DEF TypeOK, Locked
  <2>4. UndoOK'
    BY DEF TypeOK, UndoOK
  <2>5. LockOK'
    <3>1. sem'[2] = sem[2]
      BY DEF TypeOK
    <3>. QED
      BY <2>3, <3>1 DEF LockOK
  <2>6. CountOK'
    <3>1. sem'[1] = sem[1]
      BY DEF TypeOK
    <3>. QED
      BY <2>2, <3>1, SemaphAssumption, UsersCounted DEF CountOK
  <2>7. CreateOK'
    BY UsersCounted, UsersCountedNext, <2>2, <2>6 DEF TypeOK, CreateOK, CountOK, LockOK, Locked
  <2>. QED
    BY <2>1, <2>4, <2>5, <2>6, <2>7
<1>4. CASE Getval(p)
  <2>. USE <1>4 DEF Getval
  <2>1. TypeOK'
    BY SemaphAssumption DEF TypeOK, UndoOK, LockOK
  <2>2. Users' = Users
    BY DEF TypeOK, Users
  <2>3. Locked' = Locked
    BY DEF TypeOK, Locked
  <2>4. UndoOK'
    BY DEF TypeOK, UndoOK
  <2>5. LockOK'
    <3>1. sem'[2] = sem[2]
      BY DEF TypeOK
    <3>. QED
      BY <2>3, <3>1 DEF LockOK
  <2>6. CountOK'
    <3>1. sem'[1] = sem[1]
      BY DEF TypeOK
    <3>. QED
      BY <2>2, <3>1, SemaphAssumption, UsersCounted DEF CountOK
  <2>7. CreateOK'
    BY UsersCounted, UsersCountedNext, <2>2, <2>6 DEF TypeOK, CreateOK, CountOK, LockOK, Locked
  <2>. QED
    BY <2>1, <2>4, <2>5, <2>6, <2>7
<1>5. CASE CallOpen(p)
  <2>. USE <1>5 DEF CallOpen
  <2>1. TypeOK'
    BY SemaphAssumption DEF TypeOK, UndoOK, LockOK
  <2>2. Users' = Users
    BY DEF TypeOK, Users
  <2>3. Locked' = Locked
    BY DEF TypeOK, Locked
  <2>4. UndoOK'
    BY DEF TypeOK, UndoOK
  <2>5. LockOK'
    <3>1. sem'[2] = sem[2]
      BY DEF TypeOK
    <3>. QED
      BY <2>3, <3>1 DEF LockOK
  <2>6. CountOK'
    <3>1. sem'[1] = sem[1]
      BY DEF TypeOK
    <3>. QED
      BY <2>2, <3>1, SemaphAssumption, UsersCounted DEF CountOK
  <2>7. CreateOK'
    BY UsersCounted, UsersCountedNext, <2>2, <2>6 DEF TypeOK, CreateOK, CountOK, LockOK, Locked
  <2>. QED
    BY <2>1, <2>4, <2>5, <2>6, <2>7
<1>. QED
  BY <1>1, <1>2, <1>3, <1>4, <1>5

\* The set is gone, and with it all there was to undo.
LEMMA RMIDKept ==
  ASSUME SInv, late' \subseteq Procs, NEW p \in Procs, CloseRm(p) \/ sem_rm(p)
  PROVE  SInv'
<1>. USE DEF SInv, Goto, kernel, Stay, Valid, InLock, Points, Ended, Members
<1>1. CASE CloseRm(p)
  <2>. USE <1>1 DEF CloseRm, RMID, Zero
  <2>1. TypeOK'
    BY SemaphAssumption DEF TypeOK, UndoOK, LockOK
  <2>2. Users' = {}
    BY DEF TypeOK, Users
  <2>3. Locked' = {}
    BY DEF TypeOK, Locked
  <2>4. UndoOK'
    BY DEF TypeOK, UndoOK
  <2>5. LockOK'
    BY <2>3 DEF TypeOK, LockOK, Locked
  <2>6. CountOK'
    <3>1. sem'[1] = 0
      BY DEF TypeOK
    <3>. QED
      BY <2>2, <3>1 DEF CountOK
  <2>7. CreateOK'
    BY UsersCounted, UsersCountedNext, <2>2, <2>6 DEF TypeOK, CreateOK, CountOK, LockOK, Locked
  <2>. QED
    BY <2>1, <2>4, <2>5, <2>6, <2>7
<1>2. CASE sem_rm(p)
  <2>. USE <1>2 DEF sem_rm, RMID, Zero
  <2>1. TypeOK'
    BY SemaphAssumption DEF TypeOK, UndoOK, LockOK
  <2>2. Users' = {}
    BY DEF TypeOK, Users
  <2>3. Locked' = {}
    BY DEF TypeOK, Locked
  <2>4. UndoOK'
    BY DEF TypeOK, UndoOK
  <2>5. LockOK'
    BY <2>3 DEF TypeOK, LockOK, Locked
  <2>6. CountOK'
    <3>1. sem'[1] = 0
      BY DEF TypeOK
    <3>. QED
      BY <2>2, <3>1 DEF CountOK
  <2>7. CreateOK'
    BY UsersCounted, UsersCountedNext, <2>2, <2>6 DEF TypeOK, CreateOK, CountOK, LockOK, Locked
  <2>. QED
    BY <2>1, <2>4, <2>5, <2>6, <2>7
<1>. QED
  BY <1>1, <1>2

\* The semaphore is initialised when nobody has it open.
LEMMA SetvalKept ==
  ASSUME SInv, late' \subseteq Procs, NEW p \in Procs, Setval0(p) \/ Setval1(p)
  PROVE  SInv'
<1>. USE DEF SInv, Goto, kernel, Stay, Valid, InLock, Points, Ended, Members
<1>1. CASE Setval0(p)
  <2>. USE <1>1 DEF Setval0, SETVAL
  <2>1. TypeOK'
    BY SemaphAssumption DEF TypeOK, UndoOK, LockOK
  <2>2. Users' = Users
    BY DEF TypeOK, Users
  <2>3. Locked' = Locked
    BY DEF TypeOK, Locked
  <2>4. UndoOK'
    BY DEF TypeOK, UndoOK, CountOK, CreateOK, Users
  <2>5. LockOK'
    <3>1. sem'[2] = sem[2]
      BY DEF TypeOK
    <3>. QED
      BY <2>3, <3>1 DEF LockOK
  <2>6. CountOK'
    <3>1. Users = {} /\ sem'[1] = 0
      BY DEF TypeOK, CreateOK, CountOK
    <3>. QED
      BY <2>2, <3>1, SemaphAssumption, UsersCounted DEF CountOK
  <2>7. CreateOK'
    BY UsersCounted, UsersCountedNext, <2>2, <2>6 DEF TypeOK, CreateOK, CountOK, LockOK, Locked
  <2>. QED
    BY <2>1, <2>4, <2>5, <2>6, <2>7
<1>2. CASE Setval1(p)
  <2>. USE <1>2 DEF Setval1, SETVAL
  <2>1. TypeOK'
    BY SemaphAssumption DEF TypeOK, UndoOK, LockOK
  <2>2. Users' = Users
    BY DEF TypeOK, Users
  <2>3. Locked' = Locked
    BY DEF TypeOK, Locked
  <2>4. UndoOK'
    BY DEF TypeOK, UndoOK, CountOK, CreateOK, Users
  <2>5. LockOK'
    <3>1. sem'[2] = sem[2]
      BY DEF TypeOK
    <3>. QED
      BY <2>3, <3>1 DEF LockOK
  <2>6. CountOK'
    <3>1. Users = {} /\ sem'[1] = BIGCOUNT
      BY DEF TypeOK, CreateOK, CountOK
    <3>. QED
      BY <2>2, <3>1, SemaphAssumption, UsersCounted DEF CountOK
  <2>7. CreateOK'
    BY UsersCounted, UsersCountedNext, <2>2, <2>6 DEF TypeOK, CreateOK, CountOK, LockOK, Locked
  <2>. QED
    BY <2>1, <2>4, <2>5, <2>6, <2>7
<1>. QED
  BY <1>1, <1>2

\* The lock is taken when it is free, and given back by the one that has it.
LEMMA LockKept ==
  ASSUME SInv, late' \subseteq Procs, NEW p \in Procs, Lock(p) \/ CloseUnlock(p)
  PROVE  SInv'
<1>. USE DEF SInv, Goto, kernel, Stay, Valid, InLock, Points, Ended, Members
<1>1. CASE Lock(p)
  <2>. USE <1>1 DEF Lock, semop, sembuf, op_lock, Unlocked
  <2>1. TypeOK'
    <3>1. adj[p][0] = 0 /\ adj[p][1] = 0 /\ adj[p][2] = 0
      BY DEF UndoOK
    <3>2. adj' \in [Procs -> [Members -> {-1, 0, 1}]]
      BY <3>1 DEF TypeOK
    <3>3. sem' \in [Members -> Nat] /\ sem'[2] = 1
      BY DEF TypeOK
    <3>. QED
      BY <3>2, <3>3 DEF TypeOK
  <2>2. Users' = Users
    BY DEF TypeOK, Users
  <2>3. Locked' = Locked \cup {p}
    BY DEF TypeOK, Locked
  <2>4. UndoOK'
    BY DEF TypeOK, UndoOK
  <2>5. LockOK'
    BY <2>3 DEF TypeOK, LockOK, Locked
  <2>6. CountOK'
    <3>1. sem'[1] = sem[1]
      BY DEF TypeOK
    <3>. QED
      BY <2>2, <3>1, SemaphAssumption, UsersCounted DEF CountOK
  <2>7. CreateOK'
    BY UsersCounted, UsersCountedNext, <2>2, <2>6 DEF TypeOK, CreateOK, CountOK, LockOK, Locked
  <2>. QED
    BY <2>1, <2>4, <2>5, <2>6, <2>7
<1>2. CASE CloseUnlock(p)
  <2>. USE <1>2 DEF CloseUnlock, semop, sembuf, op_unlock
  <2>1. TypeOK'
    BY SemaphAssumption DEF TypeOK, UndoOK, LockOK
  <2>2. Users' = Users
    BY DEF TypeOK, Users
  <2>3. Locked' = Locked \ {p}
    BY DEF TypeOK, Locked
  <2>4. UndoOK'
    BY DEF TypeOK, UndoOK
  <2>5. LockOK'
    BY <2>3 DEF TypeOK, LockOK, Locked
  <2>6. CountOK'
    <3>1. sem'[1] = sem[1]
      BY DEF TypeOK
    <3>. QED
      BY <2>2, <3>1, SemaphAssumption, UsersCounted DEF CountOK
  <2>7. CreateOK'
    BY UsersCounted, UsersCountedNext, <2>2, <2>6 DEF TypeOK, CreateOK, CountOK, LockOK, Locked
  <2>. QED
    BY <2>1, <2>4, <2>5, <2>6, <2>7
<1>. QED
  BY <1>1, <1>2

\* sem_wait and sem_signal change the value alone.
LEMMA ValueKept ==
  ASSUME SInv, late' \subseteq Procs, NEW p \in Procs, sem_wait(p) \/ sem_signal(p)
  PROVE  SInv'
<1>. USE DEF SInv, Goto, kernel, Stay, Valid, InLock, Points, Ended, Members
<1>1. CASE sem_wait(p)
  <2>. USE <1>1 DEF sem_wait, semop, sembuf, op_op
  <2>1. TypeOK'
    BY SemaphAssumption DEF TypeOK, UndoOK, LockOK
  <2>2. Users' = Users
    BY DEF TypeOK, Users
  <2>3. Locked' = Locked
    BY DEF TypeOK, Locked
  <2>4. UndoOK'
    BY DEF TypeOK, UndoOK
  <2>5. LockOK'
    <3>1. sem'[2] = sem[2]
      BY DEF TypeOK
    <3>. QED
      BY <2>3, <3>1 DEF LockOK
  <2>6. CountOK'
    <3>1. sem'[1] = sem[1]
      BY DEF TypeOK
    <3>. QED
      BY <2>2, <3>1, SemaphAssumption, UsersCounted DEF CountOK
  <2>7. CreateOK'
    BY UsersCounted, UsersCountedNext, <2>2, <2>6 DEF TypeOK, CreateOK, CountOK, LockOK, Locked
  <2>. QED
    BY <2>1, <2>4, <2>5, <2>6, <2>7
<1>2. CASE sem_signal(p)
  <2>. USE <1>2 DEF sem_signal, semop, sembuf, op_op
  <2>1. TypeOK'
    BY SemaphAssumption DEF TypeOK, UndoOK, LockOK
  <2>2. Users' = Users
    BY DEF TypeOK, Users
  <2>3. Locked' = Locked
    BY DEF TypeOK, Locked
  <2>4. UndoOK'
    BY DEF TypeOK, UndoOK
  <2>5. LockOK'
    <3>1. sem'[2] = sem[2]
      BY DEF TypeOK
    <3>. QED
      BY <2>3, <3>1 DEF LockOK
  <2>6. CountOK'
    <3>1. sem'[1] = sem[1]
      BY DEF TypeOK
    <3>. QED
      BY <2>2, <3>1, SemaphAssumption, UsersCounted DEF CountOK
  <2>7. CreateOK'
    BY UsersCounted, UsersCountedNext, <2>2, <2>6 DEF TypeOK, CreateOK, CountOK, LockOK, Locked
  <2>. QED
    BY <2>1, <2>4, <2>5, <2>6, <2>7
<1>. QED
  BY <1>1, <1>2

\* A process begins to use the semaphore, or stops, and is counted.
LEMMA UseKept ==
  ASSUME SInv, late' \subseteq Procs, NEW p \in Procs, EndCreate(p) \/ Open(p) \/ Close(p)
  PROVE  SInv'
<1>. USE DEF SInv, Goto, kernel, Stay, Valid, InLock, Points, Ended, Members
<1>1. CASE EndCreate(p)
  <2>. USE <1>1 DEF EndCreate, semop, sembuf, op_endcreate
  <2>1. TypeOK'
    BY SemaphAssumption DEF TypeOK, UndoOK, LockOK
  <2>2. Users' = Users \cup {p}
    BY DEF TypeOK, Users
  <2>3. Locked' = Locked \ {p}
    BY DEF TypeOK, Locked
  <2>4. UndoOK'
    BY DEF TypeOK, UndoOK
  <2>5. LockOK'
    BY <2>3 DEF TypeOK, LockOK, Locked
  <2>6. CountOK'
    <3>1. p \notin Users /\ sem[1] # 0 /\ sem'[1] = sem[1] - 1
      BY DEF TypeOK, Users, CreateOK, CountOK
    <3>2. Cardinality(Users') = Cardinality(Users) + 1
      BY <2>2, <3>1, OneMore
    <3>. QED
      BY <2>2, <3>1, SemaphAssumption, UsersCounted, UsersCountedNext, <3>2 DEF CountOK
  <2>7. CreateOK'
    BY UsersCounted, UsersCountedNext, <2>2, <2>6 DEF TypeOK, CreateOK, CountOK, LockOK, Locked
  <2>. QED
    BY <2>1, <2>4, <2>5, <2>6, <2>7
<1>2. CASE Open(p)
  <2>. USE <1>2 DEF Open, semop, sembuf, op_open
  <2>1. TypeOK'
    BY SemaphAssumption DEF TypeOK, UndoOK, LockOK
  <2>2. Users' = Users \cup {p}
    BY DEF TypeOK, Users
  <2>3. Locked' = Locked
    BY DEF TypeOK, Locked
  <2>4. UndoOK'
    BY DEF TypeOK, UndoOK
  <2>5. LockOK'
    <3>1. sem'[2] = sem[2]
      BY DEF TypeOK
    <3>. QED
      BY <2>3, <3>1 DEF LockOK
  <2>6. CountOK'
    <3>1. p \notin Users /\ sem[1] # 0 /\ sem'[1] = sem[1] - 1
      BY DEF TypeOK, Users
    <3>2. Cardinality(Users') = Cardinality(Users) + 1
      BY <2>2, <3>1, OneMore
    <3>. QED
      BY <2>2, <3>1, SemaphAssumption, UsersCounted, UsersCountedNext, <3>2 DEF CountOK
  <2>7. CreateOK'
    BY UsersCounted, UsersCountedNext, <2>2, <2>6 DEF TypeOK, CreateOK, CountOK, LockOK, Locked
  <2>. QED
    BY <2>1, <2>4, <2>5, <2>6, <2>7
<1>3. CASE Close(p)
  <2>. USE <1>3 DEF Close, semop, sembuf, op_close, Unlocked
  <2>1. TypeOK'
    <3>1. adj[p][0] = 0 /\ adj[p][1] = 1 /\ adj[p][2] = 0
      BY DEF UndoOK
    <3>2. adj' \in [Procs -> [Members -> {-1, 0, 1}]]
      BY <3>1 DEF TypeOK
    <3>3. sem' \in [Members -> Nat] /\ sem'[2] = 1
      BY DEF TypeOK
    <3>. QED
      BY <3>2, <3>3 DEF TypeOK
  <2>2. Users' = Users \ {p}
    BY DEF TypeOK, Users
  <2>3. Locked' = Locked \cup {p}
    BY DEF TypeOK, Locked
  <2>4. UndoOK'
    BY DEF TypeOK, UndoOK
  <2>5. LockOK'
    BY <2>3 DEF TypeOK, LockOK, Locked
  <2>6. CountOK'
    <3>1. p \in Users /\ sem'[1] = sem[1] + 1
      BY DEF TypeOK, Users
    <3>2. Cardinality(Users') = Cardinality(Users) - 1
      BY <2>2, <3>1, OneLess
    <3>. QED
      BY <2>2, <3>1, SemaphAssumption, UsersCounted, UsersCountedNext, <3>2 DEF CountOK
  <2>7. CreateOK'
    BY UsersCounted, UsersCountedNext, <2>2, <2>6 DEF TypeOK, CreateOK, CountOK, LockOK, Locked
  <2>. QED
    BY <2>1, <2>4, <2>5, <2>6, <2>7
<1>. QED
  BY <1>1, <1>2, <1>3

\* A new set, of which no process has the identifier yet.
LEMMA SemgetKept ==
  ASSUME SInv, late' \subseteq Procs, NEW p \in Procs, Semget(p)
  PROVE  SInv'
<1>. USE DEF SInv, Semget, Goto, Valid, InLock, Points, Ended, Members
<1>1. CASE cur # 0
  <2>1. TypeOK'
    BY <1>1 DEF TypeOK
  <2>2. Users' = Users /\ Locked' = Locked
    BY <1>1 DEF TypeOK, Users, Locked
  <2>3. UndoOK' /\ LockOK'
    BY <1>1, <2>2 DEF TypeOK, UndoOK, LockOK
  <2>4. CountOK' /\ CreateOK'
    BY <1>1, <2>2 DEF TypeOK, CountOK, CreateOK
  <2>. QED
    BY <2>1, <2>3, <2>4
<1>2. CASE cur = 0
  <2>. USE <1>2 DEF Zero
  <2>1. TypeOK'
    BY SemaphAssumption DEF TypeOK
  <2>2. \A q \in Procs : ~Valid(q) /\ (Valid(q)' => q = p)
    BY SemaphAssumption DEF TypeOK
  <2>3. Users' = {} /\ Locked' = {}
    BY <2>2 DEF TypeOK, Users, Locked
  <2>4. UndoOK' /\ LockOK'
    BY <2>2, <2>3 DEF TypeOK, UndoOK, LockOK
  <2>5. CountOK' /\ CreateOK'
    BY <2>2, <2>3 DEF TypeOK, CountOK, CreateOK
  <2>. QED
    BY <2>1, <2>4, <2>5
<1>. QED
  BY <1>1, <1>2 DEF TypeOK

\* A process ends: what it has done is undone, the counter too, so that it is
\* as if it had closed the semaphore.
LEMMA EndKept ==
  ASSUME SInv, late' \subseteq Procs, NEW p \in Procs, NEW how \in Ended \cup {"out"},
         pc' = [pc EXCEPT ![p] = how], Undo(p), holds' = holds \ {p},
         UNCHANGED <<id, opens>>
  PROVE  SInv'
<1>. USE DEF SInv, Undo, Valid, InLock, Points, Ended, Members, Zero
<1>1. TypeOK'
  <2>1. sem' \in [Members -> Nat] /\ sem'[2] \in {0, 1}
    BY DEF TypeOK, UndoOK, LockOK
  <2>. QED
    BY <2>1 DEF TypeOK
<1>2. Users' = Users \ {p} /\ Locked' = Locked \ {p}
  BY DEF TypeOK, Users, Locked
<1>3. UndoOK'
  BY DEF TypeOK, UndoOK
<1>4. LockOK'
  <2>1. CASE p \in Locked
    <3>1. sem[2] = 1 /\ Locked = {p} /\ sem'[2] = 0
      BY <2>1 DEF TypeOK, UndoOK, LockOK, Locked
    <3>. QED
      BY <3>1, <1>2 DEF LockOK
  <2>2. CASE p \notin Locked
    <3>1. Locked' = Locked /\ sem'[2] = sem[2]
      BY <2>2, <1>2 DEF TypeOK, UndoOK, Locked
    <3>. QED
      BY <3>1 DEF LockOK
  <2>. QED
    BY <2>1, <2>2
<1>5. CountOK'
  <2>1. CASE p \in Users
    <3>1. sem[1] # 0 /\ sem'[1] = sem[1] + 1
      BY <2>1 DEF TypeOK, UndoOK, CountOK, Users
    <3>2. Cardinality(Users') = Cardinality(Users) - 1
      BY <2>1, <1>2, OneLess
    <3>. QED
      BY <3>1, <3>2, SemaphAssumption, UsersCounted, UsersCountedNext DEF CountOK
  <2>2. CASE p \notin Users
    <3>1. Users' = Users /\ sem'[1] = sem[1]
      BY <2>2, <1>2 DEF TypeOK, UndoOK, Users
    <3>. QED
      BY <3>1 DEF CountOK
  <2>. QED
    BY <2>1, <2>2
<1>6. CreateOK'
  <2>. SUFFICES ASSUME NEW q \in Procs, Valid(q)',
                       pc'[q] \in {"setval0", "setval1", "endcreate"}
                PROVE  IF pc'[q] = "endcreate" THEN sem'[1] # 0 ELSE sem'[1] = 0
    BY DEF CreateOK
  <2>1. q # p /\ Valid(q) /\ pc'[q] = pc[q]
    BY DEF TypeOK
  <2>2. pc[q] = "endcreate" => sem'[1] # 0
    BY <2>1 DEF TypeOK, UndoOK, CreateOK
  <2>3. pc[q] \in {"setval0", "setval1"} => sem'[1] = 0
    <3>. SUFFICES ASSUME pc[q] \in {"setval0", "setval1"} PROVE sem'[1] = 0
      OBVIOUS
    <3>1. sem[1] = 0 /\ Users = {}
      BY <2>1 DEF CreateOK, CountOK
    <3>. QED
      BY <3>1 DEF TypeOK, UndoOK, Users
  <2>. QED
    BY <2>1, <2>2, <2>3
<1>. QED
  BY <1>1, <1>3, <1>4, <1>5, <1>6

\* The three ways to end: a call on a set that is gone, a wait for a set
\* that is removed, and an exit without sem_close.
LEMMA EndsKept ==
  ASSUME SInv, late' \subseteq Procs, NEW p \in Procs, Removed(p) \/ CantLock(p) \/ Exit(p)
  PROVE  SInv'
<1>1. CASE Removed(p)
  BY <1>1, EndKept DEF Removed, Err, Ended
<1>2. CASE CantLock(p)
  BY <1>2, EndKept DEF CantLock, Err, Ended
<1>3. CASE Exit(p)
  BY <1>3, EndKept DEF Exit, Ended
<1>. QED
  BY <1>1, <1>2, <1>3

\* The test of the counter.
LEMMA CloseValKept ==
  ASSUME SInv, late' \subseteq Procs, NEW p \in Procs, CloseVal(p)
  PROVE  SInv'
<1>1. CASE sem[1] > BIGCOUNT
  BY <1>1, EndKept DEF CloseVal, Err, Ended
<1>2. CASE ~(sem[1] > BIGCOUNT)
  <2>. USE <1>2 DEF SInv, CloseVal, kernel, Stay, Valid, InLock, Points, Ended, Members
  <2>1. TypeOK'
    BY DEF TypeOK
  <2>2. Users' = Users /\ Locked' = Locked
    BY DEF TypeOK, Users, Locked
  <2>3. UndoOK' /\ LockOK'
    BY <2>2 DEF TypeOK, UndoOK, LockOK
  <2>4. CountOK' /\ CreateOK'
    BY <2>2 DEF TypeOK, CountOK, CreateOK
  <2>. QED
    BY <2>1, <2>3, <2>4
<1>. QED
  BY <1>1, <1>2

-----------------------------------------------------------------------------
\* Every step keeps the invariant.
LEMMA NextSInv == SInv /\ [Next]_vars => SInv'
<1>. SUFFICES ASSUME SInv, [Next]_vars PROVE SInv'
  OBVIOUS
<1>1. CASE Next
  <2>. PICK p \in Procs : Step(p) /\ Watch
    BY <1>1 DEF Next
  <2>0. late' \subseteq Procs
    BY DEF Watch, Users
  <2>1. CASE sem_create(p)
    BY <2>0, <2>1, QuietKept, SemgetKept, LockKept, EndsKept, SetvalKept, UseKept DEF sem_create
  <2>2. CASE sem_open(p)
    BY <2>0, <2>2, QuietKept, UseKept DEF sem_open
  <2>3. CASE sem_close(p)
    BY <2>0, <2>3, UseKept, CloseValKept, RMIDKept, LockKept DEF sem_close
  <2>. QED
    BY <2>0, <2>1, <2>2, <2>3, ValueKept, RMIDKept, EndsKept DEF Step
<1>2. CASE UNCHANGED vars
  <2>1. Users' = Users /\ Locked' = Locked
    BY <1>2 DEF vars, Users, Locked, Valid
  <2>. QED
    BY <1>2, <2>1 DEF vars, SInv, TypeOK, UndoOK, LockOK, CountOK, CreateOK, Valid
<1>. QED
  BY <1>1, <1>2

\* Hence it always holds.
LEMMA SInvAlways == Spec => []SInv
BY InitSInv, NextSInv, PTL DEF Spec

\* At any time the lock is held by the one process that is between taking it
\* and giving it back, if any, and the counter is BIGCOUNT less the processes
\* that have the semaphore open, wherever others have ended.
THEOREM Exact == Spec => []CountsExact
<1>1. SInv => CountsExact
  <2>. SUFFICES ASSUME SInv PROVE CountsExact
    OBVIOUS
  <2>1. LockExact
    BY FS_EmptySet, FS_Singleton DEF SInv, LockOK, LockExact
  <2>2. CounterExact
    BY DEF SInv, CountOK, CounterExact
  <2>. QED
    BY <2>1, <2>2 DEF SInv, CountsExact
<1>. QED
  BY <1>1, SInvAlways, PTL

-----------------------------------------------------------------------------
\* Who has a set open that sem_close removes

\* A step of p is one of p alone, and no identifier becomes valid again.
LEMMA OthersStay ==
  ASSUME SInv, NEW p \in Procs, Step(p), NEW q \in Procs, q # p
  PROVE  pc'[q] = pc[q] /\ id'[q] = id[q] /\ (Valid(q)' => Valid(q))
<1>. USE DEF SInv, TypeOK, Goto, Stay, kernel
<1>1. CASE Semget(p)
  BY <1>1 DEF Semget, Valid
<1>2. CASE CallCreate(p) \/ Block(p) \/ Again(p) \/ Getval(p) \/ CallOpen(p)
  BY <1>2 DEF CallCreate, Block, Again, Getval, CallOpen, Valid
<1>3. CASE Lock(p) \/ EndCreate(p) \/ Open(p) \/ Close(p) \/ CloseUnlock(p)
  BY <1>3 DEF Lock, EndCreate, Open, Close, CloseUnlock, semop, Valid
<1>4. CASE Setval0(p) \/ Setval1(p) \/ sem_wait(p) \/ sem_signal(p)
  BY <1>4 DEF Setval0, Setval1, SETVAL, sem_wait, sem_signal, semop, Valid
<1>5. CASE CantLock(p) \/ CloseVal(p) \/ Removed(p) \/ Exit(p)
  BY <1>5 DEF CantLock, CloseVal, Removed, Exit, Err, Undo, Valid
<1>6. CASE CloseRm(p) \/ sem_rm(p)
  BY <1>6 DEF CloseRm, sem_rm, RMID, Valid
<1>. QED
  BY <1>1, <1>2, <1>3, <1>4, <1>5, <1>6 DEF Step, sem_create, sem_open, sem_close

\* A process comes to use the semaphore at the end of sem_create or sem_open.
LEMMA ComesToUse ==
  ASSUME SInv, NEW p \in Procs, Step(p), p \in Users', p \notin Users
  PROVE  EndCreate(p) \/ pc[p] = "open"
<1>. USE DEF SInv, TypeOK, Goto, Stay, kernel, Users
<1>1. pc'[p] = "using" /\ Valid(p)'
  OBVIOUS
<1>2. CASE CallCreate(p) \/ Block(p) \/ Again(p) \/ Getval(p) \/ CallOpen(p) \/ Semget(p)
  BY <1>1, <1>2 DEF CallCreate, Block, Again, Getval, CallOpen, Semget
<1>3. CASE Lock(p) \/ Close(p) \/ CloseUnlock(p) \/ Setval0(p) \/ Setval1(p)
  BY <1>1, <1>3 DEF Lock, Close, CloseUnlock, Setval0, Setval1
<1>4. CASE sem_wait(p) \/ sem_signal(p)
  BY <1>1, <1>4 DEF sem_wait, sem_signal, semop, Valid
<1>5. CASE CantLock(p) \/ CloseVal(p) \/ Removed(p) \/ Exit(p)
  BY <1>1, <1>5 DEF CantLock, CloseVal, Removed, Exit, Err
<1>6. CASE CloseRm(p) \/ sem_rm(p)
  BY <1>1, <1>6 DEF CloseRm, sem_rm
<1>7. CASE Open(p)
  BY <1>7 DEF Open
<1>. QED
  BY <1>2, <1>3, <1>4, <1>5, <1>6, <1>7 DEF Step, sem_create, sem_open, sem_close

\* A process comes to remove the set when it has found nobody.
LEMMA ComesToRemove ==
  ASSUME SInv, NEW p \in Procs, Step(p), p \in Removing', p \notin Removing
  PROVE  Users' = {}
<1>. USE DEF SInv, TypeOK, Goto, Stay, kernel, Removing
<1>1. pc'[p] = "rm" /\ Valid(p)'
  OBVIOUS
<1>2. CASE CallCreate(p) \/ Block(p) \/ Again(p) \/ Getval(p) \/ CallOpen(p) \/ Semget(p)
  BY <1>1, <1>2 DEF CallCreate, Block, Again, Getval, CallOpen, Semget
<1>3. CASE Lock(p) \/ Close(p) \/ CloseUnlock(p) \/ Setval0(p) \/ Setval1(p) \/ EndCreate(p)
  BY <1>1, <1>3 DEF Lock, Close, CloseUnlock, Setval0, Setval1, EndCreate
<1>4. CASE sem_wait(p) \/ sem_signal(p) \/ Open(p) \/ CloseRm(p) \/ sem_rm(p)
  BY <1>1, <1>4 DEF sem_wait, sem_signal, Open, CloseRm, sem_rm
<1>5. CASE CantLock(p) \/ Removed(p) \/ Exit(p)
  BY <1>1, <1>5 DEF CantLock, Removed, Exit, Err
<1>6. CASE CloseVal(p)
  <2>1. sem[1] = BIGCOUNT /\ pc[p] = "closeval" /\ UNCHANGED <<cur, id>>
    BY <1>1, <1>6 DEF CloseVal, Err
  <2>2. Users = {}
    BY <2>1, NobodyLeft
  <2>3. \A q \in Procs : q # p => pc'[q] = pc[q]
    BY <1>6, OthersStay
  <2>. QED
    BY <1>1, <2>1, <2>2, <2>3 DEF Users, Valid
<1>. QED
  BY <1>2, <1>3, <1>4, <1>5, <1>6 DEF Step, sem_create, sem_open, sem_close

\* While one process is about to remove the set, no other one has the lock, so
\* that nobody comes by sem_create.
LEMMA LateKept ==
  ASSUME SInv, OnlyLateOpens, [Next]_vars
  PROVE  OnlyLateOpens'
<1>1. CASE Next
  <2>. PICK p \in Procs : Step(p) /\ Watch
    BY <1>1 DEF Next
  <2>. SUFFICES ASSUME NEW r \in Removing', NEW q \in Users'
                PROVE  q \in late \/ pc[q] = "open"
    BY DEF OnlyLateOpens, Watch
  <2>1. r \in Procs /\ q \in Procs /\ (q # p => q \in Users)
    BY OthersStay DEF Removing, Users
  <2>2. r \in Removing
    <3>1. CASE r = p
      BY <3>1, ComesToRemove
    <3>2. CASE r # p
      BY <2>1, <3>2, OthersStay DEF Removing
    <3>. QED
      BY <3>1, <3>2
  <2>3. CASE q \in Users
    BY <2>2, <2>3 DEF OnlyLateOpens
  <2>4. CASE q \notin Users
    <3>1. q = p /\ (EndCreate(p) \/ pc[p] = "open")
      BY <2>1, <2>4, ComesToUse
    <3>2. ASSUME EndCreate(p) PROVE FALSE
      <4>1. pc[p] = "endcreate" /\ Valid(p) /\ p # r
        BY <2>2, <3>2 DEF EndCreate, Goto, semop, Removing
      <4>2. p \in Locked /\ r \in Locked
        BY <2>1, <2>2, <4>1 DEF Locked, Removing
      <4>. QED
        BY <4>1, <4>2 DEF SInv, LockOK
    <3>. QED
      BY <3>1, <3>2
  <2>. QED
    BY <2>3, <2>4
<1>2. CASE UNCHANGED vars
  BY <1>2 DEF vars, OnlyLateOpens, Removing, Users, Valid
<1>. QED
  BY <1>1, <1>2

\* sem_close tests the counter and removes the set in two calls.  Whoever has
\* the set open at the second has come by sem_open since the first.
THEOREM Unused == Spec => []OnlyLateOpens
<1>1. Init => OnlyLateOpens
  BY DEF Init, OnlyLateOpens, Removing
<1>. QED
  BY <1>1, LateKept, SInvAlways, PTL DEF Spec

-----------------------------------------------------------------------------
\* The library implements CountedSemaphore

Exists == sem[1] # 0
Value == IF sem[1] # 0 THEN sem[0] ELSE 0
Held == holds \cap Users
Closing == Removing # {}
Abstract == <<Exists, Value, Users, Held, Closing>>

\* The semaphore has its first value before it can be seen, and nothing is
\* left of one that was removed.
ValueOK ==
    /\ \A p \in Procs : Valid(p) /\ pc[p] = "setval1" => sem[0] = InitVal
    /\ cur = 0 => sem[1] = 0

RInv == SInv /\ ValueOK

\* Who has the semaphore open and who holds it does not change when no
\* process comes to "using" or leaves it, and the set stays.
LEMMA SameUsers ==
  ASSUME SInv, cur' = cur, holds' = holds,
         \A q \in Procs : (pc'[q] = "using" /\ id'[q] = cur) <=> (pc[q] = "using" /\ id[q] = cur)
  PROVE  Users' = Users /\ Held' = Held
BY DEF Users, Valid, Held

\* Nor does who is about to remove the set.
LEMMA SameRemoving ==
  ASSUME SInv, NEW p \in Procs, cur' = cur,
         \A q \in Procs : q # p => pc'[q] = pc[q] /\ id'[q] = id[q],
         pc[p] # "rm", pc'[p] # "rm"
  PROVE  Removing' = Removing
BY DEF Removing, Valid

\* A step that is none of the semaphore's.
LEMMA Stutters ==
  ASSUME SInv, Users' = Users, Held' = Held, Removing' = Removing, sem'[1] = sem[1],
         sem[1] # 0 => sem'[0] = sem[0]
  PROVE  UNCHANGED Abstract
BY DEF Abstract, Exists, Value, Closing

\* One process changes its point, and its value of the semaphore is kept.
LEMMA QuietMaps ==
  ASSUME RInv, NEW p \in Procs, CallCreate(p) \/ Block(p) \/ Again(p) \/ Getval(p) \/ CallOpen(p)
  PROVE  UNCHANGED Abstract /\ ValueOK'
<1>1. /\ UNCHANGED <<cur, sem, holds>>
      /\ \A q \in Procs : q # p => pc'[q] = pc[q] /\ id'[q] = id[q]
      /\ pc[p] \notin {"using", "rm"} /\ pc'[p] \notin {"using", "setval1", "rm"}
  BY DEF RInv, SInv, TypeOK, CallCreate, Block, Again, Getval, CallOpen, Goto, Stay, kernel
<1>2. Users' = Users /\ Held' = Held /\ Removing' = Removing
  BY <1>1, SameUsers, SameRemoving DEF RInv
<1>3. UNCHANGED Abstract
  BY <1>1, <1>2, Stutters DEF RInv
<1>4. ValueOK'
  BY <1>1 DEF RInv, ValueOK, Valid
<1>. QED
  BY <1>3, <1>4

\* The lock is not part of the semaphore.
LEMMA LockMaps ==
  ASSUME RInv, NEW p \in Procs, Lock(p) \/ CloseUnlock(p)
  PROVE  UNCHANGED Abstract /\ ValueOK'
<1>1. /\ UNCHANGED <<cur, holds, id>> /\ sem'[0] = sem[0] /\ sem'[1] = sem[1]
      /\ \A q \in Procs : q # p => pc'[q] = pc[q]
      /\ pc[p] \notin {"using", "rm"} /\ pc'[p] \notin {"using", "setval1", "rm"}
  BY DEF RInv, SInv, TypeOK, Lock, CloseUnlock, Goto, Stay, semop, sembuf, op_lock, op_unlock, Members
<1>2. Users' = Users /\ Held' = Held /\ Removing' = Removing
  BY <1>1, SameUsers, SameRemoving DEF RInv
<1>3. UNCHANGED Abstract
  BY <1>1, <1>2, Stutters DEF RInv
<1>4. ValueOK'
  BY <1>1 DEF RInv, ValueOK, Valid
<1>. QED
  BY <1>3, <1>4

\* A new set is not initialised yet, and nobody uses it.
LEMMA SemgetMaps ==
  ASSUME RInv, NEW p \in Procs, Semget(p)
  PROVE  UNCHANGED Abstract /\ ValueOK'
<1>1. /\ UNCHANGED holds /\ pc[p] = "semget" /\ pc'[p] = "lock" /\ id'[p] = cur'
      /\ \A q \in Procs : q # p => pc'[q] = pc[q] /\ id'[q] = id[q]
  BY DEF RInv, SInv, TypeOK, Semget, Goto
<1>2. CASE cur # 0
  <2>1. UNCHANGED <<cur, sem>>
    BY <1>2 DEF Semget
  <2>2. Users' = Users /\ Held' = Held /\ Removing' = Removing
    BY <1>1, <2>1, SameUsers, SameRemoving DEF RInv
  <2>3. UNCHANGED Abstract
    BY <2>1, <2>2, Stutters DEF RInv
  <2>4. ValueOK'
    BY <1>1, <2>1 DEF RInv, ValueOK, Valid
  <2>. QED
    BY <2>3, <2>4
<1>3. CASE cur = 0
  <2>1. cur' = sets + 1 /\ sem' = Zero /\ sem'[1] = 0 /\ sem[1] = 0
    BY <1>3 DEF RInv, ValueOK, Semget, Zero, Members
  <2>2. \A q \in Procs : q # p => id'[q] # cur'
    BY <1>1, <2>1 DEF RInv, SInv, TypeOK
  <2>3. Users = {} /\ Users' = {} /\ Removing = {} /\ Removing' = {}
    BY <1>1, <1>3, <2>2 DEF Users, Removing, Valid
  <2>4. UNCHANGED Abstract
    BY <2>1, <2>3, Stutters DEF RInv, Held
  <2>5. ValueOK'
    BY <1>1, <2>1, <2>2 DEF ValueOK, Valid
  <2>. QED
    BY <2>4, <2>5
<1>. QED
  BY <1>2, <1>3

\* The value is set while nobody can see it.
LEMMA Setval0Maps ==
  ASSUME RInv, NEW p \in Procs, Setval0(p)
  PROVE  UNCHANGED Abstract /\ ValueOK'
<1>1. /\ UNCHANGED <<cur, holds, id>> /\ sem'[0] = InitVal /\ sem'[1] = sem[1]
      /\ \A q \in Procs : q # p => pc'[q] = pc[q]
      /\ pc[p] = "setval0" /\ pc'[p] = "setval1" /\ Valid(p)
  BY DEF RInv, SInv, TypeOK, Setval0, Goto, Stay, SETVAL, Members
<1>2. sem[1] = 0
  BY <1>1 DEF RInv, SInv, CreateOK
<1>3. Users' = Users /\ Held' = Held /\ Removing' = Removing
  BY <1>1, SameUsers, SameRemoving DEF RInv
<1>4. UNCHANGED Abstract
  BY <1>1, <1>2, <1>3, Stutters DEF RInv
<1>5. ValueOK'
  BY <1>1 DEF RInv, ValueOK, Valid
<1>. QED
  BY <1>4, <1>5

\* With the counter the semaphore comes to exist, with its first value.
LEMMA Setval1Maps ==
  ASSUME RInv, NEW p \in Procs, Setval1(p)
  PROVE  Counted!Create /\ ValueOK'
<1>1. /\ UNCHANGED <<cur, holds, id>> /\ sem'[0] = sem[0] /\ sem'[1] = BIGCOUNT
      /\ \A q \in Procs : q # p => pc'[q] = pc[q]
      /\ pc[p] = "setval1" /\ pc'[p] = "endcreate" /\ Valid(p)
  BY DEF RInv, SInv, TypeOK, Setval1, Goto, Stay, SETVAL, Members
<1>2. sem[1] = 0 /\ sem'[1] # 0 /\ sem[0] = InitVal
  <2>1. Cardinality(Procs) \in Nat
    BY SemaphAssumption, FS_CardinalityType
  <2>. QED
    BY <1>1, <2>1, SemaphAssumption DEF RInv, SInv, CreateOK, ValueOK
<1>3. Users' = Users /\ Held' = Held /\ Removing' = Removing
  BY <1>1, SameUsers, SameRemoving DEF RInv
<1>4. Counted!Create
  BY <1>1, <1>2, <1>3 DEF Counted!Create, Held
<1>5. ValueOK'
  BY <1>1 DEF RInv, ValueOK, Valid
<1>. QED
  BY <1>4, <1>5

\* A process has the semaphore open from the semop that counts it, and only
\* one that is initialised.
LEMMA EnterMaps ==
  ASSUME RInv, SInv', NEW p \in Procs, EndCreate(p) \/ Open(p)
  PROVE  Counted!Enter(p) /\ ValueOK'
<1>1. /\ UNCHANGED <<cur, holds, id>> /\ sem'[0] = sem[0]
      /\ sem[1] + (-1) >= 0 /\ sem[1] \in Nat
      /\ \A q \in Procs : q # p => pc'[q] = pc[q]
      /\ pc[p] \notin {"using", "rm"} /\ pc'[p] = "using" /\ Valid(p)
  BY DEF RInv, SInv, TypeOK, EndCreate, Open, Goto, Stay, semop, sembuf, op_endcreate, op_open, Members
<1>2. p \notin Users /\ p \in Users' /\ p \notin holds
  BY <1>1 DEF RInv, SInv, UndoOK, Users, Valid
<1>3. Users' = Users \cup {p} /\ Held' = Held /\ Removing' = Removing
  <2>1. \A q \in Procs : q # p => (q \in Users' <=> q \in Users)
    BY <1>1 DEF Users, Valid
  <2>. QED
    BY <1>1, <1>2, <2>1, SameRemoving DEF RInv, Users, Held
<1>4. sem[1] # 0 /\ sem'[1] # 0
  BY <1>1, <1>2 DEF SInv, CountOK
<1>5. Counted!Enter(p)
  BY <1>1, <1>2, <1>3, <1>4 DEF Counted!Enter, Held
<1>6. ValueOK'
  BY <1>1 DEF RInv, ValueOK, Valid
<1>. QED
  BY <1>5, <1>6

\* sem_wait and sem_signal
LEMMA ValueMaps ==
  ASSUME RInv, NEW p \in Procs, sem_wait(p) \/ sem_signal(p)
  PROVE  (Counted!Wait(p) \/ Counted!Signal(p)) /\ ValueOK'
<1>1. /\ UNCHANGED <<cur, pc, id>> /\ sem'[1] = sem[1]
      /\ pc[p] = "using" /\ Valid(p) /\ p \in Users
  BY DEF RInv, SInv, TypeOK, sem_wait, sem_signal, Goto, semop, sembuf, op_op, Members, Users, Valid
<1>2. Users' = Users /\ Removing' = Removing
  BY <1>1 DEF Users, Removing, Valid
<1>3. sem[1] # 0
  BY <1>1 DEF RInv, SInv, CountOK
<1>4. Counted!Wait(p) \/ Counted!Signal(p)
  <2>1. CASE sem_wait(p)
    <3>1. sem[0] > 0 /\ sem'[0] = sem[0] - 1 /\ p \notin holds /\ holds' = holds \cup {p}
      BY <2>1 DEF RInv, SInv, TypeOK, sem_wait, semop, sembuf, op_op, Members
    <3>. QED
      BY <1>1, <1>2, <1>3, <3>1 DEF Counted!Wait
  <2>2. CASE sem_signal(p)
    <3>1. sem'[0] = sem[0] + 1 /\ p \in holds /\ holds' = holds \ {p}
      BY <2>2 DEF RInv, SInv, TypeOK, sem_signal, semop, sembuf, op_op, Members
    <3>. QED
      BY <1>1, <1>2, <1>3, <3>1 DEF Counted!Signal
  <2>. QED
    BY <2>1, <2>2
<1>5. ValueOK'
  <2>1. ~\E q \in Procs : Valid(q) /\ pc[q] = "setval1"
    BY <1>3 DEF RInv, SInv, CreateOK
  <2>. QED
    BY <1>1, <2>1 DEF RInv, ValueOK, Valid
<1>. QED
  BY <1>4, <1>5

\* A process leaves, by sem_close or by its end: what it held is given back,
\* and the others have the semaphore as before.
LEMMA Leaves ==
  ASSUME RInv, SInv', NEW p \in Procs, cur' = cur, id' = id,
         pc'[p] \notin {"using", "setval1"},
         \A q \in Procs : q # p => pc'[q] = pc[q],
         holds' = holds \ {p},
         sem'[0] = IF p \in Held THEN sem[0] + 1 ELSE sem[0],
         sem'[1] = IF p \in Users THEN sem[1] + 1 ELSE sem[1]
  PROVE  /\ Removing' = Removing => Counted!Leave(p) \/ UNCHANGED Abstract
         /\ p \notin Users => Users' = Users /\ UNCHANGED <<Exists, Value, Held>>
         /\ ValueOK'
<1>1. Users' = Users \ {p} /\ Held' = Held \ {p}
  BY DEF Users, Valid, Held
<1>2. ASSUME p \in Users, Removing' = Removing PROVE Counted!Leave(p)
  <2>1. sem[1] # 0 /\ sem'[1] # 0
    BY <1>2 DEF RInv, SInv, CountOK, TypeOK, Members
  <2>. QED
    BY <1>1, <1>2, <2>1 DEF Counted!Leave, Held
<1>4. ASSUME p \notin Users PROVE Users' = Users /\ UNCHANGED <<Exists, Value, Held>>
  BY <1>1, <1>4 DEF Held, Exists, Value
<1>3. ValueOK'
  <2>1. ASSUME NEW q \in Procs, Valid(q)', pc'[q] = "setval1" PROVE sem'[0] = InitVal
    <3>1. q # p /\ Valid(q) /\ pc[q] = "setval1"
      BY <2>1 DEF Valid
    <3>2. p \notin Users /\ sem[0] = InitVal
      BY <3>1 DEF RInv, SInv, CreateOK, CountOK, ValueOK
    <3>. QED
      BY <3>2 DEF Held
  <2>2. cur' = 0 => sem'[1] = 0
    BY DEF RInv, ValueOK, Users, Valid
  <2>. QED
    BY <2>1, <2>2 DEF ValueOK
<1>. QED
  BY <1>2, <1>3, <1>4 DEF Abstract, Closing

LEMMA CloseMaps ==
  ASSUME RInv, SInv', NEW p \in Procs, Close(p)
  PROVE  (Counted!Leave(p) \/ UNCHANGED Abstract) /\ ValueOK'
<1>1. /\ UNCHANGED <<cur, holds, id>> /\ sem'[0] = sem[0] /\ sem'[1] = sem[1] + 1
      /\ \A q \in Procs : q # p => pc'[q] = pc[q]
      /\ pc[p] = "using" /\ pc'[p] = "closeval" /\ Valid(p) /\ p \notin holds
  BY DEF RInv, SInv, TypeOK, Close, Goto, Stay, semop, sembuf, op_close, Members
<1>2. /\ p \in Users /\ p \notin Held /\ holds' = holds \ {p}
      /\ Removing' = Removing
  BY <1>1, SameRemoving DEF RInv, Users, Held
<1>. QED
  BY <1>1, <1>2, Leaves

\* What the kernel undoes is what the process has of the semaphore.
LEMMA EndMaps ==
  ASSUME RInv, SInv', NEW p \in Procs, NEW how \in Ended \cup {"out"},
         pc' = [pc EXCEPT ![p] = how], Undo(p), holds' = holds \ {p}, id' = id
  PROVE  (Counted!Leave(p) \/ Counted!Spare \/ UNCHANGED Abstract) /\ ValueOK'
<1>1. /\ pc'[p] \notin {"using", "setval1", "rm"}
      /\ \A q \in Procs : q # p => pc'[q] = pc[q]
  BY DEF RInv, SInv, TypeOK, Ended
<1>2. /\ adj[p][0] = IF p \in Held THEN 1 ELSE 0
      /\ adj[p][1] = IF p \in Users THEN 1 ELSE 0
  BY DEF RInv, SInv, UndoOK, Held, Users
<1>3. sem[0] \in Nat /\ sem[1] \in Nat
  BY DEF RInv, SInv, TypeOK, Members
<1>4. /\ cur' = cur
      /\ sem'[0] = IF p \in Held THEN sem[0] + 1 ELSE sem[0]
      /\ sem'[1] = IF p \in Users THEN sem[1] + 1 ELSE sem[1]
  BY <1>2, <1>3 DEF Undo, Members
<1>5. CASE p \in Removing
  <2>1. p \notin Users /\ p \in Locked
    BY <1>5 DEF Users, Removing, Locked
  <2>2. Removing \subseteq {p}
    BY <2>1 DEF RInv, SInv, LockOK, Removing, Locked
  <2>3. Removing' = {}
    BY <1>1, <1>4, <2>2 DEF Removing, Valid
  <2>4. Users' = Users /\ UNCHANGED <<Exists, Value, Held>> /\ ValueOK'
    BY <1>1, <1>4, <2>1, Leaves
  <2>. QED
    BY <1>5, <2>3, <2>4 DEF Counted!Spare, Exists, Value, Held
<1>6. CASE p \notin Removing
  <2>1. Removing' = Removing
    BY <1>1, <1>4, <1>6 DEF Removing, Valid
  <2>. QED
    BY <1>1, <1>4, <2>1, Leaves
<1>. QED
  BY <1>5, <1>6

LEMMA EndsMap ==
  ASSUME RInv, SInv', NEW p \in Procs, Removed(p) \/ CantLock(p) \/ Exit(p)
  PROVE  (Counted!Leave(p) \/ Counted!Spare \/ UNCHANGED Abstract) /\ ValueOK'
<1>1. CASE Removed(p)
  BY <1>1, EndMaps DEF Removed, Err, Ended
<1>2. CASE CantLock(p)
  BY <1>2, EndMaps DEF CantLock, Err, Ended
<1>3. CASE Exit(p)
  BY <1>3, EndMaps DEF Exit
<1>. QED
  BY <1>1, <1>2, <1>3

\* The test of the counter decides for what follows it.
LEMMA CloseValMaps ==
  ASSUME RInv, SInv', NEW p \in Procs, CloseVal(p)
  PROVE  /\ Counted!Leave(p) \/ Counted!Spare \/ Counted!Decide \/ UNCHANGED Abstract
         /\ ValueOK'
<1>1. CASE sem[1] > BIGCOUNT
  BY <1>1, EndMaps DEF CloseVal, Err, Ended
<1>2. CASE ~(sem[1] > BIGCOUNT)
  <2>1. /\ UNCHANGED <<cur, sem, holds, id>>
        /\ \A q \in Procs : q # p => pc'[q] = pc[q]
        /\ pc[p] = "closeval" /\ pc'[p] \notin {"using", "setval1"}
        /\ pc'[p] = IF sem[1] = BIGCOUNT THEN "rm" ELSE "unlock"
        /\ Valid(p)
    BY <1>2 DEF RInv, SInv, TypeOK, CloseVal, Stay, kernel
  <2>2. p \notin Users /\ p \notin Held /\ p \notin holds
    BY <2>1 DEF RInv, SInv, UndoOK, Users, Held
  <2>3. Users' = Users /\ UNCHANGED <<Exists, Value, Held>> /\ ValueOK'
    BY <2>1, <2>2, Leaves
  <2>4. CASE sem[1] = BIGCOUNT
    <3>1. Users = {} /\ sem[1] # 0
      BY <2>4, NobodyLeft, UsersCounted, SemaphAssumption DEF RInv, SInv
    <3>2. p \in Removing'
      BY <2>1, <2>4 DEF Removing, Valid
    <3>. QED
      BY <2>3, <3>1, <3>2 DEF Counted!Decide, Exists, Value, Held
  <2>5. CASE sem[1] # BIGCOUNT
    <3>1. Removing' = Removing
      BY <2>1, <2>5, SameRemoving DEF RInv
    <3>. QED
      BY <2>3, <3>1 DEF Abstract, Closing
  <2>. QED
    BY <2>4, <2>5
<1>. QED
  BY <1>1, <1>2

\* sem_close removes the set it has decided to remove, sem_rm any.
LEMMA RMIDMaps ==
  ASSUME RInv, NEW p \in Procs, CloseRm(p) \/ sem_rm(p)
  PROVE  (Counted!Remove \/ Counted!Destroy(p)) /\ ValueOK'
<1>1. /\ cur' = 0 /\ sem'[1] = 0 /\ sem'[0] = 0
      /\ id' = id /\ holds' = holds /\ Valid(p)
  BY DEF CloseRm, sem_rm, RMID, Stay, Zero, Members
<1>2. Users' = {} /\ Held' = {} /\ Removing' = {}
  BY <1>1 DEF Users, Valid, Held, Removing
<1>3. ValueOK'
  BY <1>1 DEF ValueOK, Valid
<1>4. CASE CloseRm(p)
  <2>1. p \in Removing
    BY <1>1, <1>4 DEF Removing, CloseRm, Goto
  <2>. QED
    BY <1>1, <1>2, <1>3, <2>1 DEF Counted!Remove, Held
<1>5. CASE sem_rm(p)
  <2>1. p \in Servers /\ p \in Users /\ p \notin Held
    BY <1>1, <1>5 DEF sem_rm, Goto, Users, Held
  <2>. QED
    BY <1>1, <1>2, <1>3, <2>1 DEF Counted!Destroy, Held
<1>. QED
  BY <1>4, <1>5

LEMMA StepMaps ==
  ASSUME RInv, SInv', [Next]_vars
  PROVE  [Counted!Next]_Abstract /\ ValueOK'
<1>1. CASE Next
  <2>. PICK p \in Procs : Step(p) /\ Watch
    BY <1>1 DEF Next
  <2>1. CASE CallCreate(p) \/ Block(p) \/ Again(p) \/ Getval(p) \/ CallOpen(p)
    BY <2>1, QuietMaps
  <2>2. CASE Lock(p) \/ CloseUnlock(p)
    BY <2>2, LockMaps
  <2>3. CASE Semget(p)
    BY <2>3, SemgetMaps
  <2>4. CASE Setval0(p)
    BY <2>4, Setval0Maps
  <2>5. CASE Setval1(p)
    BY <2>5, Setval1Maps DEF Counted!Next
  <2>6. CASE EndCreate(p) \/ Open(p)
    BY <2>6, EnterMaps DEF Counted!Next
  <2>7. CASE sem_wait(p) \/ sem_signal(p)
    BY <2>7, ValueMaps DEF Counted!Next
  <2>8. CASE Close(p)
    BY <2>8, CloseMaps DEF Counted!Next
  <2>9. CASE CloseVal(p)
    BY <2>9, CloseValMaps DEF Counted!Next
  <2>10. CASE CloseRm(p) \/ sem_rm(p)
    BY <2>10, RMIDMaps DEF Counted!Next
  <2>11. CASE Removed(p) \/ CantLock(p) \/ Exit(p)
    BY <2>11, EndsMap DEF Counted!Next
  <2>. QED
    BY <2>1, <2>2, <2>3, <2>4, <2>5, <2>6, <2>7, <2>8, <2>9, <2>10, <2>11
       DEF Step, sem_create, sem_open, sem_close
<1>2. CASE UNCHANGED vars
  BY <1>2 DEF vars, RInv, ValueOK, Valid, Abstract, Exists, Value, Users, Held, Closing, Removing
<1>. QED
  BY <1>1, <1>2

\* Processes that use the library in any order, and end at any step, see a
\* semaphore that is initialised once, that gets back exactly what an ended
\* process had taken, and that is removed when nobody has it open, by sem_rm,
\* or under a process that came between the two calls of a last sem_close.
THEOREM Counts == Spec => IsCountedSemaphore
<1>1. Init => RInv
  BY InitSInv DEF Init, RInv, ValueOK, Valid, Zero, Members
<1>2. RInv /\ [Next]_vars => RInv'
  BY NextSInv, StepMaps DEF RInv
<1>3. Init => Counted!Init
  BY DEF Init, Counted!Init, Zero, Members, Users, Removing, Valid
<1>4. RInv /\ RInv' /\ [Next]_vars => [Counted!Next]_Abstract
  BY StepMaps DEF RInv
<1>5. [Counted!Next]_Abstract
      => [Counted!Next]_<<sem[1] # 0, IF sem[1] # 0 THEN sem[0] ELSE 0, Users, holds \cap Users,
                             Removing # {}>>
  BY DEF Abstract, Exists, Value, Held, Closing
<1>. QED
  BY <1>1, <1>2, <1>3, <1>4, <1>5, PTL DEF Spec, IsCountedSemaphore, Counted!Spec
=============================================================================
