----------------------------- MODULE SmallProofs -----------------------------
(***************************************************************************)
(* The proofs about four components, which share no state and are proved   *)
(* one after the other: the opening of a database (DbOpen), the job queue  *)
(* (JobQueue), the allocator (Heap) and the daemons run on Unix.           *)
(***************************************************************************)
EXTENDS DbOpen, JobQueue, Heap, Unix, DaemonPrograms, SequenceTheorems, FiniteSetTheorems, WellFoundedInduction, TLAPS

\* A set of numbers has a least one.
LEMMA LeastExists ==
  ASSUME NEW S \in SUBSET Nat, S # {}
  PROVE  \E x \in S : \A y \in S : x <= y
<1>. DEFINE R == OpToRel(<, Nat)
<1>1. IsWellFoundedOn(R, Nat)
  BY NatLessThanWellFounded
<1>2. \A x, y \in Nat : <<y, x>> \in R <=> y < x
  BY DEF OpToRel
<1>. HIDE DEF R
<1>3. PICK x \in S : \A y \in S : ~ (<<y, x>> \in R)
  BY <1>1, WFMin
<1>4. \A y \in S : x \in Nat /\ y \in Nat /\ ~(y < x)
  BY <1>2, <1>3
<1>5. \A y \in S : x <= y
  BY <1>4
<1>. QED
  BY <1>5

-----------------------------------------------------------------------------
(***************************************************************************)
(* DbOpen.  For any number of processes and any flags: the locks of db_open *)
(* and of db_store exclude each other, and records are only lost to O_TRUNC. *)
(***************************************************************************)

\* Where the lock on the whole file, and the lock on the chain, is held.
WholePoints == {"init_stat", "init_write", "init_unlock"}
ChainPoints == {"read_ptr", "append", "link", "unlock"}

LocksHeld ==
    \A p \in Callers : /\ p \in whole <=> pt[p] \in WholePoints
                       /\ p \in chain <=> pt[p] \in ChainPoints
Alone == \A p, q \in whole \cup chain : p = q

\* A creator that has found the file empty finds it so until it has written
\* its table: only open() changes it without a lock, and truncates it.
StillEmpty == \A p \in Callers : pt[p] = "init_write" => index = "empty"
\* Records are linked in a table.
LinkedInTable == index # "table" => linked = {}

IInv == OpenOK /\ LocksHeld /\ Alone /\ StillEmpty /\ LinkedInTable

LEMMA InitIInv == OpenInit => IInv
<1> SUFFICES ASSUME OpenInit PROVE IInv
  OBVIOUS
<1>1. OpenOK
  BY OpenAssumption DEF OpenInit, OpenOK, Index
<1>2. LocksHeld /\ Alone /\ StillEmpty /\ LinkedInTable
  BY DEF OpenInit, LocksHeld, Alone, StillEmpty, LinkedInTable, WholePoints, ChainPoints
<1> QED
  BY <1>1, <1>2 DEF IInv

\* The points of pt, for the provers.
Points == OpenPoints \cup UsePoints \cup {"closed", "dumped"}

LEMMA OpenIdxStep == ASSUME IInv, NEW p \in Callers, OpenIdx(p) PROVE IInv'
<1> USE DEF IInv
<1>1. OpenOK'
  <2>1. index' \in Index /\ linked' \subseteq Callers
    BY DEF OpenOK, OpenIdx, Index
  <2>2. pt' \in [Callers -> Points]
    BY DEF OpenOK, OpenIdx, Passes, OpenPoints, UsePoints, Points
  <2>3. dbopens' \in [Callers -> 0 .. MaxDbOpens]
    BY OpenAssumption DEF OpenOK, OpenIdx
  <2> QED
    BY <2>1, <2>2, <2>3 DEF OpenOK, OpenIdx, Points
<1>2. LocksHeld'
  BY DEF OpenOK, LocksHeld, OpenIdx, Passes, WholePoints, ChainPoints
<1>3. Alone'
  BY DEF Alone, OpenIdx
<1>4. StillEmpty'
  BY DEF OpenOK, StillEmpty, OpenIdx, Passes
<1>5. LinkedInTable'
  BY DEF LinkedInTable, OpenIdx
<1> QED
  BY <1>1, <1>2, <1>3, <1>4, <1>5

LEMMA HeldAt ==
    ASSUME LocksHeld, NEW p \in Callers
    PROVE  (p \in whole <=> pt[p] \in WholePoints) /\ (p \in chain <=> pt[p] \in ChainPoints)
  BY DEF LocksHeld

\* The steps that leave the index file alone: data, whole, chain and pt.
LEMMA LockSteps ==
    ASSUME IInv, NEW p \in Callers,
           \/ OpenDat(p) \/ InitLock(p) \/ InitStat(p) \/ InitUnlock(p)
           \/ StoreLock(p) \/ ReadPtr(p) \/ Dump(p) \/ StoreUnlock(p) \/ CloseDb(p)
    PROVE  IInv'
<1> USE DEF IInv
<1>0. /\ p \in whole <=> pt[p] \in WholePoints
      /\ p \in chain <=> pt[p] \in ChainPoints
  BY HeldAt
<1>1. UNCHANGED <<index, linked, dbopens>>
  BY DEF OpenDat, InitLock, InitStat, InitUnlock, StoreLock, ReadPtr, Dump, StoreUnlock, CloseDb
<1>2. PICK from, to \in Points : Passes(p, from, to)
  BY DEF OpenDat, InitLock, InitStat, InitUnlock, StoreLock, ReadPtr, Dump, StoreUnlock, CloseDb,
         Passes, Points, OpenPoints, UsePoints
<1>3. pt' \in [Callers -> Points] /\ \A q \in Callers \ {p} : pt'[q] = pt[q]
  BY <1>2 DEF Passes, OpenOK, Points
<1>4. whole' \in {whole, whole \cup {p}, whole \ {p}} /\ chain' \in {chain, chain \cup {p}, chain \ {p}}
  BY DEF OpenDat, InitLock, InitStat, InitUnlock, StoreLock, ReadPtr, Dump, StoreUnlock, CloseDb
<1>5. OpenOK'
  <2>1. data' \in BOOLEAN
    BY DEF OpenOK, OpenDat, InitLock, InitStat, InitUnlock, StoreLock, ReadPtr, Dump, StoreUnlock, CloseDb
  <2> QED
    BY <1>1, <1>3, <1>4, <2>1 DEF OpenOK, Points
<1>6. LocksHeld'
  <2>1. /\ p \in whole' <=> pt'[p] \in WholePoints
        /\ p \in chain' <=> pt'[p] \in ChainPoints
    <3>1. CASE OpenDat(p) \/ InitStat(p) \/ ReadPtr(p)
      BY <1>0, <3>1 DEF OpenDat, InitStat, ReadPtr, Passes, OpenOK, WholePoints, ChainPoints
    <3>2. CASE InitLock(p) \/ StoreLock(p)
      BY <1>0, <3>2 DEF InitLock, StoreLock, Passes, OpenOK, WholePoints, ChainPoints
    <3>3. CASE InitUnlock(p) \/ StoreUnlock(p)
      BY <1>0, <3>3 DEF InitUnlock, StoreUnlock, Passes, OpenOK, WholePoints, ChainPoints
    <3>4. CASE Dump(p) \/ CloseDb(p)
      BY <1>0, <3>4 DEF Dump, CloseDb, Passes, OpenOK, WholePoints, ChainPoints
    <3> QED
      BY <3>1, <3>2, <3>3, <3>4
  <2> QED
    BY <1>3, <1>4, <2>1 DEF LocksHeld
<1>7. Alone'
  <2>1. whole' \cup chain' \subseteq whole \cup chain \/ whole' \cup chain' \subseteq {p}
    BY DEF OpenDat, InitLock, InitStat, InitUnlock, StoreLock, ReadPtr, Dump, StoreUnlock, CloseDb
  <2> QED
    BY <2>1 DEF Alone
<1>8. StillEmpty'
  <2>1. pt'[p] = "init_write" => index = "empty"
    BY DEF OpenDat, InitLock, InitStat, InitUnlock, StoreLock, ReadPtr, Dump, StoreUnlock, CloseDb, Passes, OpenOK
  <2> QED
    BY <1>1, <1>3, <2>1 DEF StillEmpty
<1> QED
  BY <1>1, <1>5, <1>6, <1>7, <1>8 DEF LinkedInTable

\* The steps that write the index file, each with a lock.
LEMMA WriteSteps ==
    ASSUME IInv, NEW p \in Callers, InitWrite(p) \/ AppendRecord(p) \/ LinkRecord(p)
    PROVE  IInv'
<1> USE DEF IInv
<1>1. UNCHANGED <<data, whole, chain, dbopens>>
  BY DEF InitWrite, AppendRecord, LinkRecord
<1>2. \/ InitWrite(p) /\ pt[p] = "init_write" /\ pt'[p] = "init_unlock" /\ p \in whole /\ p \notin chain
      \/ AppendRecord(p) /\ pt[p] = "append" /\ pt'[p] = "link" /\ p \in chain /\ p \notin whole
      \/ LinkRecord(p) /\ pt[p] = "link" /\ pt'[p] = "unlock" /\ p \in chain /\ p \notin whole
  <2>1. /\ p \in whole <=> pt[p] \in WholePoints
        /\ p \in chain <=> pt[p] \in ChainPoints
    BY HeldAt
  <2>2. CASE InitWrite(p)
    BY <2>1, <2>2 DEF InitWrite, Passes, OpenOK, WholePoints, ChainPoints
  <2>3. CASE AppendRecord(p)
    BY <2>1, <2>3 DEF AppendRecord, Passes, OpenOK, WholePoints, ChainPoints
  <2>4. CASE LinkRecord(p)
    BY <2>1, <2>4 DEF LinkRecord, Passes, OpenOK, WholePoints, ChainPoints
  <2> QED
    BY <2>2, <2>3, <2>4
<1>3. /\ pt' \in [Callers -> Points]
      /\ pt'[p] \in {"init_unlock", "link", "unlock"}
      /\ \A q \in Callers \ {p} : pt'[q] = pt[q]
  BY DEF InitWrite, AppendRecord, LinkRecord, Passes, OpenOK, Points, OpenPoints, UsePoints
<1>4. index' \in Index /\ linked' \subseteq Callers
  BY DEF InitWrite, AppendRecord, LinkRecord, OpenOK, Index, Written
<1>5. OpenOK'
  BY <1>1, <1>3, <1>4 DEF OpenOK, Points
<1>6. LocksHeld'
  <2>1. /\ p \in whole <=> pt'[p] \in WholePoints
        /\ p \in chain <=> pt'[p] \in ChainPoints
    BY <1>2 DEF WholePoints, ChainPoints
  <2> QED
    BY <1>1, <1>3, <2>1 DEF LocksHeld
<1>7. StillEmpty'
  <2>1. \A q \in Callers : q \in whole => q = p
    BY <1>2 DEF Alone
  <2>2. ASSUME NEW q \in Callers, q # p PROVE pt[q] # "init_write"
    BY <2>1, <2>2, HeldAt DEF WholePoints
  <2> QED
    BY <1>3, <2>2 DEF StillEmpty
<1>8. LinkedInTable'
  BY DEF InitWrite, AppendRecord, LinkRecord, LinkedInTable, Written
<1> QED
  BY <1>1, <1>5, <1>6, <1>7, <1>8 DEF Alone

LEMMA NextIInv == IInv /\ [OpenNext]_openVars => IInv'
<1> SUFFICES ASSUME IInv, [OpenNext]_openVars PROVE IInv'
  OBVIOUS
<1>1. CASE UNCHANGED openVars
  BY <1>1 DEF openVars, IInv, OpenOK, LocksHeld, Alone, StillEmpty, LinkedInTable
<1>2. ASSUME NEW p \in Callers, OpenIdx(p) PROVE IInv'
  BY <1>2, OpenIdxStep
<1>3. ASSUME NEW p \in Callers, OpenStep(p) \/ StoreLock(p) \/ UseStep(p) \/ CloseDb(p) PROVE IInv'
  BY <1>3, LockSteps, WriteSteps DEF OpenStep, UseStep
<1> QED
  BY <1>1, <1>2, <1>3 DEF OpenNext

\* A step other than the truncating open() unlinks no record: InitWrite, the
\* only one that could, finds none.
LEMMA NothingLost ==
    IInv /\ [OpenNext]_openVars => [linked \subseteq linked' \/ \E p \in Callers : "O_TRUNC" \in Flags[p] /\ OpenIdx(p)]_openVars
<1> SUFFICES ASSUME IInv, NEW p \in Callers,
                    OpenIdx(p) \/ OpenStep(p) \/ StoreLock(p) \/ UseStep(p) \/ CloseDb(p),
                    ~("O_TRUNC" \in Flags[p] /\ OpenIdx(p))
             PROVE  linked \subseteq linked'
  BY DEF OpenNext
<1>1. CASE OpenIdx(p)
  BY <1>1 DEF OpenIdx, IInv, LinkedInTable
<1>2. CASE InitWrite(p)
  BY <1>2 DEF InitWrite, Passes, IInv, StillEmpty, LinkedInTable
<1>3. CASE LinkRecord(p)
  BY <1>3 DEF LinkRecord
<1> QED
  BY <1>1, <1>2, <1>3 DEF OpenStep, UseStep, OpenDat, InitLock, InitStat, InitUnlock, StoreLock,
                          ReadPtr, Dump, AppendRecord, StoreUnlock, CloseDb

\* With any number of processes that open, create, truncate and use the
\* database, no db_open but one that truncates makes a record disappear.
THEOREM Kept == OpenSpec => OnlyTruncationLoses
<1>1. OpenInit => IInv
  BY InitIInv
<1>2. IInv /\ [OpenNext]_openVars => IInv'
  BY NextIInv
<1>3. IInv /\ [OpenNext]_openVars => [linked \subseteq linked' \/ \E p \in Callers : "O_TRUNC" \in Flags[p] /\ OpenIdx(p)]_openVars
  BY NothingLost
<1> QED
  BY <1>1, <1>2, <1>3, PTL DEF OpenSpec, OnlyTruncationLoses

-----------------------------------------------------------------------------
(***************************************************************************)
(* JobQueue.  The two directions of the list say the same, and the list is *)
(* the sequence of jobs that the queue's users think of.                   *)
(***************************************************************************)

\* The job at a place of a sequence, and what is left of it from there.
Nth(s, i) == IF i \in 1 .. Len(s) THEN s[i] ELSE NULL
Suffix(s, i) == [k \in 1 .. Len(s) + 1 - i |-> s[k + i - 1]]

\* A sequence of different jobs.
Queue(s) ==
    /\ s \in Seq(Jobs)
    /\ \A i, k \in 1 .. Len(s) : s[i] = s[k] => i = k

Absent(j, s) == \A i \in 1 .. Len(s) : s[i] # j

IsFirst(r, j, s) == r = <<j>> \o s
IsLast(r, j, s) == r = Append(s, j)
\* what this means for its places,
Behind(r, j, s) == /\ Len(r) = Len(s) + 1 /\ Nth(r, 1) = j
                   /\ \A i \in Int : i # 0 => Nth(r, i + 1) = Nth(s, i)
Before(r, j, s) == /\ Len(r) = Len(s) + 1 /\ Nth(r, Len(r)) = j
                   /\ \A i \in Int : i # Len(r) => Nth(r, i) = Nth(s, i)

Walk(next, w, C) ==
    w = [n \in 0 .. C |-> [k \in Jobs \cup {NULL} |->
            IF k = NULL \/ n = 0 THEN <<>> ELSE <<k>> \o w[n - 1][next[k]]]]

\* The sequences that From goes through exist,
LEMMA QueueWalkExists == ASSUME NEW next, NEW C \in Nat PROVE \E w : Walk(next, w, C)
<1>. DEFINE Jn == Jobs \cup {NULL}
            F(n, u) == [k \in Jn |-> IF k = NULL \/ n = 0 THEN <<>> ELSE <<k>> \o u[next[k]]]
            Upto(c) == \E w : w = [n \in 0 .. c |-> F(n, w[n - 1])]
            Bad == {c \in 0 .. C : ~Upto(c)}
<1>1. SUFFICES Upto(C)
  BY DEF Walk
<1>2. \A u, v : F(0, u) = F(0, v)
  <2>. SUFFICES ASSUME NEW u, NEW v PROVE F(0, u) = F(0, v)
    OBVIOUS
  <2>1. F(0, u) = [k \in Jn |-> <<>>] /\ F(0, v) = [k \in Jn |-> <<>>]
    OBVIOUS
  <2>. QED
    BY <2>1
<1>. HIDE DEF F
<1>3. Upto(0)
  <2>. DEFINE w == [n \in 0 .. 0 |-> F(0, 0)]
  <2>1. \A n \in 0 .. 0 : F(n, w[n - 1]) = F(0, 0)
    <3>. HIDE DEF w
    <3>1. \A n \in 0 .. 0 : n = 0
      OBVIOUS
    <3>. QED
      BY <1>2, <3>1
  <2>2. w = [n \in 0 .. 0 |-> F(n, w[n - 1])]
    BY <2>1
  <2>. QED
    BY <2>2
<1>4. ASSUME NEW c \in 1 .. C, Upto(c - 1) PROVE Upto(c)
  <2>1. PICK w : w = [n \in 0 .. c - 1 |-> F(n, w[n - 1])]
    BY <1>4
  <2>2. \A n \in 0 .. c - 1 : w[n] = F(n, w[n - 1])
    <3>. DEFINE e == [n \in 0 .. c - 1 |-> F(n, w[n - 1])]
    <3>1. \A n \in 0 .. c - 1 : e[n] = F(n, w[n - 1])
      OBVIOUS
    <3>2. w = e
      BY <2>1
    <3>. HIDE DEF e
    <3>. QED
      BY <3>1, <3>2
  <2>. HIDE DEF Upto
  <2>. DEFINE q == [n \in 0 .. c |-> IF n = c THEN F(c, w[c - 1]) ELSE w[n]]
  <2>3. \A n \in 0 .. c : q[n] = IF n = c THEN F(c, w[c - 1]) ELSE w[n]
    OBVIOUS
  <2>4. q = [n \in 0 .. c |-> q[n]]
    OBVIOUS
  <2>. HIDE DEF q
  <2>5. ASSUME NEW n \in 0 .. c PROVE q[n] = F(n, q[n - 1])
    <3>1. CASE n = c
      <4>1. c - 1 \in 0 .. c /\ c - 1 # c /\ c \in 0 .. c
        BY <1>4
      <4>. QED
        BY <2>3, <3>1, <4>1
    <3>2. CASE n # c /\ n # 0
      <4>1. n \in 0 .. c - 1 /\ n - 1 \in 0 .. c /\ n - 1 # c
        BY <1>4, <3>2
      <4>. QED
        BY <2>2, <2>3, <3>2, <4>1
    <3>3. CASE n = 0 /\ n # c
      <4>1. n \in 0 .. c - 1
        BY <1>4, <3>3
      <4>2. q[n] = F(n, w[n - 1])
        BY <2>2, <2>3, <3>3, <4>1
      <4>. QED
        BY <1>2, <3>3, <4>2
    <3>. QED
      BY <3>1, <3>2, <3>3
  <2>6. q = [n \in 0 .. c |-> F(n, q[n - 1])]
    BY <2>4, <2>5
  <2>. QED
    BY <2>6 DEF Upto
<1>. HIDE DEF Upto
<1>5. Bad = {}
  <2>. SUFFICES ASSUME Bad # {} PROVE FALSE
    OBVIOUS
  <2>1. Bad \in SUBSET Nat
    OBVIOUS
  <2>2. PICK c \in Bad : \A y \in Bad : c <= y
    BY <2>1, LeastExists
  <2>3. c \in 1 .. C /\ c - 1 \in 0 .. C /\ ~(c <= c - 1)
    BY <1>3, <2>2
  <2>4. Upto(c - 1)
    BY <2>2, <2>3
  <2>. QED
    BY <1>4, <2>2, <2>3, <2>4
<1>6. C \in 0 .. C
  OBVIOUS
<1>. QED
  BY <1>5, <1>6

\* and each is a job, followed by the sequence from the next one.
LEMMA WalkSteps ==
  ASSUME NEW next, NEW j, Cardinality(Jobs) \in Nat
  PROVE  \E w : /\ From(j, next) = w[Cardinality(Jobs)][j]
                /\ \A n \in 0 .. Cardinality(Jobs) : \A k \in Jobs \cup {NULL} :
                     w[n][k] = IF k = NULL \/ n = 0 THEN <<>> ELSE <<k>> \o w[n - 1][next[k]]
<1>. DEFINE C == Cardinality(Jobs)
<1>1. From(j, next) = (CHOOSE w : Walk(next, w, C))[C][j]
  BY DEF From, Walk
<1>2. PICK w : Walk(next, w, C) /\ From(j, next) = w[C][j]
  BY <1>1, QueueWalkExists
<1>. DEFINE G(n) == [k \in Jobs \cup {NULL} |->
                        IF k = NULL \/ n = 0 THEN <<>> ELSE <<k>> \o w[n - 1][next[k]]]
            e == [n \in 0 .. C |-> G(n)]
<1>3. \A n \in 0 .. C : e[n] = G(n)
  OBVIOUS
<1>4. w = e
  BY <1>2 DEF Walk
<1>5. \A n \in 0 .. C : w[n] = G(n)
  <2>. HIDE DEF e, G
  <2>. QED
    BY <1>3, <1>4
<1>6. \A n \in 0 .. C : \A k \in Jobs \cup {NULL} :
         G(n)[k] = IF k = NULL \/ n = 0 THEN <<>> ELSE <<k>> \o w[n - 1][next[k]]
  OBVIOUS
<1>. HIDE DEF e, G
<1>. QED
  BY <1>2, <1>5, <1>6

LEMMA ShortQueue == ASSUME NEW s, Queue(s) PROVE Len(s) \in Nat /\ Len(s) <= Cardinality(Jobs) /\ Cardinality(Jobs) \in Nat
<1>1. Len(s) \in Nat /\ s \in [1 .. Len(s) -> Jobs]
  BY LenProperties DEF Queue
<1>2. s \in Injection(1 .. Len(s), Jobs)
  BY <1>1 DEF Queue, Injection, IsInjective
<1>3. IsFiniteSet(Jobs)
  BY JobQueueAssumption
<1>4. Cardinality(1 .. Len(s)) <= Cardinality(Jobs)
  BY <1>2, <1>3, FS_Injection
<1>5. Cardinality(1 .. Len(s)) = Len(s)
  <2>1. Cardinality(1 .. Len(s)) = IF 1 > Len(s) THEN 0 ELSE Len(s) - 1 + 1
    BY <1>1, FS_Interval
  <2>2. (IF 1 > Len(s) THEN 0 ELSE Len(s) - 1 + 1) = Len(s)
    BY <1>1
  <2>. QED
    BY <2>1, <2>2
<1>. QED
  BY <1>1, <1>3, <1>4, <1>5, FS_CardinalityType

LEMMA SuffixStep ==
  ASSUME NEW S, NEW s \in Seq(S), NEW i \in 1 .. Len(s)
  PROVE  <<s[i]>> \o Suffix(s, i + 1) = Suffix(s, i)
<1>1. Len(s) \in Nat
  OBVIOUS
<1>2. Suffix(s, i + 1) \in Seq(S) /\ Len(Suffix(s, i + 1)) = Len(s) - i
  <2>1. Suffix(s, i + 1) = [k \in 1 .. Len(s) - i |-> s[k + i]]
    BY <1>1 DEF Suffix
  <2>2. \A k \in 1 .. Len(s) - i : s[k + i] \in S
    <3>. TAKE k \in 1 .. Len(s) - i
    <3>1. k + i \in 1 .. Len(s)
      BY <1>1
    <3>. QED
      BY <3>1
  <2>. QED
    BY <1>1, <2>1, <2>2
<1>3. <<s[i]>> \in Seq(S) /\ Len(<<s[i]>>) = 1
  OBVIOUS
<1>. DEFINE c == <<s[i]>> \o Suffix(s, i + 1)
<1>4. Len(c) = Len(s) + 1 - i /\ c \in Seq(S)
  BY <1>1, <1>2, <1>3
<1>5. \A k \in 1 .. Len(s) + 1 - i : c[k] = s[k + i - 1]
  <2>. TAKE k \in 1 .. Len(s) + 1 - i
  <2>1. CASE k = 1
    BY <1>1, <1>2, <1>3, <2>1
  <2>2. CASE k # 1
    <3>1. c[k] = Suffix(s, i + 1)[k - 1]
      BY <1>1, <1>2, <1>3, <2>2
    <3>2. k - 1 \in 1 .. Len(s) + 1 - (i + 1) /\ k - 1 + (i + 1) - 1 = k + i - 1
      BY <1>1, <2>2
    <3>3. Suffix(s, i + 1)[k - 1] = s[k - 1 + (i + 1) - 1]
      BY <3>2 DEF Suffix
    <3>. QED
      BY <3>1, <3>2, <3>3
  <2>. QED
    BY <2>1, <2>2
<1>6. c = [k \in 1 .. Len(s) + 1 - i |-> c[k]]
  <2>. HIDE DEF c
  <2>. QED
    BY <1>4, LenProperties
<1>. HIDE DEF c
<1>7. c = Suffix(s, i)
  BY <1>5, <1>6 DEF Suffix
<1>. QED
  BY <1>7 DEF c

LEMMA SuffixEnds ==
  ASSUME NEW S, NEW s \in Seq(S)
  PROVE  Suffix(s, 1) = s /\ Suffix(s, Len(s) + 1) = <<>>
<1>1. Len(s) \in Nat
  OBVIOUS
<1>2. s = [k \in 1 .. Len(s) |-> s[k]]
  BY LenProperties
<1>3. Len(s) + 1 - 1 = Len(s) /\ 1 .. Len(s) + 1 - (Len(s) + 1) = {} /\ \A k \in 1 .. Len(s) : k + 1 - 1 = k
  BY <1>1
<1>4. Suffix(s, 1) = [k \in 1 .. Len(s) |-> s[k]]
  BY <1>3 DEF Suffix
<1>5. Suffix(s, Len(s) + 1) = [k \in {} |-> s[k + (Len(s) + 1) - 1]]
  BY <1>3 DEF Suffix
<1>. QED
  BY <1>2, <1>4, <1>5

\* Where the links lead through a queue, From returns it.
LEMMA FromIs ==
  ASSUME NEW next, NEW s, Queue(s), \A i \in 1 .. Len(s) : next[s[i]] = Nth(s, i + 1)
  PROVE  From(Nth(s, 1), next) = s
<1>. DEFINE C == Cardinality(Jobs)
            Good(w, n) == \A i \in 1 .. Len(s) + 1 : Len(s) + 1 <= n + i => w[n][Nth(s, i)] = Suffix(s, i)
<1>1. Len(s) \in Nat /\ Len(s) <= C /\ C \in Nat
  BY ShortQueue
<1>2. PICK w : /\ From(Nth(s, 1), next) = w[C][Nth(s, 1)]
               /\ \A n \in 0 .. C : \A k \in Jobs \cup {NULL} :
                     w[n][k] = IF k = NULL \/ n = 0 THEN <<>> ELSE <<k>> \o w[n - 1][next[k]]
  BY <1>1, WalkSteps
<1>3. \A i \in 1 .. Len(s) + 1 : Nth(s, i) \in Jobs \cup {NULL}
  BY DEF Nth, Queue
<1>4. Nth(s, Len(s) + 1) = NULL /\ \A i \in 1 .. Len(s) : Nth(s, i) = s[i] /\ s[i] \in Jobs /\ s[i] # NULL
  BY <1>1, JobQueueAssumption DEF Nth, Queue
<1>5. ASSUME NEW n \in 0 .. C, n = 0 \/ Good(w, n - 1) PROVE Good(w, n)
  <2>. SUFFICES ASSUME NEW i \in 1 .. Len(s) + 1, Len(s) + 1 <= n + i PROVE w[n][Nth(s, i)] = Suffix(s, i)
    OBVIOUS
  <2>1. CASE i = Len(s) + 1
    <3>1. w[n][Nth(s, i)] = <<>>
      BY <1>2, <1>4, <2>1
    <3>. QED
      BY <2>1, <3>1, SuffixEnds DEF Queue
  <2>2. CASE i # Len(s) + 1
    <3>1. i \in 1 .. Len(s) /\ i + 1 \in 1 .. Len(s) + 1 /\ n # 0 /\ Len(s) + 1 <= n - 1 + (i + 1)
      BY <1>1, <2>2
    <3>2. w[n][Nth(s, i)] = <<s[i]>> \o w[n - 1][next[s[i]]]
      <4>1. Nth(s, i) = s[i] /\ s[i] \in Jobs \cup {NULL} /\ ~(s[i] = NULL \/ n = 0)
        BY <1>4, <3>1
      <4>2. w[n][s[i]] = IF s[i] = NULL \/ n = 0 THEN <<>> ELSE <<s[i]>> \o w[n - 1][next[s[i]]]
        BY <1>2, <4>1
      <4>. QED
        BY ONLY <4>1, <4>2, Zenon
    <3>3. w[n - 1][next[s[i]]] = Suffix(s, i + 1)
      BY <1>5, <3>1
    <3>. QED
      BY <3>1, <3>2, <3>3, SuffixStep DEF Queue
  <2>. QED
    BY <2>1, <2>2
<1>. DEFINE Bad == {n \in 0 .. C : ~Good(w, n)}
<1>. HIDE DEF Good
<1>6. Bad = {}
  <2>. SUFFICES ASSUME Bad # {} PROVE FALSE
    OBVIOUS
  <2>1. Bad \in SUBSET Nat
    BY <1>1
  <2>2. PICK n \in Bad : \A y \in Bad : n <= y
    BY <2>1, LeastExists
  <2>3. n \in 0 .. C /\ (n = 0 \/ (n - 1 \in 0 .. C /\ ~(n <= n - 1)))
    BY <1>1, <2>2
  <2>4. n = 0 \/ Good(w, n - 1)
    BY <2>2, <2>3
  <2>. QED
    BY <1>5, <2>2, <2>3, <2>4
<1>7. C \in 0 .. C /\ 1 \in 1 .. Len(s) + 1 /\ Len(s) + 1 <= C + 1
  BY <1>1
<1>8. w[C][Nth(s, 1)] = Suffix(s, 1)
  BY <1>6, <1>7 DEF Good
<1>. QED
  BY <1>2, <1>8, SuffixEnds DEF Queue

-----------------------------------------------------------------------------
\* The links

\* The links are those of the queue s, in both directions.
Linked(s) ==
    /\ q_head = Nth(s, 1) /\ q_tail = Nth(s, Len(s))
    /\ \A i \in 1 .. Len(s) : j_next[s[i]] = Nth(s, i + 1) /\ j_prev[s[i]] = Nth(s, i - 1)

\* A thread that searches s has passed no job of its own.
Searches(s, t) ==
    \E i \in 1 .. Len(s) + 1 : jp[t] = Nth(s, i) /\ \A k \in 1 .. i - 1 : Owner(s[k]) # t

LinksOK == j_next \in [Jobs -> Jobs \cup {NULL}] /\ j_prev \in [Jobs -> Jobs \cup {NULL}]
SearchesOK(s) == jp \in [Threads -> Jobs \cup {NULL}] /\ readers \subseteq Threads /\ \A t \in readers : Searches(s, t)
QueueInv == LinksOK /\ \E s : Queue(s) /\ Linked(s) /\ SearchesOK(s)

Backwards(s) == [i \in 1 .. Len(s) |-> s[Len(s) - i + 1]]

LEMMA BackwardsQueue ==
  ASSUME NEW s, Queue(s)
  PROVE  /\ Queue(Backwards(s)) /\ Len(Backwards(s)) = Len(s) /\ Backwards(s) = Reverse(s)
         /\ \A i \in Int : Nth(Backwards(s), i) = Nth(s, Len(s) - i + 1)
<1>1. Len(s) \in Nat /\ s \in Seq(Jobs)
  BY DEF Queue
<1>2. \A i \in 1 .. Len(s) : Len(s) - i + 1 \in 1 .. Len(s)
  BY <1>1
<1>3. Backwards(s) \in Seq(Jobs) /\ Len(Backwards(s)) = Len(s)
  <2>1. \A i \in 1 .. Len(s) : s[Len(s) - i + 1] \in Jobs
    BY <1>1, <1>2
  <2>. QED
    BY <1>1, <2>1 DEF Backwards
<1>4. \A i \in 1 .. Len(s) : Backwards(s)[i] = s[Len(s) - i + 1]
  BY DEF Backwards
<1>5. Queue(Backwards(s))
  <2>. SUFFICES ASSUME NEW i \in 1 .. Len(s), NEW k \in 1 .. Len(s), Backwards(s)[i] = Backwards(s)[k]
                PROVE  i = k
    BY <1>3 DEF Queue
  <2>1. s[Len(s) - i + 1] = s[Len(s) - k + 1]
    BY <1>4
  <2>2. Len(s) - i + 1 = Len(s) - k + 1
    BY <1>2, <2>1 DEF Queue
  <2>. QED
    BY <1>1, <2>2
<1>6. ASSUME NEW i \in Int PROVE Nth(Backwards(s), i) = Nth(s, Len(s) - i + 1)
  <2>1. i \in 1 .. Len(s) <=> Len(s) - i + 1 \in 1 .. Len(s)
    BY <1>1
  <2>. QED
    BY <1>3, <1>4, <2>1 DEF Nth
<1>. QED
  BY <1>3, <1>5, <1>6 DEF Backwards, Reverse

\* Both ways the links lead through the queue.
LEMMA LinkedLists ==
  ASSUME NEW s, Queue(s), Linked(s)
  PROVE  List = s /\ BothWays
<1>1. From(Nth(s, 1), j_next) = s
  BY FromIs DEF Linked
<1>. DEFINE r == Backwards(s)
<1>2. Len(s) \in Nat /\ s \in Seq(Jobs)
  BY DEF Queue
<1>3. Queue(r) /\ Len(r) = Len(s) /\ r = Reverse(s) /\ \A i \in Int : Nth(r, i) = Nth(s, Len(s) - i + 1)
  BY BackwardsQueue
<1>. HIDE DEF r
<1>4. ASSUME NEW i \in 1 .. Len(r) PROVE j_prev[r[i]] = Nth(r, i + 1)
  <2>. DEFINE k == Len(s) - i + 1
  <2>1. k \in 1 .. Len(s) /\ i \in Int /\ i + 1 \in Int /\ Len(s) - (i + 1) + 1 = k - 1 /\ i \in 1 .. Len(r)
    BY <1>2, <1>3
  <2>2. r[i] = s[k]
    <3>1. Nth(r, i) = Nth(s, k)
      BY <1>3, <2>1
    <3>. QED
      BY <2>1, <3>1 DEF Nth
  <2>3. Nth(r, i + 1) = Nth(s, k - 1)
    BY <1>3, <2>1
  <2>. HIDE DEF k
  <2>. QED
    BY <2>1, <2>2, <2>3 DEF Linked
<1>5. From(Nth(r, 1), j_prev) = r
  BY <1>3, <1>4, FromIs
<1>6. Nth(r, 1) = q_tail
  <2>1. Len(s) - 1 + 1 = Len(s)
    BY <1>2
  <2>. QED
    BY <1>3, <2>1 DEF Linked
<1>. QED
  BY <1>1, <1>3, <1>5, <1>6 DEF List, BothWays, Linked

-----------------------------------------------------------------------------
\* The sequences a change leads to

LEMMA PutFirst ==
  ASSUME NEW s, Queue(s), NEW j \in Jobs, Absent(j, s), NEW r, IsFirst(r, j, s)
  PROVE  Queue(r) /\ Behind(r, j, s)
<1>1. Len(s) \in Nat /\ s \in Seq(Jobs) /\ \A i \in 1 .. Len(s) : s[i] # j /\ s[i] \in Jobs
  BY DEF Queue, Absent
<1>2. r \in Seq(Jobs) /\ Len(r) = Len(s) + 1 /\ r[1] = j
  BY <1>1 DEF IsFirst
<1>3. \A i \in 1 .. Len(s) : r[i + 1] = s[i]
  BY <1>1 DEF IsFirst
<1>4. \A i \in 1 .. Len(r) : i = 1 \/ (i - 1 \in 1 .. Len(s) /\ r[i] = s[i - 1])
  <2>. TAKE i \in 1 .. Len(r)
  <2>1. CASE i # 1
    <3>1. i - 1 \in 1 .. Len(s) /\ (i - 1) + 1 = i
      BY <1>1, <1>2, <2>1
    <3>2. r[(i - 1) + 1] = s[i - 1]
      BY <1>3, <3>1
    <3>. QED
      BY <3>1, <3>2
  <2>. QED
    BY <2>1
<1>5. ASSUME NEW i \in 1 .. Len(r), NEW k \in 1 .. Len(r), r[i] = r[k] PROVE i = k
  <2>1. CASE i # 1 /\ k # 1
    <3>1. i - 1 \in 1 .. Len(s) /\ k - 1 \in 1 .. Len(s) /\ s[i - 1] = s[k - 1]
      BY <1>4, <1>5, <2>1
    <3>2. i - 1 = k - 1
      BY <3>1 DEF Queue
    <3>. QED
      BY <3>2, <1>2, <1>1
  <2>2. CASE i = 1 /\ k # 1
    BY <1>1, <1>2, <1>4, <1>5, <2>2
  <2>3. CASE k = 1 /\ i # 1
    BY <1>1, <1>2, <1>4, <1>5, <2>3
  <2>. QED
    BY <2>1, <2>2, <2>3
<1>6. ASSUME NEW i \in Int, i # 0 PROVE Nth(r, i + 1) = Nth(s, i)
  <2>1. i + 1 \in 1 .. Len(r) <=> i \in 1 .. Len(s)
    BY <1>1, <1>2, <1>6
  <2>. QED
    BY <1>3, <2>1 DEF Nth
<1>7. Nth(r, 1) = j
  BY <1>1, <1>2 DEF Nth
<1>. QED
  BY <1>2, <1>5, <1>6, <1>7 DEF Queue, Behind

LEMMA PutLast ==
  ASSUME NEW s, Queue(s), NEW j \in Jobs, Absent(j, s), NEW r, IsLast(r, j, s)
  PROVE  Queue(r) /\ Before(r, j, s)
<1>1. Len(s) \in Nat /\ s \in Seq(Jobs) /\ \A i \in 1 .. Len(s) : s[i] # j /\ s[i] \in Jobs
  BY DEF Queue, Absent
<1>2. r \in Seq(Jobs) /\ Len(r) = Len(s) + 1 /\ r[Len(r)] = j /\ \A i \in 1 .. Len(s) : r[i] = s[i]
  BY <1>1 DEF IsLast
<1>3. \A i \in 1 .. Len(r) : i = Len(r) \/ (i \in 1 .. Len(s) /\ r[i] = s[i])
  BY <1>1, <1>2
<1>4. ASSUME NEW i \in 1 .. Len(r), NEW k \in 1 .. Len(r), r[i] = r[k] PROVE i = k
  BY <1>1, <1>2, <1>3, <1>4 DEF Queue
<1>5. ASSUME NEW i \in Int, i # Len(r) PROVE Nth(r, i) = Nth(s, i)
  <2>1. i \in 1 .. Len(r) <=> i \in 1 .. Len(s)
    BY <1>1, <1>2, <1>5
  <2>. QED
    BY <1>2, <2>1 DEF Nth
<1>6. Nth(r, Len(r)) = j
  <2>1. Len(r) \in 1 .. Len(r)
    BY <1>1, <1>2
  <2>. QED
    BY <1>2, <2>1 DEF Nth
<1>. QED
  BY <1>2, <1>4, <1>5, <1>6 DEF Queue, Before

LEMMA TakeOut ==
  ASSUME NEW s, Queue(s), NEW n \in 1 .. Len(s), NEW r, r = RemoveAt(s, n)
  PROVE  /\ Queue(r) /\ Len(r) = Len(s) - 1
         /\ \A i \in Int : Nth(r, i) = IF i < n THEN Nth(s, i) ELSE Nth(s, i + 1)
<1>1. Len(s) \in Nat /\ s \in Seq(Jobs) /\ \A i \in 1 .. Len(s) : s[i] \in Jobs
  BY DEF Queue
<1>. DEFINE a == SubSeq(s, 1, n - 1)
            b == SubSeq(s, n + 1, Len(s))
<1>2. a \in Seq(Jobs) /\ Len(a) = n - 1 /\ \A i \in 1 .. n - 1 : a[i] = s[i]
  <2>1. n - 1 \in Nat /\ n - 1 <= Len(s)
    BY <1>1
  <2>. QED
    BY <1>1, <2>1
<1>3. b \in Seq(Jobs) /\ Len(b) = Len(s) - n /\ \A i \in 1 .. Len(s) - n : b[i] = s[i + n]
  BY <1>1
<1>4. r = a \o b
  BY DEF RemoveAt
<1>. HIDE DEF a, b
<1>5. r \in Seq(Jobs) /\ Len(r) = Len(s) - 1
  BY <1>1, <1>2, <1>3, <1>4
<1>6. ASSUME NEW i \in 1 .. Len(r) PROVE r[i] = IF i < n THEN s[i] ELSE s[i + 1]
  <2>1. CASE i < n
    BY <1>1, <1>2, <1>3, <1>4, <1>5, <2>1
  <2>2. CASE ~(i < n)
    <3>1. r[i] = b[i - (n - 1)]
      BY <1>1, <1>2, <1>3, <1>4, <1>5, <2>2
    <3>2. i - (n - 1) \in 1 .. Len(s) - n /\ i - (n - 1) + n = i + 1
      BY <1>1, <1>5, <2>2
    <3>3. b[i - (n - 1)] = s[i - (n - 1) + n]
      BY <1>3, <3>2
    <3>. QED
      BY <2>2, <3>1, <3>2, <3>3
  <2>. QED
    BY <2>1, <2>2
<1>7. ASSUME NEW i \in 1 .. Len(r), NEW k \in 1 .. Len(r), r[i] = r[k] PROVE i = k
  <2>. DEFINE at(m) == IF m < n THEN m ELSE m + 1
  <2>1. at(i) \in 1 .. Len(s) /\ at(k) \in 1 .. Len(s)
    BY <1>1, <1>5
  <2>2. s[at(i)] = s[at(k)]
    BY <1>6, <1>7
  <2>3. at(i) = at(k)
    <3>. HIDE DEF at
    <3>. QED
      BY <2>1, <2>2 DEF Queue
  <2>. QED
    BY <2>3, <1>1, <1>5
<1>8. ASSUME NEW i \in Int PROVE Nth(r, i) = IF i < n THEN Nth(s, i) ELSE Nth(s, i + 1)
  <2>1. CASE i < n
    <3>1. i \in 1 .. Len(r) <=> i \in 1 .. Len(s)
      BY <1>1, <1>5, <2>1
    <3>. QED
      BY <1>6, <2>1, <3>1 DEF Nth
  <2>2. CASE ~(i < n)
    <3>1. i \in 1 .. Len(r) <=> i + 1 \in 1 .. Len(s)
      BY <1>1, <1>5, <2>2
    <3>. QED
      BY <1>6, <2>2, <3>1 DEF Nth
  <2>. QED
    BY <2>1, <2>2
<1>. QED
  BY <1>5, <1>7, <1>8 DEF Queue

-----------------------------------------------------------------------------
\* The changes

\* What the links say of the ends of the queue.
LEMMA EndsOf ==
  ASSUME NEW s, Queue(s), Linked(s)
  PROVE  /\ Len(s) \in Nat /\ s \in Seq(Jobs) /\ NULL \notin Jobs
         /\ q_head = NULL <=> Len(s) = 0
         /\ q_tail = NULL <=> Len(s) = 0
         /\ Len(s) # 0 => q_head = s[1] /\ q_tail = s[Len(s)]
         /\ \A i \in 1 .. Len(s) : s[i] \in Jobs /\ Nth(s, i) = s[i]
         /\ \A i \in Int : Nth(s, i) \in Jobs \cup {NULL} /\ (i \notin 1 .. Len(s) => Nth(s, i) = NULL)
<1>1. Len(s) \in Nat /\ s \in Seq(Jobs) /\ NULL \notin Jobs
  BY JobQueueAssumption DEF Queue
<1>2. \A i \in 1 .. Len(s) : s[i] \in Jobs /\ Nth(s, i) = s[i]
  BY <1>1 DEF Nth
<1>3. \A i \in Int : Nth(s, i) \in Jobs \cup {NULL} /\ (i \notin 1 .. Len(s) => Nth(s, i) = NULL)
  BY <1>1 DEF Nth
<1>4. Len(s) # 0 => 1 \in 1 .. Len(s) /\ Len(s) \in 1 .. Len(s)
  BY <1>1
<1>5. Len(s) = 0 => 1 \notin 1 .. Len(s) /\ Len(s) \notin 1 .. Len(s)
  BY <1>1
<1>6. q_head = Nth(s, 1) /\ q_tail = Nth(s, Len(s)) /\ Len(s) \in Int
  BY <1>1 DEF Linked
<1>. QED
  BY <1>1, <1>2, <1>3, <1>4, <1>5, <1>6

LEMMA InsertStep ==
  ASSUME LinksOK, NEW s, Queue(s), Linked(s), NEW j \in Jobs, Absent(j, s), job_insert(j)
  PROVE  LinksOK' /\ Linked(<<j>> \o s)'
<1>. SUFFICES ASSUME NEW r, IsFirst(r, j, s) PROVE LinksOK' /\ Linked(r)'
  BY DEF IsFirst
<1>1. /\ Queue(r) /\ Len(r) = Len(s) + 1 /\ Nth(r, 1) = j
      /\ \A i \in Int : i # 0 => Nth(r, i + 1) = Nth(s, i)
  <2>1. Queue(r) /\ Behind(r, j, s)
    BY PutFirst, Zenon
  <2>. QED
    BY <2>1 DEF Behind
<1>2. /\ Len(s) \in Nat /\ s \in Seq(Jobs) /\ NULL \notin Jobs
      /\ q_head = NULL <=> Len(s) = 0
      /\ Len(s) # 0 => q_head = s[1] /\ q_tail = s[Len(s)]
      /\ \A i \in 1 .. Len(s) : s[i] \in Jobs /\ Nth(s, i) = s[i]
      /\ \A i \in Int : Nth(s, i) \in Jobs \cup {NULL} /\ (i \notin 1 .. Len(s) => Nth(s, i) = NULL)
  BY EndsOf
<1>3. q_head' = Nth(r, 1)
  BY <1>1 DEF job_insert
<1>4. q_tail' = Nth(r, Len(r))
  <2>1. CASE Len(s) = 0
    BY <1>1, <1>2, <2>1 DEF job_insert
  <2>2. CASE Len(s) # 0
    <3>1. Len(s) \in Int /\ Len(s) # 0 /\ Len(s) \in 1 .. Len(s)
      BY <1>2, <2>2
    <3>. QED
      BY <1>1, <1>2, <2>2, <3>1 DEF job_insert
  <2>. QED
    BY <2>1, <2>2
<1>5. /\ \A k \in Jobs : j_next'[k] = IF k = j THEN q_head ELSE j_next[k]
      /\ \A k \in Jobs : j_prev'[k] = IF k = j THEN NULL ELSE IF k = q_head THEN j ELSE j_prev[k]
  <2>1. q_head # NULL => q_head \in Jobs /\ q_head # j
    <3>1. Len(s) # 0 => 1 \in 1 .. Len(s)
      BY <1>2
    <3>. QED
      BY <1>2, <3>1 DEF Absent
  <2>2. CASE q_head = NULL
    BY <1>2, <2>2 DEF job_insert, LinksOK
  <2>3. CASE q_head # NULL
    BY <2>1, <2>3 DEF job_insert, LinksOK
  <2>. QED
    BY <2>2, <2>3
<1>6. LinksOK'
  <2>1. q_head \in Jobs \cup {NULL}
    BY <1>2 DEF Linked
  <2>. QED
    BY <2>1 DEF job_insert, LinksOK
<1>7. ASSUME NEW i \in 1 .. Len(r) PROVE j_next'[r[i]] = Nth(r, i + 1) /\ j_prev'[r[i]] = Nth(r, i - 1)
  <2>1. r[i] = Nth(r, i)
    BY DEF Nth
  <2>2. CASE i = 1
    <3>1. r[i] = j
      BY <1>1, <2>1, <2>2
    <3>2. Nth(r, i - 1) = NULL
      BY <1>1, <1>2, <2>2 DEF Nth
    <3>3. Nth(r, i + 1) = q_head
      <4>1. 1 \in Int /\ 1 # 0
        OBVIOUS
      <4>2. Nth(r, 1 + 1) = Nth(s, 1)
        BY <1>1, <4>1, Zenon
      <4>. QED
        BY <2>2, <4>2 DEF Linked
    <3>. QED
      BY <1>5, <3>1, <3>2, <3>3
  <2>3. CASE i # 1
    <3>. DEFINE k == i - 1
    <3>1. k \in 1 .. Len(s) /\ i = k + 1 /\ k \in Int /\ k # 0 /\ i + 1 = (k + 1) + 1 /\ k + 1 \in Int /\ k + 1 # 0
      BY <1>1, <1>2, <2>3
    <3>2. r[i] = s[k] /\ Nth(r, i + 1) = Nth(s, k + 1)
      BY <1>1, <1>2, <2>1, <3>1
    <3>3. s[k] # j /\ s[k] \in Jobs
      BY <1>2, <3>1 DEF Absent
    <3>4. j_next'[r[i]] = Nth(r, i + 1)
      BY <1>5, <3>1, <3>2, <3>3 DEF Linked
    <3>5. CASE k = 1
      <4>1. s[k] = q_head
        BY <1>2, <3>1, <3>5
      <4>. QED
        BY <1>1, <1>5, <3>2, <3>3, <3>4, <3>5, <4>1
    <3>6. CASE k # 1
      <4>1. s[k] # q_head
        <5>1. 1 \in 1 .. Len(s) /\ Len(s) # 0
          BY <1>2, <3>1
        <5>. QED
          BY <1>2, <3>1, <3>6, <5>1 DEF Queue
      <4>2. Nth(r, i - 1) = Nth(s, k - 1)
        <5>1. k - 1 \in Int /\ k - 1 # 0 /\ (k - 1) + 1 = i - 1
          BY <3>1, <3>6
        <5>2. Nth(r, (k - 1) + 1) = Nth(s, k - 1)
          BY <1>1, <5>1
        <5>. QED
          BY <5>1, <5>2
      <4>. QED
        BY <1>5, <3>1, <3>2, <3>3, <3>4, <4>1, <4>2 DEF Linked
    <3>. QED
      BY <3>5, <3>6
  <2>. QED
    BY <2>2, <2>3
<1>8. Linked(r)'
  BY <1>3, <1>4, <1>7 DEF Linked
<1>. QED
  BY <1>6, <1>8

LEMMA AppendStep ==
  ASSUME LinksOK, NEW s, Queue(s), Linked(s), NEW j \in Jobs, Absent(j, s), job_append(j)
  PROVE  LinksOK' /\ Linked(Append(s, j))'
<1>. SUFFICES ASSUME NEW r, IsLast(r, j, s) PROVE LinksOK' /\ Linked(r)'
  BY DEF IsLast
<1>1. /\ Queue(r) /\ Len(r) = Len(s) + 1 /\ Nth(r, Len(r)) = j
      /\ \A i \in Int : i # Len(r) => Nth(r, i) = Nth(s, i)
  <2>1. Queue(r) /\ Before(r, j, s)
    BY PutLast, Zenon
  <2>. QED
    BY <2>1 DEF Before
<1>2. /\ Len(s) \in Nat /\ s \in Seq(Jobs) /\ NULL \notin Jobs
      /\ q_tail = NULL <=> Len(s) = 0
      /\ Len(s) # 0 => q_head = s[1] /\ q_tail = s[Len(s)]
      /\ \A i \in 1 .. Len(s) : s[i] \in Jobs /\ Nth(s, i) = s[i]
      /\ \A i \in Int : Nth(s, i) \in Jobs \cup {NULL} /\ (i \notin 1 .. Len(s) => Nth(s, i) = NULL)
  BY EndsOf
<1>3. q_tail' = Nth(r, Len(r))
  BY <1>1 DEF job_append
<1>4. q_head' = Nth(r, 1)
  <2>1. CASE Len(s) = 0
    BY <1>1, <1>2, <2>1 DEF job_append
  <2>2. CASE Len(s) # 0
    <3>1. 1 # Len(r) /\ 1 \in 1 .. Len(s)
      BY <1>1, <1>2, <2>2
    <3>2. Nth(r, 1) = s[1]
      BY <1>1, <1>2, <3>1
    <3>. QED
      BY <1>2, <2>2, <3>2 DEF job_append
  <2>. QED
    BY <2>1, <2>2
<1>5. /\ \A k \in Jobs : j_prev'[k] = IF k = j THEN q_tail ELSE j_prev[k]
      /\ \A k \in Jobs : j_next'[k] = IF k = j THEN NULL ELSE IF k = q_tail THEN j ELSE j_next[k]
  <2>1. q_tail # NULL => q_tail \in Jobs /\ q_tail # j
    <3>1. Len(s) # 0 => Len(s) \in 1 .. Len(s)
      BY <1>2
    <3>. QED
      BY <1>2, <3>1 DEF Absent
  <2>2. CASE q_tail = NULL
    BY <1>2, <2>2 DEF job_append, LinksOK
  <2>3. CASE q_tail # NULL
    BY <2>1, <2>3 DEF job_append, LinksOK
  <2>. QED
    BY <2>2, <2>3
<1>6. LinksOK'
  <2>1. q_tail \in Jobs \cup {NULL}
    BY <1>2 DEF Linked
  <2>. QED
    BY <2>1 DEF job_append, LinksOK
<1>7. ASSUME NEW i \in 1 .. Len(r) PROVE j_next'[r[i]] = Nth(r, i + 1) /\ j_prev'[r[i]] = Nth(r, i - 1)
  <2>1. r[i] = Nth(r, i)
    BY DEF Nth
  <2>2. CASE i = Len(r)
    <3>1. r[i] = j
      BY <1>1, <2>1, <2>2
    <3>2. Nth(r, i + 1) = NULL
      BY <1>1, <1>2, <2>2 DEF Nth
    <3>3. Nth(r, i - 1) = q_tail
      <4>1. i - 1 = Len(s) /\ i - 1 # Len(r)
        BY <1>1, <1>2, <2>2
      <4>2. Nth(r, i - 1) = Nth(s, i - 1)
        BY <1>1, <4>1
      <4>. QED
        BY <4>1, <4>2 DEF Linked
    <3>. QED
      BY <1>5, <3>1, <3>2, <3>3
  <2>3. CASE i # Len(r)
    <3>1. i \in 1 .. Len(s) /\ i - 1 # Len(r) /\ i - 1 \in Int /\ i \in Int
      BY <1>1, <1>2, <2>3
    <3>2. r[i] = s[i] /\ Nth(r, i - 1) = Nth(s, i - 1)
      BY <1>1, <1>2, <2>1, <2>3, <3>1
    <3>3. s[i] # j /\ s[i] \in Jobs
      BY <1>2, <3>1 DEF Absent
    <3>4. j_prev'[r[i]] = Nth(r, i - 1)
      BY <1>5, <3>1, <3>2, <3>3 DEF Linked
    <3>5. CASE i = Len(s)
      <4>1. s[i] = q_tail /\ i + 1 = Len(r)
        BY <1>1, <1>2, <3>1, <3>5
      <4>. QED
        BY <1>1, <1>5, <3>2, <3>3, <3>4, <4>1
    <3>6. CASE i # Len(s)
      <4>1. s[i] # q_tail
        <5>1. Len(s) \in 1 .. Len(s) /\ Len(s) # 0
          BY <1>2, <3>1
        <5>. QED
          BY <1>2, <3>1, <3>6, <5>1 DEF Queue
      <4>2. i + 1 # Len(r)
        BY <1>1, <1>2, <3>1, <3>6
      <4>3. Nth(r, i + 1) = Nth(s, i + 1)
        BY <1>1, <4>2
      <4>. QED
        BY <1>5, <3>1, <3>2, <3>3, <3>4, <4>1, <4>3 DEF Linked
    <3>. QED
      BY <3>5, <3>6
  <2>. QED
    BY <2>2, <2>3
<1>8. Linked(r)'
  BY <1>3, <1>4, <1>7 DEF Linked
<1>. QED
  BY <1>6, <1>8

LEMMA RemoveStep ==
  ASSUME LinksOK, NEW s, Queue(s), Linked(s), NEW n \in 1 .. Len(s), job_remove(s[n])
  PROVE  LinksOK' /\ Linked(RemoveAt(s, n))'
<1>. SUFFICES ASSUME NEW r, r = RemoveAt(s, n) PROVE LinksOK' /\ Linked(r)'
  OBVIOUS
<1>1. /\ Queue(r) /\ Len(r) = Len(s) - 1
      /\ \A i \in Int : Nth(r, i) = IF i < n THEN Nth(s, i) ELSE Nth(s, i + 1)
  BY TakeOut, Zenon
<1>2. /\ Len(s) \in Nat /\ s \in Seq(Jobs) /\ NULL \notin Jobs
      /\ Len(s) # 0 => q_head = s[1] /\ q_tail = s[Len(s)]
      /\ \A i \in 1 .. Len(s) : s[i] \in Jobs /\ Nth(s, i) = s[i]
      /\ \A i \in Int : Nth(s, i) \in Jobs \cup {NULL} /\ (i \notin 1 .. Len(s) => Nth(s, i) = NULL)
  BY EndsOf
<1>3. 1 \in 1 .. Len(s) /\ Len(s) \in 1 .. Len(s) /\ Len(s) # 0
  BY <1>2
<1>4. (s[n] = q_head <=> n = 1) /\ (s[n] = q_tail <=> n = Len(s))
  BY <1>2, <1>3 DEF Queue
<1>5. s[n] \in Jobs /\ j_next[s[n]] = Nth(s, n + 1) /\ j_prev[s[n]] = Nth(s, n - 1)
  BY <1>2 DEF Linked
<1>6. q_head' = Nth(r, 1)
  <2>1. Nth(r, 1) = IF n = 1 THEN Nth(s, 2) ELSE Nth(s, 1)
    <3>1. 1 \in Int /\ (1 < n <=> n # 1) /\ 1 + 1 = 2
      OBVIOUS
    <3>2. Nth(r, 1) = IF 1 < n THEN Nth(s, 1) ELSE Nth(s, 1 + 1)
      BY <1>1, <3>1, Zenon
    <3>. QED
      BY <3>1, <3>2
  <2>. QED
    BY <1>2, <1>3, <1>4, <1>5, <2>1 DEF job_remove
<1>7. q_tail' = Nth(r, Len(r))
  <2>1. CASE n = Len(s)
    <3>1. Nth(r, Len(r)) = Nth(s, n - 1)
      <4>1. Len(r) = n - 1 /\ Len(r) \in Int /\ Len(r) < n
        BY <1>1, <1>2, <2>1
      <4>. QED
        BY <1>1, <4>1
    <3>2. n = 1 => Nth(s, n - 1) = NULL
      BY <1>2
    <3>. QED
      BY <1>4, <1>5, <2>1, <3>1, <3>2 DEF job_remove
  <2>2. CASE n # Len(s)
    <3>1. Len(r) \in Int /\ ~(Len(r) < n) /\ Len(r) + 1 = Len(s)
      BY <1>1, <1>2, <2>2
    <3>2. Nth(r, Len(r)) = Nth(s, Len(s))
      BY <1>1, <3>1
    <3>. QED
      BY <1>4, <2>2, <3>2 DEF job_remove, Linked
  <2>. QED
    BY <2>1, <2>2
<1>8. /\ n # Len(s) => n + 1 \in 1 .. Len(s) /\ Nth(s, n + 1) = s[n + 1]
      /\ n # 1 => n - 1 \in 1 .. Len(s) /\ Nth(s, n - 1) = s[n - 1]
  <2>1. n # Len(s) => n + 1 \in 1 .. Len(s)
    BY <1>2
  <2>2. n # 1 => n - 1 \in 1 .. Len(s)
    BY <1>2
  <2>. QED
    BY <1>2, <2>1, <2>2
<1>9. /\ j_prev' = IF n = Len(s) THEN j_prev ELSE [j_prev EXCEPT ![s[n + 1]] = Nth(s, n - 1)]
      /\ j_next' = IF n = 1 THEN j_next ELSE [j_next EXCEPT ![s[n - 1]] = Nth(s, n + 1)]
  BY <1>4, <1>5, <1>8 DEF job_remove
<1>10. LinksOK'
  <2>1. Nth(s, n - 1) \in Jobs \cup {NULL} /\ Nth(s, n + 1) \in Jobs \cup {NULL}
    BY <1>2
  <2>. QED
    BY <1>9, <2>1 DEF LinksOK
<1>11. /\ \A i \in 1 .. Len(s) : j_prev'[s[i]] = IF i = n + 1 THEN Nth(s, n - 1) ELSE Nth(s, i - 1)
       /\ \A i \in 1 .. Len(s) : j_next'[s[i]] = IF i = n - 1 THEN Nth(s, n + 1) ELSE Nth(s, i + 1)
  <2>. SUFFICES ASSUME NEW i \in 1 .. Len(s)
                PROVE  /\ j_prev'[s[i]] = IF i = n + 1 THEN Nth(s, n - 1) ELSE Nth(s, i - 1)
                       /\ j_next'[s[i]] = IF i = n - 1 THEN Nth(s, n + 1) ELSE Nth(s, i + 1)
    OBVIOUS
  <2>1. /\ n # Len(s) => (s[i] = s[n + 1] <=> i = n + 1)
        /\ n # 1 => (s[i] = s[n - 1] <=> i = n - 1)
    BY <1>8 DEF Queue
  <2>2. (n = Len(s) => i # n + 1) /\ (n = 1 => i # n - 1) /\ s[i] \in Jobs
    BY <1>2
  <2>3. j_next[s[i]] = Nth(s, i + 1) /\ j_prev[s[i]] = Nth(s, i - 1)
    BY DEF Linked
  <2>. QED
    BY <1>9, <2>1, <2>2, <2>3 DEF LinksOK
<1>12. ASSUME NEW i \in 1 .. Len(r) PROVE j_next'[r[i]] = Nth(r, i + 1) /\ j_prev'[r[i]] = Nth(r, i - 1)
  <2>1. r[i] = Nth(r, i)
    BY DEF Nth
  <2>2. CASE i < n
    <3>1. i \in 1 .. Len(s) /\ i # n + 1
      BY <1>1, <1>2, <2>2
    <3>2. r[i] = s[i]
      BY <1>1, <1>2, <2>1, <2>2, <3>1
    <3>3. Nth(r, i - 1) = Nth(s, i - 1)
      BY <1>1, <2>2
    <3>4. Nth(r, i + 1) = IF i = n - 1 THEN Nth(s, n + 1) ELSE Nth(s, i + 1)
      <4>1. Nth(r, i + 1) = IF i + 1 < n THEN Nth(s, i + 1) ELSE Nth(s, (i + 1) + 1)
        <5>1. i + 1 \in Int
          OBVIOUS
        <5>. QED
          BY <1>1, <5>1, Zenon
      <4>2. (i + 1 < n <=> i # n - 1) /\ (i = n - 1 => (i + 1) + 1 = n + 1)
        BY <2>2
      <4>. QED
        BY <4>1, <4>2
    <3>. QED
      BY <1>11, <3>1, <3>2, <3>3, <3>4
  <2>3. CASE ~(i < n)
    <3>1. i + 1 \in 1 .. Len(s) /\ i + 1 # n - 1 /\ i \in Int
      BY <1>1, <1>2, <2>3
    <3>2. r[i] = s[i + 1]
      BY <1>1, <1>2, <2>1, <2>3, <3>1
    <3>3. Nth(r, i + 1) = Nth(s, (i + 1) + 1)
      <4>1. Nth(r, i + 1) = IF i + 1 < n THEN Nth(s, i + 1) ELSE Nth(s, (i + 1) + 1)
        <5>1. i + 1 \in Int
          OBVIOUS
        <5>. QED
          BY <1>1, <5>1, Zenon
      <4>2. ~(i + 1 < n)
        BY <2>3
      <4>. QED
        BY <4>1, <4>2
    <3>4. Nth(r, i - 1) = IF i + 1 = n + 1 THEN Nth(s, n - 1) ELSE Nth(s, (i + 1) - 1)
      <4>1. Nth(r, i - 1) = IF i - 1 < n THEN Nth(s, i - 1) ELSE Nth(s, (i - 1) + 1)
        <5>1. i - 1 \in Int
          OBVIOUS
        <5>. QED
          BY <1>1, <5>1, Zenon
      <4>2. (i - 1 < n <=> i = n) /\ (i + 1 = n + 1 <=> i = n) /\ (i - 1) + 1 = (i + 1) - 1
        BY <2>3
      <4>. QED
        BY <4>1, <4>2
    <3>. QED
      BY <1>11, <3>1, <3>2, <3>3, <3>4
  <2>. QED
    BY <2>2, <2>3
<1>13. Linked(r)'
  BY <1>6, <1>7, <1>12 DEF Linked
<1>. QED
  BY <1>10, <1>13

-----------------------------------------------------------------------------
\* The steps

\* A step on the list that the links form now is one on List.
LEMMA NextList == ASSUME NEW r, Queue(r), Linked(r)' PROVE List' = r
<1>1. q_head' = Nth(r, 1) /\ \A i \in 1 .. Len(r) : j_next'[r[i]] = Nth(r, i + 1)
  BY DEF Linked
<1>2. From(Nth(r, 1), j_next') = r
  BY <1>1, FromIs
<1>. QED
  BY <1>1, <1>2 DEF List

LEMMA NotListed == ASSUME NEW s, Queue(s), NEW j, j \notin ToSet(s) PROVE Absent(j, s)
<1>1. s \in Seq(Jobs) /\ DOMAIN s = 1 .. Len(s)
  BY LenProperties DEF Queue
<1>. QED
  BY <1>1 DEF Absent, ToSet

LEMMA QueueInitInv == QueueInit => QueueInv /\ AbstractList!Init
<1>. SUFFICES ASSUME QueueInit PROVE QueueInv /\ AbstractList!Init
  OBVIOUS
<1>1. Queue(<<>>) /\ Linked(<<>>) /\ SearchesOK(<<>>) /\ LinksOK
  <2>1. Queue(<<>>)
    BY DEF Queue
  <2>2. Linked(<<>>)
    BY DEF Linked, Nth, QueueInit
  <2>3. SearchesOK(<<>>) /\ LinksOK
    BY DEF SearchesOK, LinksOK, QueueInit
  <2>. QED
    BY <2>1, <2>2, <2>3
<1>2. QueueInv
  BY <1>1 DEF QueueInv
<1>3. List = <<>>
  BY <1>1, LinkedLists
<1>4. AbstractList!Init
  BY <1>3 DEF AbstractList!Init, QueueInit
<1>. QED
  BY <1>2, <1>4

\* A change leads from one queue to the next, as the abstract queue allows.
LEMMA ChangeStep ==
  ASSUME QueueInv, NEW j \in Jobs, job_insert(j) \/ job_append(j) \/ job_remove(j)
  PROVE  QueueInv' /\ [AbstractList!Next]_<<List, found>>
<1>1. PICK s : Queue(s) /\ Linked(s) /\ SearchesOK(s)
  BY DEF QueueInv
<1>2. List = s /\ LinksOK
  BY <1>1, LinkedLists DEF QueueInv
<1>3. Writing
  BY DEF job_insert, job_append, job_remove
<1>4. ASSUME NEW r, Queue(r), LinksOK', Linked(r)' PROVE QueueInv' /\ List' = r
  <2>1. SearchesOK(r)'
    BY <1>1, <1>3 DEF SearchesOK, Writing, search
  <2>2. List' = r
    BY <1>4, NextList
  <2>. QED
    BY <1>4, <2>1, <2>2 DEF QueueInv
<1>5. found' = found
  BY <1>3 DEF Writing, search
<1>6. CASE job_insert(j)
  <2>1. j \notin ToSet(s)
    BY <1>2, <1>6 DEF job_insert
  <2>2. Absent(j, s)
    BY <1>1, <2>1, NotListed
  <2>3. PICK r : r = <<j>> \o s
    OBVIOUS
  <2>4. Queue(r)
    BY <1>1, <2>2, <2>3, PutFirst DEF IsFirst
  <2>5. LinksOK' /\ Linked(r)'
    BY <1>1, <1>2, <1>6, <2>2, <2>3, InsertStep
  <2>6. QueueInv' /\ List' = r
    BY <1>4, <2>4, <2>5
  <2>7. AbstractList!Put(j)
    BY <1>2, <1>5, <2>1, <2>3, <2>6 DEF AbstractList!Put, AbstractList!ToSet, ToSet
  <2>. QED
    BY <2>6, <2>7 DEF AbstractList!Next
<1>7. CASE job_append(j)
  <2>1. j \notin ToSet(s)
    BY <1>2, <1>7 DEF job_append
  <2>2. Absent(j, s)
    BY <1>1, <2>1, NotListed
  <2>3. PICK r : r = Append(s, j)
    OBVIOUS
  <2>4. Queue(r)
    BY <1>1, <2>2, <2>3, PutLast DEF IsLast
  <2>5. LinksOK' /\ Linked(r)'
    BY <1>1, <1>2, <1>7, <2>2, <2>3, AppendStep
  <2>6. QueueInv' /\ List' = r
    BY <1>4, <2>4, <2>5
  <2>7. AbstractList!Put(j)
    BY <1>2, <1>5, <2>1, <2>3, <2>6 DEF AbstractList!Put, AbstractList!ToSet, ToSet
  <2>. QED
    BY <2>6, <2>7 DEF AbstractList!Next
<1>8. CASE job_remove(j)
  <2>1. PICK n \in 1 .. Len(s) : s[n] = j
    <3>1. s \in Seq(Jobs) /\ DOMAIN s = 1 .. Len(s)
      BY <1>1, LenProperties DEF Queue
    <3>. QED
      BY <1>2, <1>8, <3>1 DEF job_remove, ToSet
  <2>2. PICK r : r = RemoveAt(s, n)
    OBVIOUS
  <2>3. Queue(r)
    BY <1>1, <2>2, TakeOut
  <2>4. job_remove(s[n])
    BY <1>8, <2>1
  <2>5. LinksOK' /\ Linked(r)'
    BY <1>1, <1>2, <2>2, <2>4, RemoveStep
  <2>6. QueueInv' /\ List' = r
    BY <1>4, <2>3, <2>5
  <2>7. AbstractList!Leave(j)
    <3>1. j \in ToSet(s)
      BY <1>2, <1>8 DEF job_remove
    <3>2. n \in DOMAIN s
      BY <1>1, LenProperties DEF Queue
    <3>3. r = AbstractList!RemoveAt(s, n)
      BY <2>2 DEF RemoveAt, AbstractList!RemoveAt
    <3>. QED
      BY <1>2, <1>5, <2>1, <2>6, <3>1, <3>2, <3>3 DEF AbstractList!Leave, AbstractList!ToSet, ToSet
  <2>. QED
    BY <2>6, <2>7 DEF AbstractList!Next
<1>. QED
  BY <1>6, <1>7, <1>8

\* A search goes on from place to place, and ends with the answer to it.
LEMMA SearchStep ==
  ASSUME QueueInv, NEW t \in Threads, FindStart(t) \/ FindNext(t) \/ FindEnd(t)
  PROVE  QueueInv' /\ [AbstractList!Next]_<<List, found>>
<1>1. PICK s : Queue(s) /\ Linked(s) /\ SearchesOK(s)
  BY DEF QueueInv
<1>2. List = s /\ LinksOK
  BY <1>1, LinkedLists DEF QueueInv
<1>3. /\ Len(s) \in Nat /\ s \in Seq(Jobs) /\ NULL \notin Jobs /\ DOMAIN s = 1 .. Len(s)
      /\ \A i \in 1 .. Len(s) : s[i] \in Jobs /\ Nth(s, i) = s[i]
      /\ \A i \in Int : Nth(s, i) \in Jobs \cup {NULL} /\ (i \notin 1 .. Len(s) => Nth(s, i) = NULL)
  BY <1>1, EndsOf, LenProperties
<1>4. UNCHANGED links
  BY DEF FindStart, FindNext, FindEnd
<1>5. LinksOK' /\ Linked(s)' /\ List' = List
  BY <1>1, <1>2, <1>4 DEF LinksOK, Linked, List, links
<1>6. ASSUME SearchesOK(s)' PROVE QueueInv'
  BY <1>1, <1>5, <1>6 DEF QueueInv
<1>7. \A u \in readers : Searches(s, u)
  BY <1>1 DEF SearchesOK
<1>8. jp \in [Threads -> Jobs \cup {NULL}] /\ readers \subseteq Threads
  BY <1>1 DEF SearchesOK
<1>9. CASE FindStart(t)
  <2>1. q_head = Nth(s, 1) /\ q_head \in Jobs \cup {NULL}
    BY <1>1, <1>3 DEF Linked
  <2>2. jp' \in [Threads -> Jobs \cup {NULL}] /\ readers' = readers \cup {t} /\ readers' \subseteq Threads
    BY <1>8, <1>9, <2>1 DEF FindStart
  <2>3. jp'[t] = Nth(s, 1) /\ \A u \in readers : jp'[u] = jp[u]
    BY <1>8, <1>9, <2>1 DEF FindStart
  <2>4. Searches(s, t)'
    <3>1. 1 \in 1 .. Len(s) + 1 /\ 1 .. 1 - 1 = {}
      BY <1>3
    <3>. QED
      BY <2>3, <3>1 DEF Searches
  <2>5. \A u \in readers : Searches(s, u)'
    BY <1>7, <2>3 DEF Searches
  <2>6. SearchesOK(s)'
    BY <2>2, <2>4, <2>5 DEF SearchesOK
  <2>7. found' = found
    BY <1>9 DEF FindStart
  <2>. QED
    BY <1>5, <1>6, <2>6, <2>7
<1>10. CASE FindNext(t)
  <2>1. PICK i \in 1 .. Len(s) + 1 : jp[t] = Nth(s, i) /\ \A k \in 1 .. i - 1 : Owner(s[k]) # t
    BY <1>7, <1>10 DEF FindNext, Searches
  <2>2. i \in 1 .. Len(s) /\ i + 1 \in 1 .. Len(s) + 1
    BY <1>3, <1>10, <2>1 DEF FindNext
  <2>3. jp[t] = s[i] /\ Owner(s[i]) # t
    BY <1>3, <1>10, <2>1, <2>2 DEF FindNext
  <2>4. j_next[jp[t]] = Nth(s, i + 1) /\ Nth(s, i + 1) \in Jobs \cup {NULL}
    BY <1>1, <1>3, <2>2, <2>3 DEF Linked
  <2>5. jp' \in [Threads -> Jobs \cup {NULL}] /\ readers' = readers
    BY <1>8, <1>10, <2>4 DEF FindNext
  <2>6. jp'[t] = Nth(s, i + 1) /\ \A u \in readers \ {t} : jp'[u] = jp[u]
    BY <1>8, <1>10, <2>4 DEF FindNext
  <2>7. Searches(s, t)'
    <3>1. \A k \in 1 .. (i + 1) - 1 : k \in 1 .. i - 1 \/ k = i
      BY <2>2
    <3>2. \A k \in 1 .. (i + 1) - 1 : Owner(s[k]) # t
      BY <2>1, <2>3, <3>1
    <3>. QED
      BY <2>2, <2>6, <3>2 DEF Searches
  <2>8. \A u \in readers \ {t} : Searches(s, u)'
    BY <1>7, <2>6 DEF Searches
  <2>9. SearchesOK(s)'
    BY <1>8, <2>5, <2>7, <2>8 DEF SearchesOK
  <2>10. found' = found
    BY <1>10 DEF FindNext
  <2>. QED
    BY <1>5, <1>6, <2>9, <2>10
<1>11. CASE FindEnd(t)
  <2>1. PICK i \in 1 .. Len(s) + 1 : jp[t] = Nth(s, i) /\ \A k \in 1 .. i - 1 : Owner(s[k]) # t
    BY <1>7, <1>11 DEF FindEnd, Searches
  <2>2. jp' \in [Threads -> Jobs \cup {NULL}] /\ readers' = readers \ {t}
    BY <1>8, <1>11 DEF FindEnd
  <2>3. \A u \in readers \ {t} : jp'[u] = jp[u]
    BY <1>8, <1>11 DEF FindEnd
  <2>4. \A u \in readers \ {t} : Searches(s, u)'
    BY <1>7, <2>3 DEF Searches
  <2>5. SearchesOK(s)'
    BY <1>8, <2>2, <2>4 DEF SearchesOK
  <2>6. AbstractList!FirstOf(t) = jp[t]
    <3>. DEFINE its == {n \in DOMAIN s : Owner(s[n]) = t}
    <3>1. AbstractList!FirstOf(t) = IF its = {} THEN NULL ELSE s[AbstractList!Min(its)]
      BY <1>2 DEF AbstractList!FirstOf
    <3>2. CASE i = Len(s) + 1
      <4>1. its = {}
        <5>1. \A k \in 1 .. Len(s) : k \in 1 .. i - 1
          BY <1>3, <3>2
        <5>. QED
          BY <1>3, <2>1, <5>1
      <4>2. jp[t] = NULL
        BY <1>3, <2>1, <3>2
      <4>. QED
        BY <3>1, <4>1, <4>2
    <3>3. CASE i # Len(s) + 1
      <4>1. i \in 1 .. Len(s)
        BY <1>3, <3>3
      <4>2. jp[t] = s[i] /\ Owner(s[i]) = t
        BY <1>3, <1>11, <2>1, <4>1 DEF FindEnd
      <4>3. i \in its /\ its \subseteq 1 .. Len(s)
        BY <1>3, <4>1, <4>2
      <4>4. \A n \in its : i <= n
        <5>. SUFFICES ASSUME NEW n \in its, ~(i <= n) PROVE FALSE
          OBVIOUS
        <5>1. n \in 1 .. i - 1 /\ Owner(s[n]) = t
          BY <1>3, <4>1, <4>3
        <5>. QED
          BY <2>1, <5>1
      <4>. HIDE DEF its
      <4>5. \A x \in its : (\A n \in its : x <= n) => x = i
        BY <1>3, <4>3, <4>4
      <4>6. AbstractList!Min(its) = i
        BY <4>3, <4>4, <4>5 DEF AbstractList!Min
      <4>. QED
        BY <3>1, <4>2, <4>3, <4>6
    <3>. QED
      BY <3>2, <3>3
  <2>7. AbstractList!Find(t)
    BY <1>5, <1>11, <2>6 DEF FindEnd, AbstractList!Find
  <2>. QED
    BY <1>6, <2>5, <2>7 DEF AbstractList!Next
<1>. QED
  BY <1>9, <1>10, <1>11

LEMMA QueueStep ==
  QueueInv /\ [QueueNext]_queueVars => QueueInv' /\ [AbstractList!Next]_<<List, found>>
<1>. SUFFICES ASSUME QueueInv, [QueueNext]_queueVars PROVE QueueInv' /\ [AbstractList!Next]_<<List, found>>
  OBVIOUS
<1>1. CASE QueueNext
  BY <1>1, ChangeStep, SearchStep DEF QueueNext
<1>2. CASE UNCHANGED queueVars
  <2>1. QueueInv'
    BY <1>2 DEF queueVars, QueueInv, LinksOK, Linked, SearchesOK, Searches
  <2>2. List' = List /\ found' = found
    BY <1>2 DEF queueVars, List
  <2>. QED
    BY <2>1, <2>2
<1>. QED
  BY <1>1, <1>2

\* Whatever is inserted, appended and removed, and in whatever order, the
\* links back mirror the links forward.
THEOREM Mirrored == QueueSpec => []BothWays
<1>1. QueueInit => QueueInv
  BY QueueInitInv
<1>2. QueueInv /\ [QueueNext]_queueVars => QueueInv'
  BY QueueStep
<1>3. QueueInv => BothWays
  BY LinkedLists DEF QueueInv
<1>. QED
  BY <1>1, <1>2, <1>3, PTL DEF QueueSpec

\* To any number of threads the linked jobs are a sequence, and a search, of
\* many steps, returns what one look at the sequence would.
THEOREM SequenceOfJobs == QueueSpec => IsJobList
<1>1. QueueInit => QueueInv /\ AbstractList!Init
  BY QueueInitInv
<1>2. QueueInv /\ [QueueNext]_queueVars => QueueInv' /\ [AbstractList!Next]_<<List, found>>
  BY QueueStep
<1>. QED
  BY <1>1, <1>2, PTL DEF QueueSpec, IsJobList, AbstractList!Spec

-----------------------------------------------------------------------------
(***************************************************************************)
(* Heap.  Whatever callers ask for and give back, the blocks fill the heap *)
(* and those in use hold what was stored in them.                          *)
(***************************************************************************)

\* Blocks that fill the heap

\* The blocks at the addresses B, of the sizes z and in use or not as a says,
\* fill the heap from the prologue to the epilogue, at top.
Tiles(B, z, a, top) ==
    /\ top \in Nat /\ B \subseteq Nat /\ 2 \in B
    /\ \A p \in B : 2 <= p /\ p < top
    /\ \A p \in B : z[p] \in Nat /\ 2 <= z[p] /\ a[p] \in BOOLEAN
    /\ z[2] = 2 /\ a[2] = TRUE
    /\ \A p \in B : p + z[p] \in B \cup {top}
    /\ \A p, q \in B : p < q => p + z[p] <= q
    /\ \A p \in B \cup {top} : p = 2 \/ \E q \in B : q + z[q] = p

\* The words that hold their tags do so.
Words == 0 .. MAX_HEAP - 1
Tagged(B, z, a, top, m) ==
    /\ top <= MAX_HEAP
    /\ m = [w \in Words |-> m[w]]
    /\ \A p \in B : m[p - 1] = Tag(z[p], a[p]) /\ m[p + z[p] - 2] = Tag(z[p], a[p])
    /\ m[top - 1] = Tag(0, TRUE)

\* No two free blocks are neighbours,
Apart(B, z, a) == \A p \in B : p + z[p] \in B => a[p] = TRUE \/ a[p + z[p]] = TRUE

\* and those in use are what callers hold, and hold what they stored.
Held(B, z, a, m, own) ==
    /\ {p \in B : a[p] = TRUE} = DOMAIN own \cup {2} /\ 2 \notin DOMAIN own
    /\ own = [p \in DOMAIN own |-> own[p]]
    /\ \A p \in DOMAIN own : own[p] \in Nat /\ own[p] + 2 <= z[p]
    /\ \A p \in DOMAIN own : \A w \in p .. p + own[p] - 1 : m[w] = Bytes(p)

Whole(B, z, a, top, m, own) ==
    Tiles(B, z, a, top) /\ Tagged(B, z, a, top, m) /\ Apart(B, z, a) /\ Held(B, z, a, m, own)

HeapInv == \E B, z, a : Whole(B, z, a, brk, mem, owned)

LEMMA TagFields == ASSUME NEW s, NEW b PROVE Tag(s, b).size = s /\ Tag(s, b).alloc = b
BY DEF Tag

\* What the macros of mm.c read of a block.
LEMMA Reads ==
  ASSUME NEW B, NEW z, NEW a, NEW top, NEW m, Tagged(B, z, a, top, m), NEW p \in B
  PROVE  Size(m, p) = z[p] /\ Alloc(m, p) = a[p] /\ NEXT_BLKP(m, p) = p + z[p] /\ FTRP(m, p) = p + z[p] - 2
<1>1. m[p - 1] = Tag(z[p], a[p])
  BY DEF Tagged
<1>. QED
  BY <1>1, TagFields DEF Size, Alloc, HDRP, NEXT_BLKP, FTRP, DSIZE

\* The two words PutTags changes.
TwoWords(n, m, h, f, t) ==
    /\ n = [w \in Words |-> n[w]]
    /\ n[h] = t /\ n[f] = t
    /\ \A w \in Words : w = h \/ w = f \/ n[w] = m[w]

LEMMA PutTagsAt ==
  ASSUME NEW m, m = [w \in Words |-> m[w]], NEW p, NEW s, NEW b,
         NEW h \in Words, h = p - 1, NEW f \in Words, f = p + s - 2,
         NEW n, n = PutTags(m, p, s, b)
  PROVE  TwoWords(n, m, h, f, Tag(s, b))
<1>. DEFINE k == [m EXCEPT ![h] = Tag(s, b)]
<1>1. n = [k EXCEPT ![f] = Tag(s, b)]
  BY DEF PutTags, HDRP, DSIZE
<1>2. DOMAIN m = Words
  OBVIOUS
<1>. QED
  BY <1>1, <1>2 DEF TwoWords

\* Every block with what is before and behind it, for the provers.
LEMMA TilesAt ==
  ASSUME NEW B, NEW z, NEW a, NEW top, Tiles(B, z, a, top), NEW p \in B
  PROVE  /\ p \in Nat /\ top \in Nat /\ z[p] \in Nat /\ 2 <= p /\ 2 <= z[p] /\ p + z[p] <= top
         /\ p + z[p] \in B \cup {top} /\ p < top /\ a[p] \in BOOLEAN
         /\ \A q \in B : q \in Nat /\ z[q] \in Nat /\ (q < p => q + z[q] <= p) /\ (p < q => p + z[p] <= q)
<1>1. p + z[p] <= top
  <2>1. CASE p + z[p] = top
    BY <2>1 DEF Tiles
  <2>2. CASE p + z[p] \in B
    BY <2>2 DEF Tiles
  <2>. QED
    BY <2>1, <2>2 DEF Tiles
<1>. QED
  BY <1>1 DEF Tiles

\* The words between x and y, where blocks begin, become one block, in use
\* or not as b says.
Covered(B, z, a, x, y, b, C, u, c) ==
    /\ C = {p \in B : p < x \/ y <= p} \cup {x}
    /\ \A p \in C : u[p] = IF p = x THEN y - x ELSE z[p]
    /\ \A p \in C : c[p] = IF p = x THEN b ELSE a[p]

\* Where the words of n are those of m: not below h nor above l, and so on.
Outside(n, m, h, l) == \A w \in Words : w < h \/ l < w => n[w] = m[w]
BelowSame(n, m, h) == \A w \in Words : w < h => n[w] = m[w]
AllBut(n, m, h, f) == \A w \in Words : w = h \/ w = f \/ n[w] = m[w]

LEMMA JoinTiles ==
  ASSUME NEW B, NEW z, NEW a, NEW top, Tiles(B, z, a, top),
         NEW x \in Nat, x \in B, x # 2, NEW y \in Nat, y \in B \cup {top}, x < y, NEW b \in BOOLEAN,
         NEW C, NEW u, NEW c, Covered(B, z, a, x, y, b, C, u, c)
  PROVE  Tiles(C, u, c, top)
<1>. USE DEF Covered
<1>1. top \in Nat /\ x \in Nat /\ y \in Nat /\ 2 <= x /\ x < top /\ y <= top /\ B \subseteq Nat
  BY DEF Tiles
<1>2. x + z[x] <= y /\ z[x] \in Nat /\ 2 <= z[x]
  BY TilesAt DEF Tiles
<1>3. \A p \in C : p = x \/ (p \in B /\ p # x /\ (p < x \/ y <= p) /\ u[p] = z[p] /\ c[p] = a[p])
  OBVIOUS
<1>4. x \in C /\ u[x] = y - x /\ c[x] = b /\ 2 <= y - x /\ y - x \in Nat
  BY <1>1, <1>2
<1>5. C \subseteq B
  BY <1>1
<1>6. 2 \in C /\ u[2] = 2 /\ c[2] = TRUE
  <2>1. 2 \in B /\ 2 < x
    BY <1>1 DEF Tiles
  <2>2. 2 \in C
    BY <2>1
  <2>. QED
    BY <1>3, <2>1, <2>2 DEF Tiles
<1>7. \A p \in C : 2 <= p /\ p < top /\ p \in Nat
  BY <1>5 DEF Tiles
<1>8. \A p \in C : u[p] \in Nat /\ 2 <= u[p] /\ c[p] \in BOOLEAN
  BY <1>3, <1>4 DEF Tiles
<1>9. y \in C \cup {top}
  BY <1>1
<1>10. ASSUME NEW p \in C PROVE p + u[p] \in C \cup {top}
  <2>1. CASE p = x
    BY <1>1, <1>4, <1>9, <2>1
  <2>2. CASE p # x
    <3>1. p \in B /\ (p < x \/ y <= p) /\ u[p] = z[p] /\ p \in Nat /\ z[p] \in Nat /\ 2 <= z[p]
      BY <1>3, <2>2 DEF Tiles
    <3>2. p + z[p] \in B \cup {top}
      BY <3>1 DEF Tiles
    <3>3. p < x => p + z[p] <= x
      BY <3>1 DEF Tiles
    <3>4. p + z[p] = x \/ p + z[p] < x \/ y <= p + z[p]
      BY <1>1, <3>1, <3>3
    <3>. DEFINE e == p + z[p]
    <3>5. e \in C \cup {top}
      <4>. HIDE DEF e
      <4>1. e \in B \cup {top} /\ (e = x \/ e < x \/ y <= e)
        BY <3>2, <3>4 DEF e
      <4>. QED
        BY <4>1
    <3>. QED
      BY <3>1, <3>5
  <2>. QED
    BY <2>1, <2>2
<1>11. ASSUME NEW p \in C, NEW q \in C, p < q PROVE p + u[p] <= q
  <2>1. CASE p = x
    BY <1>1, <1>3, <1>4, <1>5, <1>11, <2>1
  <2>2. CASE p # x
    <3>1. p \in B /\ q \in B /\ u[p] = z[p]
      BY <1>3, <1>5, <2>2
    <3>. QED
      BY <1>11, <3>1 DEF Tiles
  <2>. QED
    BY <2>1, <2>2
<1>12. ASSUME NEW p \in C \cup {top}, p # 2 PROVE \E q \in C : q + u[q] = p
  <2>1. CASE p = y
    <3>1. x + u[x] = y
      BY <1>1, <1>4
    <3>. QED
      BY <1>4, <2>1, <3>1
  <2>2. CASE p # y
    <3>1. PICK q \in B : q + z[q] = p
      BY <1>5, <1>12 DEF Tiles
    <3>2. q \in Nat /\ z[q] \in Nat /\ 2 <= z[q] /\ p \in Nat
      BY <1>1, <1>5, <3>1 DEF Tiles
    <3>3. q < x \/ y <= q
      <4>. SUFFICES ASSUME x <= q, q < y PROVE FALSE
        BY <1>1, <3>2
      <4>1. p <= y
        <5>1. q + z[q] <= y
          BY TilesAt DEF Tiles
        <5>. QED
          BY <3>1, <5>1
      <4>2. x < p
        BY <1>1, <3>1, <3>2
      <4>3. p = top \/ y <= p
        BY <1>1, <1>3, <4>2
      <4>. QED
        BY <1>1, <2>2, <3>2, <4>1, <4>3
    <3>4. q \in C /\ q # x
      BY <1>1, <3>2, <3>3
    <3>5. u[q] = z[q]
      BY <1>3, <3>4
    <3>. QED
      BY <3>1, <3>4, <3>5
  <2>. QED
    BY <2>1, <2>2
<1>. QED
  BY <1>1, <1>6, <1>7, <1>8, <1>10, <1>11, <1>12 DEF Tiles

LEMMA JoinTagged ==
  ASSUME NEW B, NEW z, NEW a, NEW top \in Nat, Tiles(B, z, a, top),
         NEW x \in Nat, x \in B, x # 2, NEW y \in Nat, y \in B \cup {top}, x < y, NEW b \in BOOLEAN,
         NEW C, NEW u, NEW c, Covered(B, z, a, x, y, b, C, u, c),
         NEW m, Tagged(B, z, a, top, m), NEW n, n = PutTags(m, x, y - x, b)
  PROVE  Tagged(C, u, c, top, n) /\ AllBut(n, m, x - 1, y - 2)
<1>. USE DEF Covered, AllBut
<1>1. /\ top \in Nat /\ x \in Nat /\ y \in Nat /\ 2 <= x /\ x < top /\ y <= top /\ B \subseteq Nat
      /\ top <= MAX_HEAP /\ MAX_HEAP \in Nat /\ m = [w \in Words |-> m[w]]
  BY HeapAssumption DEF Tiles, Tagged
<1>2. x + z[x] <= y /\ z[x] \in Nat /\ 2 <= z[x]
  BY TilesAt DEF Tiles
<1>4a. x + 2 <= y
  <2>1. PICK k \in Nat : k = z[x]
    BY <1>2
  <2>2. x + k <= y /\ 2 <= k
    BY <1>2, <2>1
  <2>. QED
    BY ONLY <2>2, x \in Nat, y \in Nat, k \in Nat
<1>3. y - x \in Nat /\ x - 1 \in Words /\ x + (y - x) - 2 \in Words /\ x + (y - x) - 2 = y - 2
  <2>. DEFINE d == y - x
  <2>1. d \in Nat /\ 2 <= d /\ x + d = y
    BY ONLY <1>4a, x \in Nat, y \in Nat
  <2>. HIDE DEF d
  <2>2. x - 1 \in Words /\ x + d - 2 \in Words /\ x + d - 2 = y - 2
    BY ONLY <2>1, <1>1, y \in Nat, x \in Nat DEF Words
  <2>. QED
    BY <2>1, <2>2 DEF d
<1>4. /\ n = [w \in Words |-> n[w]]
      /\ n[x - 1] = Tag(y - x, b) /\ n[y - 2] = Tag(y - x, b)
      /\ \A w \in Words : w = x - 1 \/ w = y - 2 \/ n[w] = m[w]
  <2>. DEFINE h == x - 1
              f == y - 2
  <2>1. h \in Words /\ h = x - 1 /\ f \in Words /\ f = x + (y - x) - 2 /\ m = [w \in Words |-> m[w]]
    BY <1>1, <1>3
  <2>. HIDE DEF h, f
  <2>2. TwoWords(n, m, h, f, Tag(y - x, b))
    BY <2>1, PutTagsAt
  <2>. QED
    BY <2>2 DEF h, f, TwoWords
<1>5. ASSUME NEW p \in C PROVE n[p - 1] = Tag(u[p], c[p]) /\ n[p + u[p] - 2] = Tag(u[p], c[p])
  <2>1. CASE p = x
    BY <1>3, <1>4, <2>1
  <2>2. CASE p # x
    <3>1. /\ p \in B /\ (p < x \/ y <= p) /\ u[p] = z[p] /\ c[p] = a[p]
          /\ p \in Nat /\ z[p] \in Nat /\ 2 <= z[p] /\ 2 <= p /\ p + z[p] <= top
      BY <2>2, TilesAt
    <3>2. p < x => p + z[p] <= x
      BY <3>1 DEF Tiles
    <3>3. /\ p - 1 \in Words /\ p - 1 # x - 1 /\ p - 1 # y - 2
          /\ p + z[p] - 2 \in Words /\ p + z[p] - 2 # x - 1 /\ p + z[p] - 2 # y - 2
      <4>1. PICK e \in Nat : e = z[p]
        BY <3>1
      <4>2. /\ p \in Nat /\ 2 <= e /\ 2 <= p /\ p + e <= top /\ (p < x => p + e <= x) /\ (p < x \/ y <= p)
            /\ top \in Nat /\ x \in Nat /\ y \in Nat /\ x + 2 <= y /\ top <= MAX_HEAP /\ MAX_HEAP \in Nat
        BY <1>1, <1>4a, <3>1, <3>2, <4>1
      <4>3. /\ p - 1 \in Words /\ p - 1 # x - 1 /\ p - 1 # y - 2
            /\ p + e - 2 \in Words /\ p + e - 2 # x - 1 /\ p + e - 2 # y - 2
        BY ONLY e \in Nat, <4>2 DEF Words
      <4>. QED
        BY <4>1, <4>3
    <3>4. n[p - 1] = m[p - 1] /\ n[p + z[p] - 2] = m[p + z[p] - 2]
      BY <1>4, <3>3
    <3>. QED
      BY <3>1, <3>4 DEF Tagged
  <2>. QED
    BY <2>1, <2>2
<1>6. n[top - 1] = Tag(0, TRUE)
  <2>1. top - 1 \in Words /\ top - 1 # x - 1 /\ top - 1 # y - 2
    BY <1>1 DEF Words
  <2>. QED
    BY <1>4, <2>1 DEF Tagged
<1>. QED
  BY <1>1, <1>4, <1>5, <1>6 DEF Tagged

\* The block at x is cut in two, and the part of size r at y is free.
Cut(B, z, a, x, s, y, r, C, u, c) ==
    /\ y = x + s /\ r = z[x] - s /\ C = B \cup {y}
    /\ \A p \in C : u[p] = IF p = x THEN s ELSE IF p = y THEN r ELSE z[p]
    /\ \A p \in C : c[p] = IF p = x THEN TRUE ELSE IF p = y THEN FALSE ELSE a[p]

LEMMA CutTiles ==
  ASSUME NEW B, NEW z, NEW a, NEW top \in Nat, Tiles(B, z, a, top),
         NEW x \in Nat, x \in B, x # 2, NEW s \in Nat, 2 <= s, s + 2 <= z[x],
         NEW y \in Nat, NEW r \in Nat, NEW C, NEW u, NEW c, Cut(B, z, a, x, s, y, r, C, u, c)
  PROVE  Tiles(C, u, c, top) /\ y \notin B
<1>. USE DEF Cut
<1>1. /\ top \in Nat /\ x \in Nat /\ z[x] \in Nat /\ 2 <= x /\ x < top /\ x + z[x] <= top /\ B \subseteq Nat
      /\ x + z[x] \in B \cup {top}
  BY TilesAt DEF Tiles
<1>2. y \in Nat /\ x < y /\ y < x + z[x] /\ x + s = y /\ y # x /\ y + 2 <= x + z[x]
  BY <1>1
<1>3. y \notin B
  BY <1>1, <1>2 DEF Tiles
<1>4. C = B \cup {y} /\ u[x] = s /\ u[y] = r /\ c[x] = TRUE /\ c[y] = FALSE
  BY <1>2
<1>5. \A p \in B : p = x \/ (p # y /\ u[p] = z[p] /\ c[p] = a[p])
  BY <1>3
<1>6. y + u[y] = x + z[x] /\ x + u[x] = y /\ u[y] \in Nat /\ 2 <= u[y]
  BY <1>1, <1>4
<1>7. 2 \in C /\ u[2] = 2 /\ c[2] = TRUE
  BY <1>4, <1>5 DEF Tiles
<1>8. \A p \in C : 2 <= p /\ p < top /\ p \in Nat
  BY <1>1, <1>2, <1>4 DEF Tiles
<1>9. \A p \in C : u[p] \in Nat /\ 2 <= u[p] /\ c[p] \in BOOLEAN
  BY <1>4, <1>5, <1>6 DEF Tiles
<1>10. \A p \in C : p + u[p] \in C \cup {top}
  <2>1. \A p \in B : p = x \/ p + u[p] \in C \cup {top}
    BY <1>4, <1>5 DEF Tiles
  <2>. QED
    BY <1>1, <1>4, <1>6, <2>1
<1>11. ASSUME NEW p \in C, NEW q \in C, p < q PROVE p + u[p] <= q
  <2>1. CASE p = x /\ q = y
    BY <1>6, <2>1, <1>2
  <2>2. CASE p = x /\ q # y
    <3>1. q \in B /\ x + z[x] <= q /\ q \in Nat
      BY <1>1, <1>4, <1>11, <2>2 DEF Tiles
    <3>. QED
      BY <1>1, <1>2, <1>6, <2>2, <3>1
  <2>3. CASE p = y
    <3>1. q \in B /\ q \in Nat /\ x < q
      BY <1>1, <1>2, <1>4, <1>11, <2>3
    <3>2. x + z[x] <= q
      BY <3>1 DEF Tiles
    <3>. QED
      BY <1>6, <2>3, <3>2
  <2>4. CASE p # x /\ p # y /\ q # y
    BY <1>4, <1>5, <1>11, <2>4 DEF Tiles
  <2>5. CASE p # x /\ p # y /\ q = y
    <3>1. p \in B /\ p \in Nat /\ u[p] = z[p] /\ z[p] \in Nat /\ p < x + z[x]
      BY <1>1, <1>2, <1>4, <1>5, <1>11, <2>5 DEF Tiles
    <3>2. p < x
      <4>. SUFFICES ASSUME x < p PROVE FALSE
        BY <1>1, <2>5, <3>1
      <4>1. x + z[x] <= p
        BY <3>1 DEF Tiles
      <4>. QED
        BY <1>1, <3>1, <4>1
    <3>3. p + z[p] <= x
      BY <3>1, <3>2 DEF Tiles
    <3>. QED
      BY <1>1, <1>2, <2>5, <3>1, <3>3
  <2>. QED
    BY <2>1, <2>2, <2>3, <2>4, <2>5
<1>12. ASSUME NEW p \in C \cup {top}, p # 2 PROVE \E q \in C : q + u[q] = p
  <2>1. CASE p = y
    BY <1>4, <1>6, <2>1
  <2>2. CASE p # y
    <3>1. PICK q \in B : q + z[q] = p
      BY <1>4, <1>12, <2>2 DEF Tiles
    <3>2. CASE q = x
      BY <1>4, <1>6, <3>1, <3>2
    <3>3. CASE q # x
      BY <1>4, <1>5, <3>1, <3>3
    <3>. QED
      BY <3>2, <3>3
  <2>. QED
    BY <2>1, <2>2
<1>13. Tiles(C, u, c, top)
  BY <1>1, <1>7, <1>8, <1>9, <1>10, <1>11, <1>12 DEF Tiles
<1>. QED
  BY <1>3, <1>13

CutWords(m, x, s, y, r) == PutTags(PutTags(m, x, s, TRUE), y, r, FALSE)

LEMMA CutTagged ==
  ASSUME NEW B, NEW z, NEW a, NEW top \in Nat, Tiles(B, z, a, top),
         NEW x \in Nat, x \in B, x # 2, NEW s \in Nat, 2 <= s, s + 2 <= z[x],
         NEW y \in Nat, NEW r \in Nat, NEW C, NEW u, NEW c, Cut(B, z, a, x, s, y, r, C, u, c),
         NEW e \in Nat, e = x + z[x],
         NEW m, Tagged(B, z, a, top, m),
         NEW n, n = CutWords(m, x, s, y, r)
  PROVE  Tagged(C, u, c, top, n) /\ Outside(n, m, x - 1, e - 2)
<1>0. y = x + s /\ r = z[x] - s
  BY DEF Cut
<1>1. e = x + z[x] /\ e <= top
  BY TilesAt DEF Tiles
<1>2. PICK h \in Nat : h = x - 1
  <2>1. 2 <= x
    BY DEF Tiles
  <2>. QED
    BY <2>1
<1>3. top <= MAX_HEAP /\ MAX_HEAP \in Nat
  BY HeapAssumption DEF Tagged
<1>3m. m = [w \in Words |-> m[w]]
  BY DEF Tagged
<1>4. /\ y + r = e /\ x + s = y /\ y + 2 <= e /\ h + 1 = x /\ x + 2 <= y /\ 3 <= x
  <2>1. z[x] \in Nat /\ 2 <= x
    BY DEF Tiles
  <2>2. PICK k \in Nat : k = z[x]
    BY <2>1
  <2>3. r = k - s /\ e = x + k /\ s + 2 <= k
    BY <1>0, <1>1, <2>2
  <2>. QED
    BY ONLY <2>1, <2>3, k \in Nat, s \in Nat, 2 <= s, y \in Nat, <1>0, <1>1, <1>2, x \in Nat, x # 2,
            r \in Nat, e \in Nat, h \in Nat
<1>5. PICK f \in Nat : f = y - 2
  BY <1>4
<1>6. PICK g \in Nat : g = y - 1
  BY <1>4
<1>7. PICK l \in Nat : l = e - 2
  BY <1>4
<1>8. h \in Words /\ f \in Words /\ g \in Words /\ l \in Words /\ h < g /\ f < g /\ h < l /\ f < l /\ g < l
  BY ONLY <1>1, <1>3, <1>4, <1>5, <1>6, <1>7, e \in Nat, x \in Nat, y \in Nat, top \in Nat, h \in Nat, f \in Nat,
          g \in Nat, l \in Nat DEF Words
<1>9. f = x + s - 2 /\ l = y + r - 2
  BY <1>4, <1>5, <1>7
<1>. DEFINE k == PutTags(m, x, s, TRUE)
<1>10. /\ k = [w \in Words |-> k[w]]
       /\ k[h] = Tag(s, TRUE) /\ k[f] = Tag(s, TRUE)
       /\ \A w \in Words : w = h \/ w = f \/ k[w] = m[w]
  <2>. HIDE DEF k
  <2>1. k = PutTags(m, x, s, TRUE)
    BY DEF k
  <2>2. TwoWords(k, m, h, f, Tag(s, TRUE))
    BY ONLY <1>2, <1>3m, <1>8, <1>9, <2>1, PutTagsAt, Zenon
  <2>. QED
    BY <2>2 DEF TwoWords
<1>11. /\ n = [w \in Words |-> n[w]]
       /\ n[g] = Tag(r, FALSE) /\ n[l] = Tag(r, FALSE)
       /\ \A w \in Words : w = g \/ w = l \/ n[w] = k[w]
  <2>. HIDE DEF k
  <2>1. n = PutTags(k, y, r, FALSE)
    BY DEF k, CutWords
  <2>2. TwoWords(n, k, g, l, Tag(r, FALSE))
    BY ONLY <1>6, <1>8, <1>9, <1>10, <2>1, PutTagsAt, Zenon
  <2>. QED
    BY <2>2 DEF TwoWords
<1>. HIDE DEF k
<1>12. \A w \in Words : w = h \/ w = f \/ w = g \/ w = l \/ n[w] = m[w]
  BY <1>10, <1>11
<1>13. n[h] = Tag(s, TRUE) /\ n[f] = Tag(s, TRUE)
  <2>1. h # g /\ h # l /\ f # g /\ f # l
    BY <1>8
  <2>. QED
    BY <1>8, <1>10, <1>11, <2>1
<1>14. \A w \in Words : w < h \/ l < w => n[w] = m[w]
  <2>. TAKE w \in Words
  <2>. HAVE w < h \/ l < w
  <2>1. w # h /\ w # f /\ w # g /\ w # l
    <3>1. w \in Int /\ h <= f
      BY ONLY <1>2, <1>4, <1>5, w \in Words, <1>3, x \in Nat, y \in Nat DEF Words
    <3>. QED
      BY <1>8, <3>1
  <2>. QED
    BY <1>12, <2>1
<1>. USE DEF Cut
<1>15. ASSUME NEW p \in C PROVE n[p - 1] = Tag(u[p], c[p]) /\ n[p + u[p] - 2] = Tag(u[p], c[p])
  <2>1. CASE p = x
    <3>1. u[p] = s /\ c[p] = TRUE /\ p - 1 = h /\ p + s - 2 = f
      BY <1>2, <1>9, <2>1
    <3>. QED
      BY <1>13, <3>1
  <2>2. CASE p = y
    <3>1. y # x
      BY <1>4
    <3>2. u[p] = r /\ c[p] = FALSE /\ p - 1 = g /\ p + r - 2 = l
      BY <1>6, <1>9, <2>2, <3>1
    <3>. QED
      BY <1>11, <3>2
  <2>3. CASE p # x /\ p # y
    <3>1. p \in B /\ u[p] = z[p] /\ c[p] = a[p]
      BY <2>3
    <3>2. PICK d \in Nat : d = z[p]
      BY <3>1 DEF Tiles
    <3>3. /\ p \in Nat /\ 2 <= d /\ 2 <= p /\ p + d <= top
          /\ (p < x => p + d <= x) /\ (x < p => e <= p)
      BY <1>1, <3>1, <3>2, TilesAt
    <3>4. /\ p - 1 \in Words /\ (p - 1 < h \/ l < p - 1)
          /\ p + d - 2 \in Words /\ (p + d - 2 < h \/ l < p + d - 2)
      BY ONLY <1>1, <1>2, <1>3, <1>4, <1>7, <2>3, <3>3, d \in Nat, e \in Nat, x \in Nat, top \in Nat, h \in Nat,
              l \in Nat DEF Words
    <3>5. n[p - 1] = m[p - 1] /\ n[p + d - 2] = m[p + d - 2]
      BY <1>14, <3>4
    <3>6. m[p - 1] = Tag(z[p], a[p]) /\ m[p + z[p] - 2] = Tag(z[p], a[p])
      BY <3>1 DEF Tagged
    <3>. QED
      BY <3>1, <3>2, <3>5, <3>6
  <2>. QED
    BY <2>1, <2>2, <2>3
<1>16. n[top - 1] = Tag(0, TRUE)
  <2>1. top - 1 \in Words /\ l < top - 1
    BY ONLY <1>1, <1>3, <1>4, <1>7, e \in Nat, top \in Nat, l \in Nat, x \in Nat, y \in Nat DEF Words
  <2>2. m[top - 1] = Tag(0, TRUE)
    BY DEF Tagged
  <2>. QED
    BY <1>14, <2>1, <2>2
<1>17. Tagged(C, u, c, top, n)
  BY <1>3, <1>3m, <1>11, <1>15, <1>16 DEF Tagged
<1>18. Outside(n, m, x - 1, e - 2)
  <2>1. e - 2 = l /\ x - 1 = h
    BY <1>2, <1>7
  <2>. QED
    BY ONLY <1>14, <2>1, Zenon DEF Outside
<1>. QED
  BY <1>17, <1>18

\* The heap grows: the old epilogue becomes the header of a free block.
Grown(B, z, a, top, s, C, u, c) ==
    /\ C = B \cup {top}
    /\ \A p \in C : u[p] = IF p = top THEN s ELSE z[p]
    /\ \A p \in C : c[p] = IF p = top THEN FALSE ELSE a[p]

LEMMA GrowTiles ==
  ASSUME NEW B, NEW z, NEW a, NEW top \in Nat, Tiles(B, z, a, top), 2 < top,
         NEW s \in Nat, 2 <= s, NEW e \in Nat, e = top + s,
         NEW C, NEW u, NEW c, Grown(B, z, a, top, s, C, u, c)
  PROVE  Tiles(C, u, c, e)
<1>. USE DEF Grown
<1>0. PICK k \in Nat : k = e /\ top < k
  BY ONLY e \in Nat, top \in Nat, s \in Nat, 2 <= s, e = top + s
<1>1. \A p \in B : p < top /\ p # top /\ u[p] = z[p] /\ c[p] = a[p] /\ p \in Nat /\ p < e
  <2>1. \A p \in B : p \in Nat /\ p < top
    BY DEF Tiles
  <2>2. \A p \in B : p # top /\ p \in C
    BY <2>1
  <2>3. \A p \in Nat : p < top => p < k
    BY ONLY k \in Nat, top \in Nat, <1>0
  <2>. QED
    BY <1>0, <2>1, <2>2, <2>3
<1>2. top \in C /\ u[top] = s /\ c[top] = FALSE /\ top < e
  <2>1. top \in C
    OBVIOUS
  <2>. QED
    BY <1>0, <2>1
<1>3. \A p, q \in C : p < q => p + u[p] <= q
  <2>. SUFFICES ASSUME NEW p \in C, NEW q \in C, p < q PROVE p + u[p] <= q
    OBVIOUS
  <2>1. p \in B
    BY <1>1
  <2>2. CASE q = top
    BY <1>1, <2>1, <2>2, TilesAt
  <2>3. CASE q # top
    BY <1>1, <2>1, <2>3 DEF Tiles
  <2>. QED
    BY <2>2, <2>3
<1>4. \A p \in C : p + u[p] \in C \cup {e}
  BY <1>1, <1>2 DEF Tiles
<1>5. \A p \in C \cup {e} : p = 2 \/ \E q \in C : q + u[q] = p
  <2>1. ASSUME NEW p \in B \cup {top}, p # 2 PROVE \E q \in C : q + u[q] = p
    <3>1. PICK q \in B : q + z[q] = p
      BY <2>1 DEF Tiles
    <3>. QED
      BY <1>1, <3>1
  <2>2. top + u[top] = e
    BY <1>2
  <2>. QED
    BY <1>2, <2>1, <2>2
<1>6. \A p \in C : u[p] \in Nat /\ 2 <= u[p] /\ c[p] \in BOOLEAN /\ 2 <= p /\ p < e /\ p \in Nat
  <2>1. \A p \in B : z[p] \in Nat /\ 2 <= z[p] /\ a[p] \in BOOLEAN /\ 2 <= p
    BY DEF Tiles
  <2>2. \A p \in C : p \in B \/ p = top
    OBVIOUS
  <2>3. 2 <= top
    OBVIOUS
  <2>. QED
    BY ONLY <1>1, <1>2, <2>1, <2>2, <2>3, top \in Nat, s \in Nat, 2 <= s
<1>7. 2 \in C /\ u[2] = 2 /\ c[2] = TRUE
  BY <1>1 DEF Tiles
<1>. QED
  BY <1>3, <1>4, <1>5, <1>6, <1>7 DEF Tiles

GrownWords(m, top, s, e) == [PutTags(m, top, s, FALSE) EXCEPT ![e - 1] = Tag(0, TRUE)]

LEMMA GrowTagged ==
  ASSUME NEW B, NEW z, NEW a, NEW top \in Nat, Tiles(B, z, a, top), 2 < top,
         NEW s \in Nat, 2 <= s, NEW e \in Nat, e = top + s, e <= MAX_HEAP,
         NEW C, NEW u, NEW c, Grown(B, z, a, top, s, C, u, c),
         NEW m, Tagged(B, z, a, top, m),
         NEW n, n = GrownWords(m, top, s, e)
  PROVE  Tagged(C, u, c, e, n) /\ BelowSame(n, m, top - 1)
<1>. USE DEF Grown, BelowSame
<1>1. PICK h \in Nat : h = top - 1
  OBVIOUS
<1>2. PICK f \in Nat : f = e - 2
  OBVIOUS
<1>3. PICK g \in Nat : g = e - 1
  OBVIOUS
<1>4. MAX_HEAP \in Nat /\ e <= MAX_HEAP /\ e = top + s /\ 2 <= s
  BY HeapAssumption
<1>5. h \in Words /\ f \in Words /\ g \in Words /\ f < g /\ h < f
  BY ONLY <1>1, <1>2, <1>3, <1>4, h \in Nat, f \in Nat, g \in Nat, e \in Nat, top \in Nat, s \in Nat, 2 < top DEF Words
<1>6. f = top + s - 2 /\ m = [w \in Words |-> m[w]]
  BY <1>2, <1>4 DEF Tagged
<1>7. PICK k : k = PutTags(m, top, s, FALSE)
  OBVIOUS
<1>8. TwoWords(k, m, h, f, Tag(s, FALSE))
  BY ONLY <1>1, <1>5, <1>6, <1>7, PutTagsAt, Zenon
<1>9. k = [w \in Words |-> k[w]] /\ k[h] = Tag(s, FALSE) /\ k[f] = Tag(s, FALSE) /\ \A w \in Words : w = h \/ w = f \/ k[w] = m[w]
  BY <1>8 DEF TwoWords
<1>10. n = [k EXCEPT ![g] = Tag(0, TRUE)]
  BY <1>3, <1>7 DEF GrownWords
<1>11. n = [w \in Words |-> n[w]] /\ n[g] = Tag(0, TRUE) /\ \A w \in Words : w = g \/ n[w] = k[w]
  BY ONLY <1>5, <1>9, <1>10
<1>12. n[h] = Tag(s, FALSE) /\ n[f] = Tag(s, FALSE)
  <2>1. h # g /\ f # g
    BY <1>5
  <2>. QED
    BY <1>5, <1>9, <1>11, <2>1
<1>13. \A w \in Words : w < h => n[w] = m[w]
  <2>. TAKE w \in Words
  <2>. HAVE w < h
  <2>1. w \in Int
    BY <1>4 DEF Words
  <2>2. w # h /\ w # f /\ w # g
    BY <1>5, <2>1
  <2>. QED
    BY <1>9, <1>11, <2>2
<1>14. ASSUME NEW p \in C PROVE n[p - 1] = Tag(u[p], c[p]) /\ n[p + u[p] - 2] = Tag(u[p], c[p])
  <2>1. CASE p = top
    <3>1. u[p] = s /\ c[p] = FALSE /\ p - 1 = h /\ p + s - 2 = f
      BY <1>1, <1>6, <2>1
    <3>. QED
      BY <1>12, <3>1
  <2>2. CASE p # top
    <3>1. p \in B /\ u[p] = z[p] /\ c[p] = a[p]
      BY <2>2
    <3>2. PICK d \in Nat : d = z[p]
      BY <3>1 DEF Tiles
    <3>3. p \in Nat /\ 2 <= d /\ 2 <= p /\ p + d <= top
      BY <3>1, <3>2, TilesAt
    <3>4. p - 1 \in Words /\ p - 1 < h /\ p + d - 2 \in Words /\ p + d - 2 < h
      BY ONLY <1>1, <1>4, <1>5, <3>3, d \in Nat, e \in Nat, top \in Nat, h \in Nat, s \in Nat DEF Words
    <3>5. n[p - 1] = m[p - 1] /\ n[p + d - 2] = m[p + d - 2]
      BY <1>13, <3>4
    <3>6. m[p - 1] = Tag(z[p], a[p]) /\ m[p + z[p] - 2] = Tag(z[p], a[p])
      BY <3>1 DEF Tagged
    <3>. QED
      BY <3>1, <3>2, <3>5, <3>6
  <2>. QED
    BY <2>1, <2>2
<1>15. Tagged(C, u, c, e, n)
  BY <1>3, <1>11, <1>14 DEF Tagged
<1>. QED
  BY <1>1, <1>13, <1>15

\* What is stored in a block between its tags leaves the tags alone.
LEMMA StoreTagged ==
  ASSUME NEW B, NEW z, NEW a, NEW top \in Nat, Tiles(B, z, a, top),
         NEW m, Tagged(B, z, a, top, m), NEW x \in Nat, x \in B,
         NEW n, n = [w \in Words |-> n[w]],
         \A w \in Words : n[w] = m[w] \/ (x <= w /\ w + 2 < x + z[x])
  PROVE  Tagged(B, z, a, top, n)
<1>1. PICK k \in Nat : k = z[x] /\ x + k <= top /\ 2 <= k
  BY TilesAt
<1>2. top <= MAX_HEAP /\ MAX_HEAP \in Nat
  BY HeapAssumption DEF Tagged
<1>3. \A w \in Words : w < x \/ x + k <= w + 2 => n[w] = m[w]
  <2>. TAKE w \in Words
  <2>. HAVE w < x \/ x + k <= w + 2
  <2>1. w \in Int
    BY <1>2 DEF Words
  <2>2. ~(x <= w /\ w + 2 < x + k)
    BY ONLY <2>1, w < x \/ x + k <= w + 2, x \in Nat, k \in Nat
  <2>. QED
    BY <1>1, <2>2
<1>4. ASSUME NEW p \in B PROVE n[p - 1] = m[p - 1] /\ n[p + z[p] - 2] = m[p + z[p] - 2]
  <2>1. PICK d \in Nat : d = z[p]
    BY DEF Tiles
  <2>2. p \in Nat /\ 2 <= d /\ 2 <= p /\ p + d <= top /\ (p < x => p + d <= x) /\ (x < p => x + k <= p)
    BY <1>1, <2>1, TilesAt
  <2>3. p = x => d = k
    BY <1>1, <2>1
  <2>4. /\ p - 1 \in Words /\ (p - 1 < x \/ x + k <= p - 1 + 2)
        /\ p + d - 2 \in Words /\ (p + d - 2 < x \/ x + k <= p + d - 2 + 2)
    BY ONLY <1>1, <1>2, <2>2, <2>3, d \in Nat, k \in Nat, x \in Nat, top \in Nat DEF Words
  <2>. QED
    BY <1>3, <2>1, <2>4
<1>5. n[top - 1] = m[top - 1]
  <2>1. top - 1 \in Words /\ x + k <= top - 1 + 2
    BY ONLY <1>1, <1>2, x \in Nat, k \in Nat, top \in Nat DEF Words
  <2>. QED
    BY <1>3, <2>1
<1>. QED
  BY <1>4, <1>5 DEF Tagged

-----------------------------------------------------------------------------
\* Coalesce

\* No two free blocks are neighbours, unless one of them is x.
ApartBut(B, z, a, x) ==
    \A p \in B : p + z[p] \in B /\ p # x /\ p + z[p] # x => a[p] = TRUE \/ a[p + z[p]] = TRUE

\* The blocks in use are the same, and so is what is stored in them.
SameUse(B, z, a, m, C, u, c, n) ==
    /\ \A p : (p \in C /\ c[p] = TRUE) <=> (p \in B /\ a[p] = TRUE)
    /\ \A p \in B : a[p] = TRUE => u[p] = z[p]
    /\ \A p \in B : a[p] = TRUE => \A w \in Words : p <= w /\ w + 2 < p + z[p] => n[w] = m[w]

\* The free block at x, behind the block at q, ends up between y and e.
JoinsAt(B, z, a, top, m, x, q, y, e) ==
    /\ q \in B /\ q + z[q] = x /\ q < x
    /\ y = IF a[q] = TRUE THEN x ELSE q
    /\ e = IF x + z[x] \in B /\ a[x + z[x]] # TRUE THEN x + z[x] + z[x + z[x]] ELSE x + z[x]
    /\ y \in B /\ y # 2 /\ y <= x /\ x + z[x] <= e /\ y < e /\ e \in B \cup {top}
    /\ Coalesce(m, x) = [mem |-> PutTags(m, y, e - y, FALSE), bp |-> y]

LEMMA CoalesceBounds ==
  ASSUME NEW B, NEW z, NEW a, NEW top \in Nat, Tiles(B, z, a, top),
         NEW m, Tagged(B, z, a, top, m),
         NEW x \in Nat, x \in B, x # 2
  PROVE  \E q, y, e \in Nat : JoinsAt(B, z, a, top, m, x, q, y, e)
<1>1. PICK q \in B : q + z[q] = x
  BY DEF Tiles
<1>2. /\ q \in Nat /\ 2 <= q /\ z[q] \in Nat /\ 2 <= z[q] /\ (q # 2 \/ a[q] = TRUE)
      /\ x + z[x] \in B \cup {top} /\ z[x] \in Nat /\ 2 <= z[x] /\ a[q] \in BOOLEAN
  BY DEF Tiles
<1>3. PICK kq \in Nat : kq = z[q] /\ 2 <= kq /\ q + kq = x
  BY <1>1, <1>2
<1>4. PICK kx \in Nat : kx = z[x] /\ 2 <= kx
  BY <1>2
<1>5. PICK y \in Nat : y = IF a[q] = TRUE THEN x ELSE q
  BY <1>2
<1>6. PICK nx \in Nat : nx = x + kx
  OBVIOUS
<1>7. PREV_BLKP(m, x) = q
  <2>1. m[q + z[q] - 2] = Tag(z[q], a[q])
    BY DEF Tagged
  <2>2. m[x - 2].size = kq
    <3>1. m[x - 2] = Tag(z[q], a[q])
      BY <1>1, <1>2, <2>1
    <3>. QED
      BY <1>3, <3>1, TagFields
  <2>3. x - kq = q
    BY ONLY <1>3, x \in Nat, kq \in Nat, <1>2
  <2>. QED
    BY <2>2, <2>3 DEF PREV_BLKP, DSIZE
<1>8. Size(m, x) = kx /\ NEXT_BLKP(m, x) = nx /\ Alloc(m, q) = a[q] /\ Size(m, q) = kq
  BY <1>3, <1>4, <1>6, Reads
<1>. DEFINE joined == nx \in B /\ a[nx] # TRUE
<1>9. (IF Alloc(m, nx) THEN 0 ELSE Size(m, nx)) = (IF joined THEN z[nx] ELSE 0)
  <2>1. CASE nx \in B
    <3>1. Alloc(m, nx) = a[nx] /\ Size(m, nx) = z[nx] /\ a[nx] \in BOOLEAN
      BY <2>1, Reads DEF Tiles
    <3>. QED
      BY <2>1, <3>1
  <2>2. CASE nx \notin B
    <3>1. m[nx - 1] = Tag(0, TRUE)
      BY <1>2, <1>4, <1>6, <2>2 DEF Tagged
    <3>2. Alloc(m, nx) = TRUE
      BY <3>1, TagFields DEF Alloc, HDRP
    <3>. QED
      BY <2>2, <3>2
  <2>. QED
    BY <2>1, <2>2
<1>10. PICK after \in Nat : /\ after = IF joined THEN z[nx] ELSE 0
                            /\ nx + after \in B \cup {top}
  <2>1. CASE joined
    BY <2>1 DEF Tiles
  <2>2. CASE ~joined
    <3>1. nx + 0 = nx /\ nx \in B \cup {top}
      BY <1>2, <1>4, <1>6
    <3>. QED
      BY <2>2, <3>1
  <2>. QED
    BY <2>1, <2>2
<1>11. PICK e \in Nat : e = nx + after
  OBVIOUS
<1>12. PICK before \in Nat : before = (IF a[q] = TRUE THEN 0 ELSE kq) /\ x - before = y
  <2>1. CASE a[q] = TRUE
    BY <1>5, <2>1
  <2>2. CASE a[q] # TRUE
    <3>1. x - kq = q
      BY ONLY <1>3, x \in Nat, kq \in Nat, <1>2
    <3>. QED
      BY <1>5, <2>2, <3>1
  <2>. QED
    BY <2>1, <2>2
<1>13. before + kx + after = e - y
  BY ONLY <1>6, <1>11, <1>12, x \in Nat, kx \in Nat, after \in Nat, before \in Nat, e \in Nat, y \in Nat, nx \in Nat
<1>14. Coalesce(m, x) = [mem |-> PutTags(m, y, e - y, FALSE), bp |-> y]
  <2>1. (IF Alloc(m, q) THEN 0 ELSE Size(m, q)) = before
    BY <1>2, <1>8, <1>12
  <2>2. Coalesce(m, x) = [mem |-> PutTags(m, x - before, before + kx + after, FALSE), bp |-> x - before]
    BY ONLY <1>7, <1>8, <1>9, <1>10, <2>1 DEF Coalesce
  <2>. QED
    BY <1>12, <1>13, <2>2
<1>15. q < x /\ y <= x /\ x + kx <= e /\ y < e
  <2>1. q < x
    BY ONLY <1>3, x \in Nat, kq \in Nat, <1>2
  <2>2. y <= x
    BY <1>5, <2>1
  <2>. QED
    BY ONLY <2>1, <2>2, <1>4, <1>6, <1>11, x \in Nat, y \in Nat, kx \in Nat, e \in Nat, after \in Nat, nx \in Nat
<1>16. y \in B /\ y # 2
  BY <1>2, <1>5
<1>17. e = IF x + z[x] \in B /\ a[x + z[x]] # TRUE THEN x + z[x] + z[x + z[x]] ELSE x + z[x]
  <2>1. x + z[x] = nx /\ nx + 0 = nx
    BY <1>4, <1>6
  <2>. QED
    BY <1>10, <1>11, <2>1
<1>18. x + z[x] <= e
  BY <1>4, <1>15
<1>19. q \in B /\ q + z[q] = x /\ e \in B \cup {top} /\ q \in Nat
  BY <1>1, <1>2, <1>10, <1>11
<1>20. JoinsAt(B, z, a, top, m, x, q, y, e)
  BY ONLY <1>5, <1>14, <1>15, <1>16, <1>17, <1>18, <1>19, Zenon DEF JoinsAt
<1>. QED
  BY <1>19, <1>20

\* What joining the blocks between y and e leaves as it was.
Beside(p, y, e) == p \in Nat /\ p # y /\ (p < y \/ e <= p)

LEMMA CoalesceUse ==
  ASSUME NEW B, NEW z, NEW a, NEW top \in Nat, Tiles(B, z, a, top),
         NEW x \in Nat, x \in B, x # 2, a[x] = FALSE,
         NEW m, NEW q \in Nat, NEW y \in Nat, NEW e \in Nat, JoinsAt(B, z, a, top, m, x, q, y, e),
         NEW p \in B, a[p] = TRUE
  PROVE  Beside(p, y, e)
<1>0. /\ q \in B /\ q + z[q] = x /\ q < x
      /\ y = IF a[q] = TRUE THEN x ELSE q
      /\ e = IF x + z[x] \in B /\ a[x + z[x]] # TRUE THEN x + z[x] + z[x + z[x]] ELSE x + z[x]
  BY DEF JoinsAt
<1>1. p \in Nat
  BY DEF Tiles
<1>2. p # y /\ p # x
  BY <1>0
<1>3. PICK kx \in Nat : kx = z[x]
  BY DEF Tiles
<1>4. PICK nx \in Nat : nx = x + kx
  OBVIOUS
<1>5. (p < q => p + z[p] <= q) /\ (q < p => x <= p) /\ (x < p => nx <= p)
  BY <1>0, <1>3, <1>4, TilesAt
<1>7. p < y \/ x < p
  <2>1. CASE a[q] = TRUE
    <3>1. y = x
      BY <1>0, <2>1
    <3>. QED
      BY ONLY <1>1, <1>2, <3>1, x \in Nat
  <2>2. CASE a[q] # TRUE
    <3>1. y = q
      BY <1>0, <2>2
    <3>. QED
      BY ONLY <1>1, <1>2, <1>5, <3>1, x \in Nat, q \in Nat
  <2>. QED
    BY <2>1, <2>2
<1>8. x < p => e <= p
  <2>. HAVE x < p
  <2>1. CASE nx \in B /\ a[nx] # TRUE
    <3>1. e = nx + z[nx] /\ z[nx] \in Nat
      BY <1>0, <1>3, <1>4, <2>1 DEF Tiles
    <3>2. p # nx /\ nx <= p
      BY <1>5, <2>1
    <3>3. nx < p
      BY ONLY <1>1, <3>2, nx \in Nat
    <3>4. nx + z[nx] <= p
      BY <2>1, <3>3, TilesAt
    <3>. QED
      BY <3>1, <3>4
  <2>2. CASE ~(nx \in B /\ a[nx] # TRUE)
    BY <1>0, <1>3, <1>4, <1>5, <2>2
  <2>. QED
    BY <2>1, <2>2
<1>. QED
  BY <1>1, <1>2, <1>7, <1>8 DEF Beside

\* The blocks after coalesce: C is what is left of B, with the block at y.
Joined(B, z, a, m, C, u, c, n, top, y) ==
    /\ Tiles(C, u, c, top) /\ Tagged(C, u, c, top, n) /\ Apart(C, u, c)
    /\ SameUse(B, z, a, m, C, u, c, n)
    /\ y \in C /\ y # 2 /\ c[y] = FALSE

LEMMA CoalesceApart ==
  ASSUME NEW B, NEW z, NEW a, NEW top \in Nat, Tiles(B, z, a, top),
         NEW x \in Nat, x \in B, x # 2, a[x] = FALSE, ApartBut(B, z, a, x),
         NEW m, NEW q \in Nat, NEW y \in Nat, NEW e \in Nat, JoinsAt(B, z, a, top, m, x, q, y, e),
         NEW C, NEW u, NEW c, Covered(B, z, a, y, e, FALSE, C, u, c)
  PROVE  Apart(C, u, c)
<1>. USE DEF Covered
<1>0. /\ q \in B /\ q + z[q] = x /\ q < x
      /\ y = IF a[q] = TRUE THEN x ELSE q
      /\ e = IF x + z[x] \in B /\ a[x + z[x]] # TRUE THEN x + z[x] + z[x + z[x]] ELSE x + z[x]
      /\ y \in B /\ y <= x /\ x + z[x] <= e /\ y < e
  BY DEF JoinsAt
<1>0a. q < x /\ y <= x /\ y < e /\ x + z[x] <= e
  BY <1>0
<1>1. PICK kx \in Nat : kx = z[x] /\ 2 <= kx
  BY DEF Tiles
<1>2. PICK nx \in Nat : nx = x + kx
  OBVIOUS
<1>3. x < nx /\ nx <= e /\ x < e
  BY ONLY <1>0a, <1>1, <1>2, x \in Nat, kx \in Nat, nx \in Nat, e \in Nat
<1>4. \A p \in C : p # y => p \in B /\ p # x /\ u[p] = z[p] /\ c[p] = a[p]
  <2>. SUFFICES ASSUME NEW p \in C, p # y PROVE p \in B /\ p # x /\ u[p] = z[p] /\ c[p] = a[p]
    OBVIOUS
  <2>1. p \in B /\ (p < y \/ e <= p) /\ p \in Nat
    BY DEF Tiles
  <2>2. p # x
    BY ONLY <1>0a, <1>3, <2>1, p # y, x \in Nat, y \in Nat, e \in Nat
  <2>. QED
    BY <2>1, <2>2
<1>. SUFFICES ASSUME NEW p \in C, p + u[p] \in C PROVE c[p] = TRUE \/ c[p + u[p]] = TRUE
  BY DEF Apart
<1>5. CASE p = y
  <2>1. u[p] = e - y
    BY <1>5
  <2>2. y + (e - y) = e /\ e # y
    BY ONLY <1>0a, y \in Nat, e \in Nat
  <2>3. e \in C /\ e \in B /\ c[e] = a[e] /\ p + u[p] = e
    BY <1>4, <1>5, <2>1, <2>2
  <2>4. a[e] = TRUE
    <3>1. CASE nx \in B /\ a[nx] # TRUE
      <4>1. e = nx + z[nx]
        BY <1>0, <1>1, <1>2, <3>1
      <4>2. nx # x /\ e # x
        BY ONLY <1>3, nx \in Nat, x \in Nat, e \in Nat
      <4>. QED
        BY <2>3, <3>1, <4>1, <4>2 DEF ApartBut
    <3>2. CASE ~(nx \in B /\ a[nx] # TRUE)
      BY <1>0, <1>1, <1>2, <2>3, <3>2
    <3>. QED
      BY <3>1, <3>2
  <2>. QED
    BY <2>3, <2>4
<1>6. CASE p # y
  <2>1. p \in B /\ p # x /\ u[p] = z[p] /\ c[p] = a[p] /\ p \in Nat
    BY <1>4, <1>6 DEF Tiles
  <2>2. PICK d \in Nat : d = p + z[p]
    BY <2>1 DEF Tiles
  <2>3. d \in C /\ d = p + u[p]
    BY <2>1, <2>2
  <2>4. CASE d = y
    <3>1. CASE a[q] = TRUE
      <4>1. p + z[p] = x
        BY <1>0, <2>2, <2>4, <3>1
      <4>2. ~(p < q) /\ ~(q < p)
        <5>1. (p < q => p + z[p] <= q) /\ (q < p => q + z[q] <= p)
          BY <1>0, <2>1, TilesAt
        <5>2. PICK k \in Nat : k = z[p]
          BY <2>1 DEF Tiles
        <5>3. 2 <= k /\ p + k = x
          BY <2>1, <4>1, <5>2 DEF Tiles
        <5>4. (p < q => x <= q) /\ (q < p => x <= p)
          BY <1>0, <4>1, <5>1
        <5>. QED
          BY ONLY <1>0a, <2>1, <5>3, <5>4, q \in Nat, x \in Nat, k \in Nat
      <4>3. p = q
        BY ONLY <2>1, <4>2, q \in Nat
      <4>. QED
        BY <2>1, <3>1, <4>3
    <3>2. CASE a[q] # TRUE
      <4>1. y = q /\ d # x
        <5>1. y = q
          BY <1>0, <3>2
        <5>2. q # x
          BY ONLY <1>0a, q \in Nat, x \in Nat
        <5>. QED
          BY <2>4, <5>1, <5>2
      <4>2. a[p] = TRUE
        BY <1>0, <2>1, <2>2, <2>4, <3>2, <4>1 DEF ApartBut
      <4>. QED
        BY <2>1, <4>2
    <3>. QED
      BY <3>1, <3>2
  <2>5. CASE d # y
    <3>1. d \in B /\ d # x /\ c[d] = a[d]
      BY <1>4, <2>3, <2>5
    <3>2. a[p] = TRUE \/ a[d] = TRUE
      BY <2>1, <2>2, <3>1 DEF ApartBut
    <3>. QED
      BY <2>1, <2>3, <3>1, <3>2
  <2>. QED
    BY <2>4, <2>5
<1>. QED
  BY <1>5, <1>6

JoinedAt(B, z, a, m, x, C, u, c, n, top) ==
    \E y \in Nat : Joined(B, z, a, m, C, u, c, n, top, y) /\ y = Coalesce(m, x).bp /\ z[x] <= u[y]

LEMMA CoalesceLemma ==
  ASSUME NEW B, NEW z, NEW a, NEW top \in Nat, Tiles(B, z, a, top),
         NEW m, Tagged(B, z, a, top, m),
         NEW x \in Nat, x \in B, x # 2, a[x] = FALSE, ApartBut(B, z, a, x),
         NEW n, n = Coalesce(m, x).mem
  PROVE  \E C, u, c : JoinedAt(B, z, a, m, x, C, u, c, n, top)
<1>0. PICK q, y, e \in Nat : JoinsAt(B, z, a, top, m, x, q, y, e)
  BY CoalesceBounds, Zenon
<1>1. /\ q \in B /\ q + z[q] = x /\ q < x
      /\ y = IF a[q] = TRUE THEN x ELSE q
      /\ y \in B /\ y # 2 /\ y <= x /\ x + z[x] <= e /\ y < e /\ e \in B \cup {top}
      /\ Coalesce(m, x) = [mem |-> PutTags(m, y, e - y, FALSE), bp |-> y]
  BY <1>0 DEF JoinsAt
<1>2. n = PutTags(m, y, e - y, FALSE) /\ Coalesce(m, x).bp = y
  BY <1>1
<1>3. PICK C : C = {p \in B : p < y \/ e <= p} \cup {y}
  OBVIOUS
<1>4. PICK u : u = [p \in C |-> IF p = y THEN e - y ELSE z[p]]
  OBVIOUS
<1>5. PICK c : c = [p \in C |-> IF p = y THEN FALSE ELSE a[p]]
  OBVIOUS
<1>6. /\ \A p \in C : u[p] = IF p = y THEN e - y ELSE z[p]
      /\ \A p \in C : c[p] = IF p = y THEN FALSE ELSE a[p]
  BY <1>4, <1>5
<1>6a. Covered(B, z, a, y, e, FALSE, C, u, c)
  BY <1>3, <1>6 DEF Covered
<1>7. Tiles(C, u, c, top)
  BY <1>1, <1>6a, JoinTiles
<1>8. Tagged(C, u, c, top, n) /\ AllBut(n, m, y - 1, e - 2)
  <2>1. y \in B /\ y # 2 /\ e \in B \cup {top} /\ y < e /\ FALSE \in BOOLEAN
    BY <1>1
  <2>2. PICK b \in BOOLEAN : b = FALSE
    OBVIOUS
  <2>3. n = PutTags(m, y, e - y, b) /\ Covered(B, z, a, y, e, b, C, u, c)
    BY <1>2, <1>6a, <2>2
  <2>. QED
    BY ONLY <2>1, <2>3, b \in BOOLEAN, Tiles(B, z, a, top), Tagged(B, z, a, top, m), top \in Nat, y \in Nat, e \in Nat,
            JoinTagged, SMT
<1>9. Apart(C, u, c)
  BY <1>0, <1>6a, CoalesceApart
<1>10. ASSUME NEW p \in B, a[p] = TRUE PROVE p \in C /\ p \in Nat /\ p # y /\ (p < y \/ e <= p) /\ c[p] = TRUE /\ u[p] = z[p]
  <2>1. p \in Nat /\ p # y /\ (p < y \/ e <= p)
    <3>1. Beside(p, y, e)
      BY <1>0, <1>10, CoalesceUse, Zenon
    <3>. QED
      BY <3>1 DEF Beside
  <2>2. p \in C
    BY <1>3, <2>1
  <2>. QED
    BY <1>6, <1>10, <2>1, <2>2
<1>11. SameUse(B, z, a, m, C, u, c, n)
  <2>1. \A p : p \in C /\ c[p] = TRUE => p \in B /\ a[p] = TRUE
    BY <1>3, <1>6
  <2>2. ASSUME NEW p \in B, a[p] = TRUE, NEW w \in Words, p <= w, w + 2 < p + z[p] PROVE n[w] = m[w]
    <3>1. p \in Nat /\ (p < y \/ e <= p)
      BY <1>10, <2>2
    <3>2. PICK k \in Nat : k = z[p]
      BY DEF Tiles
    <3>3. p < y => p + k <= y
      BY <1>1, <3>2, TilesAt
    <3>4. w \in Int
      BY HeapAssumption DEF Words
    <3>5. w # y - 1 /\ w # e - 2
      <4>1. w + 2 < p + k
        BY <2>2, <3>2
      <4>2. y < e
        BY <1>1
      <4>3. p <= w
        BY <2>2
      <4>. QED
        BY ONLY <4>2, <4>3, <3>1, <3>3, <3>4, <4>1, y \in Nat, e \in Nat, k \in Nat
    <3>. QED
      BY <1>8, <3>5 DEF AllBut
  <2>. QED
    BY <1>10, <2>1, <2>2 DEF SameUse
<1>12. y \in C /\ c[y] = FALSE /\ u[y] = e - y
  BY <1>3, <1>6
<1>13. z[x] <= u[y]
  <2>1. PICK k \in Nat : k = z[x]
    BY DEF Tiles
  <2>2. x + k <= e
    BY <1>1, <2>1
  <2>4. y <= x
    BY <1>1
  <2>3. k <= e - y
    BY ONLY <2>4, <2>2, k \in Nat, x \in Nat, y \in Nat, e \in Nat
  <2>. QED
    BY <1>12, <2>1, <2>3
<1>14. Joined(B, z, a, m, C, u, c, n, top, y)
  BY <1>1, <1>7, <1>8, <1>9, <1>11, <1>12 DEF Joined
<1>. QED
  BY <1>2, <1>13, <1>14 DEF JoinedAt

-----------------------------------------------------------------------------
\* The blocks find_fit goes through are B

\* One step from every block at once.
Onwards(s) == s \cup {NEXT_BLKP(mem, p) : p \in {q \in s : Size(mem, q) # 0}}

LEMMA SeenExists ==
  ASSUME NEW top \in Nat
  PROVE  \E r : r = [i \in 0 .. top |-> IF i = 0 THEN {2} ELSE Onwards(r[i - 1])]
<1>. DEFINE Upto(k) == \E r : r = [i \in 0 .. k |-> IF i = 0 THEN {2} ELSE Onwards(r[i - 1])]
            Bad == {k \in 0 .. top : ~Upto(k)}
<1>1. SUFFICES Upto(top)
  OBVIOUS
<1>2. Upto(0)
  <2>. DEFINE r == [i \in 0 .. 0 |-> {2}]
  <2>1. r = [i \in 0 .. 0 |-> IF i = 0 THEN {2} ELSE Onwards(r[i - 1])]
    <3>1. \A i \in 0 .. 0 : i = 0
      OBVIOUS
    <3>. QED
      BY <3>1
  <2>. QED
    BY <2>1
<1>3. ASSUME NEW k \in 1 .. top, Upto(k - 1) PROVE Upto(k)
  <2>1. PICK r : r = [i \in 0 .. k - 1 |-> IF i = 0 THEN {2} ELSE Onwards(r[i - 1])]
    BY <1>3
  <2>2. \A i \in 0 .. k - 1 : r[i] = IF i = 0 THEN {2} ELSE Onwards(r[i - 1])
    <3>. DEFINE e == [i \in 0 .. k - 1 |-> IF i = 0 THEN {2} ELSE Onwards(r[i - 1])]
    <3>1. \A i \in 0 .. k - 1 : e[i] = IF i = 0 THEN {2} ELSE Onwards(r[i - 1])
      OBVIOUS
    <3>2. r = e
      BY <2>1
    <3>. HIDE DEF e
    <3>. QED
      BY <3>1, <3>2
  <2>. HIDE DEF Upto
  <2>. DEFINE q == [i \in 0 .. k |-> IF i = k THEN Onwards(r[k - 1]) ELSE r[i]]
  <2>3. \A i \in 0 .. k : q[i] = IF i = k THEN Onwards(r[k - 1]) ELSE r[i]
    OBVIOUS
  <2>4. q = [i \in 0 .. k |-> q[i]]
    OBVIOUS
  <2>. HIDE DEF q
  <2>5. ASSUME NEW i \in 0 .. k PROVE q[i] = IF i = 0 THEN {2} ELSE Onwards(q[i - 1])
    <3>1. CASE i = k
      <4>1. k # 0 /\ k - 1 \in 0 .. k /\ k - 1 # k /\ k \in 0 .. k
        BY <1>3
      <4>. QED
        BY <2>3, <3>1, <4>1
    <3>2. CASE i # k
      <4>1. i \in 0 .. k - 1 /\ (i # 0 => i - 1 \in 0 .. k /\ i - 1 # k)
        BY <1>3, <3>2
      <4>. QED
        BY <2>2, <2>3, <3>2, <4>1
    <3>. QED
      BY <3>1, <3>2
  <2>6. q = [i \in 0 .. k |-> IF i = 0 THEN {2} ELSE Onwards(q[i - 1])]
    BY <2>4, <2>5
  <2>. QED
    BY <2>6 DEF Upto
<1>. HIDE DEF Upto
<1>4. Bad = {}
  <2>. SUFFICES ASSUME Bad # {} PROVE FALSE
    OBVIOUS
  <2>1. Bad \in SUBSET Nat
    OBVIOUS
  <2>2. PICK k \in Bad : \A y \in Bad : k <= y
    BY <2>1, LeastExists
  <2>3. k \in 1 .. top /\ k - 1 \in 0 .. top /\ ~(k <= k - 1)
    BY <1>2, <2>2
  <2>4. Upto(k - 1)
    BY <2>2, <2>3
  <2>. QED
    BY <1>3, <2>2, <2>3, <2>4
<1>. QED
  BY <1>4

LEMMA BlocksAre ==
  ASSUME NEW B, NEW z, NEW a, brk \in Nat, Tiles(B, z, a, brk), Tagged(B, z, a, brk, mem)
  PROVE  Blocks = B
<1>. DEFINE f == CHOOSE r : r = [i \in 0 .. brk |-> IF i = 0 THEN {2} ELSE Onwards(r[i - 1])]
<1>1. Blocks = {p \in f[brk] : Size(mem, p) # 0}
  BY DEF Blocks, Onwards, heap_listp
<1>2. f = [i \in 0 .. brk |-> IF i = 0 THEN {2} ELSE Onwards(f[i - 1])]
  BY SeenExists
<1>. HIDE DEF f
<1>3. \A i \in 0 .. brk : f[i] = IF i = 0 THEN {2} ELSE Onwards(f[i - 1])
  <2>. DEFINE e == [i \in 0 .. brk |-> IF i = 0 THEN {2} ELSE Onwards(f[i - 1])]
  <2>1. \A i \in 0 .. brk : e[i] = IF i = 0 THEN {2} ELSE Onwards(f[i - 1])
    OBVIOUS
  <2>2. f = e
    BY <1>2
  <2>. HIDE DEF e
  <2>. QED
    BY <2>1, <2>2
<1>4. \A p \in B : Size(mem, p) # 0 /\ NEXT_BLKP(mem, p) = p + z[p] /\ p + z[p] \in B \cup {brk}
  BY Reads DEF Tiles
<1>5. Size(mem, brk) = 0
  <2>1. mem[brk - 1] = Tag(0, TRUE)
    BY DEF Tagged
  <2>2. Size(mem, brk) = Tag(0, TRUE).size
    BY ONLY <2>1, Zenon DEF Size, HDRP
  <2>. QED
    BY <2>2, TagFields
<1>6. \A p \in B : p \in Nat /\ 2 <= p /\ p < brk
  BY DEF Tiles
<1>. DEFINE Upto(i) == f[i] \subseteq B \cup {brk} /\ \A p \in B : p <= i + 2 => p \in f[i]
            Bad == {i \in 0 .. brk : ~Upto(i)}
<1>7. Upto(0)
  <2>1. f[0] = {2}
    BY <1>3
  <2>2. \A p \in B : p <= 2 => p = 2
    BY <1>6
  <2>. QED
    BY <2>1, <2>2 DEF Tiles
<1>8. ASSUME NEW i \in 1 .. brk, Upto(i - 1) PROVE Upto(i)
  <2>1. PICK j \in 0 .. brk : j = i - 1
    BY <1>8
  <2>2. f[i] = Onwards(f[j])
    <3>1. i \in 0 .. brk /\ i # 0
      BY <1>8
    <3>. QED
      BY <1>3, <2>1, <3>1
  <2>3. f[j] \subseteq B \cup {brk} /\ \A p \in B : p <= j + 2 => p \in f[j]
    BY <1>8, <2>1
  <2>. HIDE DEF Upto
  <2>4. f[i] \subseteq B \cup {brk}
    BY <1>4, <1>5, <2>2, <2>3 DEF Onwards
  <2>5. ASSUME NEW p \in B, p <= i + 2 PROVE p \in f[i]
    <3>1. CASE p = 2
      <4>1. p <= j + 2
        BY <3>1
      <4>. QED
        BY <2>2, <2>3, <4>1 DEF Onwards
    <3>2. CASE p # 2
      <4>1. PICK q \in B : q + z[q] = p
        BY <3>2 DEF Tiles
      <4>2. PICK k \in Nat : k = z[q] /\ 2 <= k
        BY DEF Tiles
      <4>3. q + k = p /\ q \in Nat /\ p \in Nat
        BY <1>6, <4>1, <4>2
      <4>4. q <= j + 2
        BY ONLY <2>1, <2>5, <4>2, <4>3, i \in 1 .. brk, j \in 0 .. brk, k \in Nat, brk \in Nat
      <4>5. q \in f[j] /\ Size(mem, q) # 0 /\ NEXT_BLKP(mem, q) = p
        BY <1>4, <2>3, <4>1, <4>4
      <4>. QED
        BY <2>2, <4>5 DEF Onwards
    <3>. QED
      BY <3>1, <3>2
  <2>. QED
    BY <2>4, <2>5 DEF Upto
<1>. HIDE DEF Upto
<1>9. Bad = {}
  <2>. SUFFICES ASSUME Bad # {} PROVE FALSE
    OBVIOUS
  <2>1. Bad \in SUBSET Nat
    OBVIOUS
  <2>2. PICK k \in Bad : \A y \in Bad : k <= y
    BY <2>1, LeastExists
  <2>3. k \in 1 .. brk /\ k - 1 \in 0 .. brk /\ ~(k <= k - 1)
    BY <1>7, <2>2
  <2>4. Upto(k - 1)
    BY <2>2, <2>3
  <2>. QED
    BY <1>8, <2>2, <2>3, <2>4
<1>10. f[brk] \subseteq B \cup {brk} /\ \A p \in B : p \in f[brk]
  <2>1. Upto(brk)
    BY <1>9
  <2>2. \A p \in B : p <= brk + 2
    BY <1>6
  <2>. QED
    BY <2>1, <2>2 DEF Upto
<1>. QED
  BY <1>1, <1>4, <1>5, <1>10

-----------------------------------------------------------------------------
\* What the invariant says of the blocks

LEMMA WholeHeap == HeapInv => HeapWhole
<1>. SUFFICES ASSUME HeapInv PROVE HeapWhole
  OBVIOUS
<1>1. PICK B, z, a : Whole(B, z, a, brk, mem, owned)
  BY DEF HeapInv
<1>2. Tiles(B, z, a, brk) /\ Tagged(B, z, a, brk, mem) /\ Apart(B, z, a) /\ Held(B, z, a, mem, owned)
  BY <1>1 DEF Whole
<1>3. brk \in Nat /\ B \subseteq Nat /\ 2 \in B /\ 2 < brk
  BY <1>2 DEF Tiles
<1>4. Blocks = B
  BY <1>2, <1>3, BlocksAre
<1>5. \A p \in B : Size(mem, p) = z[p] /\ Alloc(mem, p) = a[p] /\ NEXT_BLKP(mem, p) = p + z[p]
  BY <1>2, Reads
<1>6. ASSUME NEW p \in B
      PROVE  /\ mem[FTRP(mem, p)] = mem[HDRP(p)]
             /\ ~Alloc(mem, p) /\ NEXT_BLKP(mem, p) \in B => Alloc(mem, NEXT_BLKP(mem, p))
  <2>1. mem[FTRP(mem, p)] = mem[HDRP(p)]
    <3>1. FTRP(mem, p) = p + z[p] - 2 /\ HDRP(p) = p - 1
      BY <1>2, Reads DEF HDRP
    <3>2. mem[p - 1] = Tag(z[p], a[p]) /\ mem[p + z[p] - 2] = Tag(z[p], a[p])
      BY <1>2 DEF Tagged
    <3>. QED
      BY <3>1, <3>2
  <2>2. ASSUME ~Alloc(mem, p), NEXT_BLKP(mem, p) \in B PROVE Alloc(mem, NEXT_BLKP(mem, p))
    <3>1. p + z[p] \in B /\ ~a[p] /\ a[p] \in BOOLEAN
      BY <1>2, <1>5, <2>2 DEF Tiles
    <3>2. a[p + z[p]] = TRUE
      BY <1>2, <3>1 DEF Apart
    <3>. QED
      BY <1>5, <3>1, <3>2
  <2>. QED
    BY <2>1, <2>2
<1>7. mem[brk - 1] = Tag(0, TRUE)
  BY <1>2 DEF Tagged
<1>8. NEXT_BLKP(mem, Max(B)) = brk
  <2>1. PICK q \in B : q + z[q] = brk
    BY <1>2, <1>3 DEF Tiles
  <2>2. \A p \in B : p \in Nat /\ q \in Nat /\ q >= p
    <3>. SUFFICES ASSUME NEW p \in B PROVE p \in Nat /\ q \in Nat /\ q >= p
      OBVIOUS
    <3>1. p \in Nat /\ q \in Nat /\ p < brk /\ (q < p => q + z[q] <= p)
      BY <1>2, <1>3, TilesAt
    <3>2. q < p => brk <= p
      BY <2>1, <3>1
    <3>. QED
      BY ONLY <1>3, <3>1, <3>2
  <2>3. Max(B) = q
    <3>1. Max(B) \in B /\ \A p \in B : Max(B) >= p
      BY <2>2 DEF Max
    <3>2. Max(B) \in Nat /\ Max(B) >= q /\ q >= Max(B) /\ q \in Nat
      BY <2>2, <3>1
    <3>. QED
      BY <3>2
  <2>. QED
    BY <1>5, <2>1, <2>3
<1>9. {p \in B : Alloc(mem, p)} = DOMAIN owned \cup {heap_listp}
  <2>1. \A p \in B : Alloc(mem, p) <=> a[p] = TRUE
    BY <1>2, <1>5 DEF Tiles
  <2>. QED
    BY <1>2, <2>1 DEF Held, heap_listp
<1>10. PayloadsKept
  BY <1>2 DEF Held, PayloadsKept
<1>11. BlocksTile
  BY <1>4, <1>6, <1>7, <1>8, <1>9 DEF BlocksTile
<1>. QED
  BY <1>10, <1>11 DEF HeapWhole

-----------------------------------------------------------------------------
\* What callers hold

LEMMA HeldKept ==
  ASSUME NEW B, NEW z, NEW a, NEW top \in Nat, Tiles(B, z, a, top), NEW m, Tagged(B, z, a, top, m),
         NEW own, Held(B, z, a, m, own),
         NEW C, NEW u, NEW c, NEW n, SameUse(B, z, a, m, C, u, c, n)
  PROVE  Held(C, u, c, n, own)
<1>1. {p \in C : c[p] = TRUE} = {p \in B : a[p] = TRUE}
  BY DEF SameUse
<1>2. \A p \in DOMAIN own : p \in B /\ a[p] = TRUE /\ u[p] = z[p] /\ own[p] \in Nat /\ own[p] + 2 <= z[p]
  BY DEF Held, SameUse
<1>3. ASSUME NEW p \in DOMAIN own, NEW w \in p .. p + own[p] - 1 PROVE n[w] = Bytes(p)
  <2>1. m[w] = Bytes(p)
    BY DEF Held
  <2>2. p \in B /\ a[p] = TRUE
    BY <1>2
  <2>3. PICK k \in Nat : k = z[p]
    BY <2>2 DEF Tiles
  <2>4. PICK o \in Nat : o = own[p]
    BY <1>2
  <2>5. p \in Nat /\ p + k <= top /\ 2 <= p
    BY <2>2, <2>3, TilesAt
  <2>6. o + 2 <= k /\ top <= MAX_HEAP /\ MAX_HEAP \in Nat /\ w \in p .. p + o - 1
    BY <1>2, <2>3, <2>4, HeapAssumption DEF Tagged
  <2>7. w \in Words /\ p <= w /\ w + 2 < p + k
    BY ONLY <2>5, <2>6, k \in Nat, o \in Nat, top \in Nat DEF Words
  <2>8. n[w] = m[w]
    BY <2>2, <2>3, <2>7 DEF SameUse
  <2>. QED
    BY <2>1, <2>8
<1>4. \A p \in DOMAIN own : own[p] \in Nat /\ own[p] + 2 <= u[p]
  BY <1>2
<1>. QED
  BY <1>1, <1>3, <1>4 DEF Held

LEMMA EvenSize ==
  ASSUME NEW n \in Nat
  PROVE  BlockSize(n) \in Nat /\ n + 2 <= BlockSize(n) /\ 4 <= BlockSize(n) /\ BlockSize(n) % 2 = 0
<1>1. CASE n <= 2
  <2>1. BlockSize(n) = 4
    BY <1>1 DEF BlockSize, DSIZE
  <2>. QED
    BY <1>1, <2>1
<1>2. CASE ~(n <= 2)
  <2>1. PICK k \in Nat : k = (n + 3) \div 2
    BY <1>2
  <2>2. BlockSize(n) = 2 * k
    BY <1>2, <2>1 DEF BlockSize, DSIZE
  <2>3. n + 2 <= 2 * k /\ (2 * k) % 2 = 0
    BY <1>2, <2>1
  <2>. QED
    BY <1>2, <2>2, <2>3
<1>. QED
  BY <1>1, <1>2

\* The block at x is in use after place, and has room for n words.
Gives(B, z, a, top, m, x, n, e, k, C, u, c) ==
    /\ Tiles(C, u, c, top) /\ Apart(C, u, c)
    /\ Tagged(C, u, c, top, k) /\ Outside(k, m, x - 1, e - 2)
    /\ x \in C /\ c[x] = TRUE /\ n + 2 <= u[x]
    /\ {p \in C : c[p] = TRUE} = {p \in B : a[p] = TRUE} \cup {x}
    /\ \A p \in B : a[p] = TRUE => u[p] = z[p]

\* The caller stores n words at x, where it just got the block.
Stored(k, x, n) == [w \in Words |-> IF w \in x .. x + n - 1 THEN Bytes(x) ELSE k[w]]
OwnedToo(own, x, n) == [q \in DOMAIN own \cup {x} |-> IF q = x THEN n ELSE own[q]]

LEMMA StoreKeeps ==
  ASSUME NEW B, NEW z, NEW a, NEW top \in Nat, Tiles(B, z, a, top),
         NEW m, Tagged(B, z, a, top, m), NEW own, Held(B, z, a, m, own),
         NEW x \in Nat, x \in B, a[x] # TRUE, NEW e \in Nat, e = x + z[x],
         NEW C, NEW u, NEW c, NEW k, NEW n \in Nat, Gives(B, z, a, top, m, x, n, e, k, C, u, c)
  PROVE  Whole(C, u, c, top, Stored(k, x, n), OwnedToo(own, x, n))
<1>. USE DEF Gives
<1>. DEFINE s == Stored(k, x, n)
            h == OwnedToo(own, x, n)
<1>0. top <= MAX_HEAP /\ MAX_HEAP \in Nat
  BY HeapAssumption DEF Tagged
<1>1. /\ s = [w \in Words |-> s[w]]
      /\ \A w \in Words : s[w] = IF w \in x .. x + n - 1 THEN Bytes(x) ELSE k[w]
  BY DEF Stored
<1>2. /\ DOMAIN h = DOMAIN own \cup {x} /\ h = [q \in DOMAIN h |-> h[q]]
      /\ h[x] = n /\ \A q \in DOMAIN own : q # x => h[q] = own[q]
  BY DEF OwnedToo
<1>. HIDE DEF s, h
<1>3. PICK l \in Nat : l = u[x] /\ x + l <= top /\ n + 2 <= l
  BY TilesAt
<1>4. Tagged(C, u, c, top, s)
  <2>1. ASSUME NEW w \in Words PROVE s[w] = k[w] \/ (x <= w /\ w + 2 < x + u[x])
    <3>1. CASE w \in x .. x + n - 1
      <4>1. x <= w /\ w + 2 < x + l
        BY ONLY <1>3, <3>1, x \in Nat, n \in Nat, l \in Nat
      <4>. QED
        BY <1>3, <4>1
    <3>2. CASE w \notin x .. x + n - 1
      BY <1>1, <3>2
    <3>. QED
      BY <3>1, <3>2
  <2>. QED
    BY <1>1, <2>1, StoreTagged
<1>5. \A q \in DOMAIN own : q \in B /\ a[q] = TRUE /\ q # x /\ u[q] = z[q] /\ own[q] \in Nat /\ own[q] + 2 <= z[q]
  <2>1. /\ {p \in B : a[p] = TRUE} = DOMAIN own \cup {2}
        /\ \A q \in DOMAIN own : own[q] \in Nat /\ own[q] + 2 <= z[q]
    BY ONLY Held(B, z, a, m, own) DEF Held
  <2>2. \A q \in DOMAIN own : q \in B /\ a[q] = TRUE
    BY ONLY <2>1
  <2>3. \A p \in B : a[p] = TRUE => u[p] = z[p]
    OBVIOUS
  <2>. QED
    BY ONLY <2>1, <2>2, <2>3, a[x] # TRUE, Zenon
<1>6. ASSUME NEW q \in DOMAIN own, NEW w \in q .. q + own[q] - 1 PROVE s[w] = Bytes(q)
  <2>1. PICK o \in Nat : o = own[q]
    BY <1>5
  <2>2. PICK d \in Nat : d = z[q]
    BY <1>5 DEF Tiles
  <2>3. q \in Nat /\ q + d <= top /\ (q < x => q + d <= x) /\ (x < q => e <= q) /\ q # x
    BY <1>5, <2>2, TilesAt
  <2>4. w \in q .. q + o - 1 /\ o + 2 <= d
    BY <1>5, <2>1, <2>2
  <2>5. x < q => x + l <= q
    <3>1. q \in C
      BY <1>5
    <3>. QED
      BY <1>3, <3>1, TilesAt
  <2>6. w \in Words /\ w \notin x .. x + n - 1 /\ (w < x - 1 \/ e - 2 < w)
    BY ONLY <1>0, <1>3, <2>3, <2>4, <2>5, x \in Nat, n \in Nat, l \in Nat, e \in Nat, top \in Nat, o \in Nat, d \in Nat DEF Words
  <2>7. s[w] = k[w] /\ k[w] = m[w]
    BY <1>1, <2>6 DEF Outside
  <2>8. m[w] = Bytes(q)
    BY DEF Held
  <2>. QED
    BY <2>7, <2>8
<1>7. ASSUME NEW w \in x .. x + n - 1 PROVE s[w] = Bytes(x)
  <2>1. w \in Words
    BY ONLY <1>0, <1>3, w \in x .. x + n - 1, x \in Nat, n \in Nat, top \in Nat, l \in Nat DEF Words
  <2>. QED
    BY <1>1, <2>1
<1>8. Held(C, u, c, s, h)
  <2>1. {p \in C : c[p] = TRUE} = DOMAIN h \cup {2} /\ 2 \notin DOMAIN h
    BY <1>2 DEF Held, Tiles
  <2>2. \A p \in DOMAIN h : h[p] \in Nat /\ h[p] + 2 <= u[p]
    BY <1>2, <1>5
  <2>3. \A p \in DOMAIN h : \A w \in p .. p + h[p] - 1 : s[w] = Bytes(p)
    BY <1>2, <1>5, <1>6, <1>7
  <2>. QED
    BY <1>2, <2>1, <2>2, <2>3 DEF Held
<1>. QED
  BY <1>4, <1>8 DEF Whole, s, h

-----------------------------------------------------------------------------
\* mm_malloc and mm_free

\* place at the free block x, and the caller's stores.
LEMMA GiveKeeps ==
  ASSUME NEW B, NEW z, NEW a, NEW top \in Nat, NEW m, NEW own, Whole(B, z, a, top, m, own),
         NEW x \in Nat, x \in B, x # 2, a[x] # TRUE, NEW n \in Nat, BlockSize(n) <= z[x]
  PROVE  \E C, u, c :
            Whole(C, u, c, top, Stored(Place(m, x, BlockSize(n)), x, n), OwnedToo(own, x, n))
<1>1. Tiles(B, z, a, top) /\ Tagged(B, z, a, top, m) /\ Apart(B, z, a) /\ Held(B, z, a, m, own)
  BY DEF Whole
<1>2. PICK s \in Nat : s = BlockSize(n) /\ n + 2 <= s /\ 4 <= s
  BY EvenSize
<1>3. PICK l \in Nat : l = z[x] /\ s <= l /\ Size(m, x) = l
  BY <1>1, <1>2, Reads DEF Tiles
<1>4. PICK e \in Nat : e = x + z[x] /\ e = x + l
  BY <1>3
<1>5. x + l <= top /\ a[x] = FALSE /\ e \in B \cup {top}
  <2>1. x + z[x] <= top /\ x + z[x] \in B \cup {top} /\ a[x] \in BOOLEAN
    BY <1>1, TilesAt
  <2>. QED
    BY <1>3, <1>4, <2>1
<1>6. SUFFICES ASSUME NEW k, k = Place(m, x, s)
               PROVE  \E C, u, c : Gives(B, z, a, top, m, x, n, e, k, C, u, c)
  <2>1. PICK k : k = Place(m, x, s)
    OBVIOUS
  <2>2. PICK C, u, c : Gives(B, z, a, top, m, x, n, e, k, C, u, c)
    BY <1>6, <2>1
  <2>3. Whole(C, u, c, top, Stored(k, x, n), OwnedToo(own, x, n))
    <3>1. e = x + z[x]
      BY <1>4
    <3>. QED
      BY ONLY <1>1, <3>1, <2>2, StoreKeeps, top \in Nat, x \in Nat, e \in Nat, n \in Nat, x \in B, a[x] # TRUE, Zenon
  <2>. QED
    BY <1>2, <2>1, <2>3
<1>7. CASE l - s >= 4
  <2>1. PICK y \in Nat : y = x + s
    OBVIOUS
  <2>2. PICK r \in Nat : r = l - s
    BY <1>7
  <2>3. k = PutTags(PutTags(m, x, s, TRUE), y, r, FALSE)
    <3>1. Size(m, x) - s = r /\ r >= 2 * DSIZE /\ x + s = y
      BY <1>3, <1>7, <2>1, <2>2 DEF DSIZE
    <3>. QED
      BY ONLY <1>6, <3>1 DEF Place
  <2>4. PICK C : C = B \cup {y}
    OBVIOUS
  <2>5. PICK u : u = [p \in C |-> IF p = x THEN s ELSE IF p = y THEN r ELSE z[p]]
    OBVIOUS
  <2>6. PICK c : c = [p \in C |-> IF p = x THEN TRUE ELSE IF p = y THEN FALSE ELSE a[p]]
    OBVIOUS
  <2>7. Cut(B, z, a, x, s, y, r, C, u, c)
    BY <1>3, <2>1, <2>2, <2>4, <2>5, <2>6 DEF Cut
  <2>8. 2 <= s /\ s + 2 <= z[x]
    <3>1. 2 <= s /\ s + 2 <= l
      BY ONLY <1>2, <1>7, s \in Nat, l \in Nat
    <3>. QED
      BY <1>3, <3>1
  <2>9. Tiles(C, u, c, top) /\ y \notin B
    BY <1>1, <2>7, <2>8, CutTiles
  <2>10. Tagged(C, u, c, top, k) /\ Outside(k, m, x - 1, e - 2)
    <3>1. e = x + z[x]
      BY <1>4
    <3>2. k = CutWords(m, x, s, y, r)
      BY <2>3 DEF CutWords
    <3>. QED
      BY ONLY <1>1, <3>1, <3>2, <2>7, <2>8, CutTagged, SMT, top \in Nat, x \in Nat, x \in B, x # 2, s \in Nat, y \in Nat,
              r \in Nat, e \in Nat
  <2>11. y # x /\ y # top /\ y + r = e
    BY ONLY <1>2, <1>4, <1>5, <1>7, <2>1, <2>2, s \in Nat, l \in Nat, x \in Nat, y \in Nat, r \in Nat, top \in Nat, e \in Nat
  <2>12. \A p \in B : p # x => p # y /\ u[p] = z[p] /\ c[p] = a[p] /\ p \in C
    BY <2>4, <2>5, <2>6, <2>9
  <2>13. x \in C /\ c[x] = TRUE /\ u[x] = s /\ c[y] = FALSE /\ u[y] = r /\ y \in C
    BY <2>4, <2>5, <2>6, <2>11
  <2>14. Apart(C, u, c)
    <3>. SUFFICES ASSUME NEW p \in C, p + u[p] \in C PROVE c[p] = TRUE \/ c[p + u[p]] = TRUE
      BY DEF Apart
    <3>1. CASE p = x
      BY <2>13, <3>1
    <3>2. CASE p = y
      <4>1. p + u[p] = e /\ e \in C
        BY <2>11, <2>13, <3>2
      <4>2. e # y /\ e # x
        BY ONLY <1>4, <2>1, <1>7, <1>2, s \in Nat, l \in Nat, x \in Nat, y \in Nat, e \in Nat
      <4>3. e \in B /\ c[e] = a[e]
        BY <2>4, <2>12, <4>1, <4>2
      <4>4. a[e] = TRUE
        BY <1>1, <1>4, <4>3 DEF Apart
      <4>. QED
        BY <4>1, <4>3, <4>4
    <3>3. CASE p # x /\ p # y
      <4>1. p \in B /\ u[p] = z[p] /\ c[p] = a[p] /\ p + z[p] \in B \cup {top}
        BY <1>1, <2>4, <2>12, <3>3 DEF Tiles
      <4>2. PICK d : d = p + z[p]
        OBVIOUS
      <4>3. d # y /\ d \in B
        BY <2>4, <2>9, <2>11, <4>1, <4>2
      <4>4. d = x => c[d] = TRUE
        BY <2>13
      <4>5. d # x => c[d] = a[d]
        BY <2>12, <4>3
      <4>6. a[p] = TRUE \/ a[d] = TRUE
        BY <1>1, <4>1, <4>2, <4>3 DEF Apart
      <4>7. d = p + u[p]
        BY <4>1, <4>2
      <4>. QED
        BY <1>5, <4>1, <4>4, <4>5, <4>6, <4>7
    <3>. QED
      BY <3>1, <3>2, <3>3
  <2>15. {p \in C : c[p] = TRUE} = {p \in B : a[p] = TRUE} \cup {x}
    BY <1>5, <2>4, <2>12, <2>13
  <2>16. \A p \in B : a[p] = TRUE => u[p] = z[p]
    BY <1>5, <2>12
  <2>17. Gives(B, z, a, top, m, x, n, e, k, C, u, c)
    BY ONLY <1>2, <2>9, <2>10, <2>13, <2>14, <2>15, <2>16 DEF Gives
  <2>. QED
    BY <2>17
<1>8. CASE ~(l - s >= 4)
  <2>1. k = PutTags(m, x, l, TRUE)
    <3>1. Size(m, x) = l /\ ~(Size(m, x) - s >= 2 * DSIZE)
      BY <1>3, <1>8 DEF DSIZE
    <3>. QED
      BY ONLY <1>6, <3>1 DEF Place
  <2>2. PICK C : C = {p \in B : p < x \/ e <= p} \cup {x}
    OBVIOUS
  <2>3. PICK u : u = [p \in C |-> IF p = x THEN e - x ELSE z[p]]
    OBVIOUS
  <2>4. PICK c : c = [p \in C |-> IF p = x THEN TRUE ELSE a[p]]
    OBVIOUS
  <2>5. e - x = l /\ x < e
    BY ONLY <1>2, <1>3, <1>4, x \in Nat, e \in Nat, l \in Nat, s \in Nat
  <2>6. PICK b \in BOOLEAN : b = TRUE
    OBVIOUS
  <2>7. Covered(B, z, a, x, e, b, C, u, c)
    BY <2>2, <2>3, <2>4, <2>6 DEF Covered
  <2>8. Tiles(C, u, c, top)
    BY <1>1, <1>5, <2>5, <2>7, JoinTiles
  <2>9. Tagged(C, u, c, top, k) /\ AllBut(k, m, x - 1, e - 2)
    <3>1. k = PutTags(m, x, e - x, b)
      BY <2>1, <2>5, <2>6
    <3>2. x \in B /\ x # 2 /\ x < e
      BY <2>5
    <3>. QED
      BY ONLY <3>1, <3>2, <1>1, <1>5, <2>7, b \in BOOLEAN, x \in Nat, e \in Nat, top \in Nat, JoinTagged, SMT
  <2>10. Outside(k, m, x - 1, e - 2)
    <3>1. \A w \in Words : w < x - 1 \/ e - 2 < w => w # x - 1 /\ w # e - 2
      <4>1. \A w \in Words : w \in Int
        BY HeapAssumption DEF Words
      <4>2. x - 1 <= e - 2
        BY ONLY <1>2, <1>3, <1>4, x \in Nat, e \in Nat, l \in Nat, s \in Nat
      <4>. QED
        BY ONLY <4>1, <4>2, x \in Nat, e \in Nat
    <3>. QED
      BY <2>9, <3>1 DEF Outside, AllBut
  <2>11. C = B
    <3>1. \A p \in B : p < x \/ e <= p \/ p = x
      <4>. SUFFICES ASSUME NEW p \in B PROVE p < x \/ e <= p \/ p = x
        OBVIOUS
      <4>1. p \in Nat /\ (x < p => e <= p)
        BY <1>1, <1>4, TilesAt
      <4>. QED
        BY ONLY <4>1, x \in Nat
    <3>. QED
      BY <2>2, <3>1
  <2>12. \A p \in B : u[p] = z[p] /\ c[p] = IF p = x THEN TRUE ELSE a[p]
    BY <1>3, <2>3, <2>4, <2>5, <2>11
  <2>13. Apart(C, u, c)
    BY <1>1, <2>11, <2>12 DEF Apart
  <2>14. {p \in C : c[p] = TRUE} = {p \in B : a[p] = TRUE} \cup {x}
    BY <2>11, <2>12
  <2>15. n + 2 <= u[x] /\ c[x] = TRUE
    <3>1. n + 2 <= l
      BY ONLY <1>2, <1>3, n \in Nat, l \in Nat, s \in Nat
    <3>. QED
      BY <1>3, <2>12, <3>1
  <2>16. x \in C /\ \A p \in B : a[p] = TRUE => u[p] = z[p]
    BY <2>11, <2>12
  <2>17. Gives(B, z, a, top, m, x, n, e, k, C, u, c)
    BY ONLY <2>8, <2>9, <2>10, <2>13, <2>14, <2>15, <2>16, Zenon DEF Gives
  <2>. QED
    BY <2>17
<1>. QED
  BY <1>7, <1>8

LEMMA GivenWhole ==
  ASSUME NEW B, NEW z, NEW a, NEW top \in Nat, NEW m, Whole(B, z, a, top, m, owned), brk' = top,
         NEW x \in Nat, x \in B, x # 2, a[x] # TRUE, NEW n \in Nat, BlockSize(n) <= z[x], Given(m, x, n)
  PROVE  HeapInv'
<1>1. DOMAIN m = Words
  BY DEF Whole, Tagged
<1>2. mem' = Stored(Place(m, x, BlockSize(n)), x, n) /\ owned' = OwnedToo(owned, x, n)
  BY <1>1 DEF Given, Stored, OwnedToo
<1>3. PICK C, u, c : Whole(C, u, c, top, Stored(Place(m, x, BlockSize(n)), x, n), OwnedToo(owned, x, n))
  BY GiveKeeps, Zenon
<1>4. Whole(C, u, c, brk', mem', owned')
  BY <1>2, <1>3
<1>. QED
  BY <1>4 DEF HeapInv

LEMMA MallocFitsKeeps == ASSUME HeapInv, NEW n \in Nat, MallocFits(n) PROVE HeapInv'
<1>1. PICK B, z, a : Whole(B, z, a, brk, mem, owned)
  BY DEF HeapInv
<1>2. Tiles(B, z, a, brk) /\ Tagged(B, z, a, brk, mem) /\ brk \in Nat /\ B \subseteq Nat
  BY <1>1 DEF Whole, Tiles
<1>3. Blocks = B
  BY <1>2, BlocksAre
<1>4. PICK s \in Nat : s = BlockSize(n)
  BY EvenSize
<1>5. Fits(s) # {} /\ Given(mem, Min(Fits(s)), n) /\ brk' = brk
  BY <1>4 DEF MallocFits
<1>6. Fits(s) \in SUBSET Nat
  BY <1>2, <1>3 DEF Fits
<1>7. PICK x : x = Min(Fits(s))
  OBVIOUS
<1>8. x \in Fits(s)
  <2>1. \E q \in Fits(s) : \A p \in Fits(s) : q <= p
    BY <1>5, <1>6, LeastExists
  <2>. QED
    BY <1>7, <2>1 DEF Min
<1>9. x \in B /\ ~Alloc(mem, x) /\ Size(mem, x) >= s
  BY <1>3, <1>8 DEF Fits
<1>10. x \in Nat /\ a[x] # TRUE /\ z[x] \in Nat /\ Size(mem, x) = z[x]
  <2>1. Size(mem, x) = z[x] /\ Alloc(mem, x) = a[x]
    <3>1. x \in B
      BY <1>9
    <3>. QED
      BY ONLY <1>2, <3>1, Reads
  <2>2. a[x] # TRUE
    BY ONLY <1>9, <2>1, Zenon
  <2>. QED
    BY <1>2, <1>9, <2>1, <2>2 DEF Tiles
<1>11. BlockSize(n) <= z[x] /\ x # 2
  BY <1>2, <1>4, <1>9, <1>10 DEF Tiles
<1>. QED
  BY <1>1, <1>2, <1>5, <1>7, <1>9, <1>10, <1>11, GivenWhole

\* The heap with a free block behind it, before coalesce.
FreeAt(C, u, c, e, n, own, x, s) ==
    /\ Tiles(C, u, c, e) /\ Tagged(C, u, c, e, n) /\ ApartBut(C, u, c, x) /\ Held(C, u, c, n, own)
    /\ x \in C /\ x # 2 /\ c[x] = FALSE /\ u[x] = s

LEMMA GrownWhole ==
  ASSUME NEW B, NEW z, NEW a, NEW top \in Nat, NEW m, NEW own, Whole(B, z, a, top, m, own),
         NEW s \in Nat, 4 <= s, NEW e \in Nat, e = top + s, e <= MAX_HEAP,
         NEW C, NEW u, NEW c, Grown(B, z, a, top, s, C, u, c),
         NEW n, n = GrownWords(m, top, s, e)
  PROVE  FreeAt(C, u, c, e, n, own, top, s)
<1>1. Tiles(B, z, a, top) /\ Tagged(B, z, a, top, m) /\ Apart(B, z, a) /\ Held(B, z, a, m, own)
  BY DEF Whole
<1>2. 2 < top /\ 2 <= s
  BY <1>1 DEF Tiles
<1>3. Tiles(C, u, c, e)
  BY <1>1, <1>2, GrowTiles
<1>4. Tagged(C, u, c, e, n) /\ BelowSame(n, m, top - 1)
  BY <1>1, <1>2, GrowTagged
<1>5. \A p \in B : p # top /\ p \in C /\ u[p] = z[p] /\ c[p] = a[p]
  <2>1. \A p \in B : p \in Nat /\ p < top
    BY <1>1 DEF Tiles
  <2>2. \A p \in B : p # top
    BY <2>1
  <2>. QED
    BY <2>2 DEF Grown
<1>6. top \in C /\ c[top] = FALSE /\ u[top] = s /\ C = B \cup {top}
  BY DEF Grown
<1>7. ApartBut(C, u, c, top)
  <2>. SUFFICES ASSUME NEW p \in C, p + u[p] \in C, p # top, p + u[p] # top PROVE c[p] = TRUE \/ c[p + u[p]] = TRUE
    BY DEF ApartBut
  <2>1. p \in B /\ p + z[p] \in B /\ u[p] = z[p] /\ c[p] = a[p] /\ c[p + z[p]] = a[p + z[p]]
    BY <1>5, <1>6
  <2>2. a[p] = TRUE \/ a[p + z[p]] = TRUE
    BY <1>1, <2>1 DEF Apart
  <2>. QED
    BY <2>1, <2>2
<1>8. SameUse(B, z, a, m, C, u, c, n)
  <2>1. \A p : (p \in C /\ c[p] = TRUE) <=> (p \in B /\ a[p] = TRUE)
    BY <1>5, <1>6
  <2>2. ASSUME NEW p \in B, NEW w \in Words, p <= w, w + 2 < p + z[p] PROVE n[w] = m[w]
    <3>1. PICK k \in Nat : k = z[p]
      BY <1>1 DEF Tiles
    <3>2. p \in Nat /\ p + k <= top /\ w + 2 < p + k
      BY <1>1, <2>2, <3>1, TilesAt
    <3>3. w \in Int
      BY HeapAssumption DEF Words
    <3>4. w < top - 1
      BY ONLY <3>2, <3>3, k \in Nat, top \in Nat
    <3>. QED
      BY <1>4, <3>4 DEF BelowSame
  <2>. QED
    BY <1>5, <2>1, <2>2 DEF SameUse
<1>9. Held(C, u, c, n, own)
  BY <1>1, <1>8, HeldKept
<1>. QED
  BY <1>2, <1>3, <1>4, <1>6, <1>7, <1>9 DEF FreeAt

LEMMA MallocExtendsKeeps == ASSUME HeapInv, NEW n \in Nat, MallocExtends(n) PROVE HeapInv'
<1>1. PICK B, z, a : Whole(B, z, a, brk, mem, owned)
  BY DEF HeapInv
<1>2. brk \in Nat
  BY <1>1 DEF Whole, Tiles
<1>3. PICK s \in Nat : s = Max({BlockSize(n), CHUNKSIZE})
                       /\ BlockSize(n) <= s /\ 4 <= s /\ s % 2 = 0
  <2>1. PICK b \in Nat : b = BlockSize(n) /\ 4 <= b /\ b % 2 = 0
    BY EvenSize
  <2>2. PICK h \in Nat : h = CHUNKSIZE /\ h % 2 = 0
    BY HeapAssumption
  <2>3. \E q \in {b, h} : \A p \in {b, h} : q >= p
    BY <2>1, <2>2
  <2>4. Max({b, h}) \in {b, h} /\ \A p \in {b, h} : Max({b, h}) >= p
    BY <2>3 DEF Max
  <2>5. PICK s : s = Max({b, h})
    OBVIOUS
  <2>6. s \in Nat /\ b <= s /\ 4 <= s /\ s % 2 = 0
    BY <2>1, <2>2, <2>4, <2>5
  <2>. QED
    BY <2>1, <2>2, <2>5, <2>6
<1>4. PICK e \in Nat : e = brk + s
  BY <1>2
<1>5. e <= MAX_HEAP /\ brk' = e /\ Given(Extended(s).mem, Extended(s).bp, n)
  BY <1>3, <1>4 DEF MallocExtends, Sbrk
<1>6. PICK m : m = GrownWords(mem, brk, s, e)
  OBVIOUS
<1>7. Extended(s) = Coalesce(m, brk)
  <2>1. s % 2 = 0 /\ e - 1 = brk + s - 1
    <3>1. s % 2 = 0
      BY <1>3
    <3>2. e - 1 = brk + s - 1
      BY ONLY <1>2, <1>4, s \in Nat, e \in Nat
    <3>. QED
      BY <3>1, <3>2
  <2>. QED
    BY ONLY <1>6, <2>1 DEF Extended, GrownWords
<1>8. PICK C : C = B \cup {brk}
  OBVIOUS
<1>9. PICK u : u = [p \in C |-> IF p = brk THEN s ELSE z[p]]
  OBVIOUS
<1>10. PICK c : c = [p \in C |-> IF p = brk THEN FALSE ELSE a[p]]
  OBVIOUS
<1>11. Grown(B, z, a, brk, s, C, u, c)
  BY <1>8, <1>9, <1>10 DEF Grown
<1>12. /\ Tiles(C, u, c, e) /\ Tagged(C, u, c, e, m) /\ ApartBut(C, u, c, brk) /\ Held(C, u, c, m, owned)
       /\ brk \in C /\ brk # 2 /\ c[brk] = FALSE /\ u[brk] = s
  <2>1. 4 <= s /\ e <= MAX_HEAP
    BY <1>3, <1>5
  <2>2. FreeAt(C, u, c, e, m, owned, brk, s)
    BY ONLY <1>1, <1>2, <1>4, <1>6, <1>11, <2>1, s \in Nat, e \in Nat, GrownWhole, SMT
  <2>. QED
    BY <2>2 DEF FreeAt
<1>13. PICK k : k = Coalesce(m, brk).mem
  OBVIOUS
<1>14. PICK D, v, d : JoinedAt(C, u, c, m, brk, D, v, d, k, e)
  BY ONLY <1>2, <1>12, <1>13, e \in Nat, CoalesceLemma, Zenon
<1>15. PICK x \in Nat : Joined(C, u, c, m, D, v, d, k, e, x) /\ x = Coalesce(m, brk).bp /\ u[brk] <= v[x]
  BY <1>14 DEF JoinedAt
<1>16. /\ Tiles(D, v, d, e) /\ Tagged(D, v, d, e, k) /\ Apart(D, v, d) /\ SameUse(C, u, c, m, D, v, d, k)
       /\ x \in D /\ x # 2 /\ d[x] = FALSE
  BY <1>15 DEF Joined
<1>17. Whole(D, v, d, e, k, owned)
  <2>1. Held(D, v, d, k, owned)
    BY <1>12, <1>16, HeldKept
  <2>. QED
    BY <1>16, <2>1 DEF Whole
<1>18. BlockSize(n) <= v[x]
  <2>1. BlockSize(n) \in Nat /\ v[x] \in Nat /\ s <= v[x]
    BY <1>12, <1>15, <1>16, EvenSize DEF Tiles
  <2>. QED
    BY <1>3, <2>1
<1>19. Given(k, x, n) /\ d[x] # TRUE
  BY <1>5, <1>7, <1>13, <1>15, <1>16
<1>. QED
  BY ONLY <1>5, <1>16, <1>17, <1>18, <1>19, GivenWhole, e \in Nat, x \in Nat, n \in Nat, Zenon

\* The block at x is marked free, before coalesce.
LEMMA FreedWhole ==
  ASSUME NEW B, NEW z, NEW a, NEW top \in Nat, NEW m, NEW own, Whole(B, z, a, top, m, own),
         NEW x \in Nat, x \in DOMAIN own, NEW e \in Nat, e = x + z[x],
         NEW b \in BOOLEAN, b = FALSE, NEW C, NEW u, NEW c, Covered(B, z, a, x, e, b, C, u, c),
         NEW n, n = PutTags(m, x, e - x, b)
  PROVE  FreeAt(C, u, c, top, n, Restrict(own, DOMAIN own \ {x}), x, z[x])
<1>1. Tiles(B, z, a, top) /\ Tagged(B, z, a, top, m) /\ Apart(B, z, a) /\ Held(B, z, a, m, own)
  BY DEF Whole
<1>2. x \in B /\ a[x] = TRUE /\ x # 2
  BY <1>1 DEF Held
<1>3. PICK l \in Nat : l = z[x] /\ 2 <= l
  BY <1>1, <1>2 DEF Tiles
<1>4. x < e /\ e - x = l /\ e = x + l
  <2>1. e = x + l
    BY <1>3
  <2>. QED
    BY ONLY <1>3, <2>1, x \in Nat, e \in Nat, l \in Nat
<1>5. e \in B \cup {top}
  BY <1>1, <1>2 DEF Tiles
<1>6. Tiles(C, u, c, top)
  BY <1>1, <1>2, <1>4, <1>5, JoinTiles
<1>7. Tagged(C, u, c, top, n) /\ AllBut(n, m, x - 1, e - 2)
  <2>1. x \in B /\ x # 2 /\ x < e
    BY <1>2, <1>4
  <2>. QED
    BY ONLY <2>1, <1>1, <1>5, b \in BOOLEAN, x \in Nat, e \in Nat, top \in Nat, n = PutTags(m, x, e - x, b),
            Covered(B, z, a, x, e, b, C, u, c), JoinTagged, SMT
<1>8. C = B
  <2>1. \A p \in B : p < x \/ e <= p \/ p = x
    <3>. SUFFICES ASSUME NEW p \in B PROVE p < x \/ e <= p \/ p = x
      OBVIOUS
    <3>1. p \in Nat /\ (x < p => e <= p)
      BY <1>1, <1>2, TilesAt
    <3>. QED
      BY ONLY <3>1, x \in Nat
  <2>. QED
    BY <1>2, <2>1 DEF Covered
<1>9. \A p \in B : u[p] = z[p] /\ c[p] = IF p = x THEN FALSE ELSE a[p]
  BY <1>3, <1>4, <1>8 DEF Covered
<1>10. ApartBut(C, u, c, x)
  BY <1>1, <1>8, <1>9 DEF Apart, ApartBut
<1>. DEFINE D == DOMAIN own \ {x}
            h == Restrict(own, D)
<1>11. DOMAIN h = D /\ h = [q \in D |-> h[q]] /\ \A q \in D : h[q] = own[q]
  BY DEF Restrict
<1>. HIDE DEF h
<1>12. ASSUME NEW q \in D, NEW w \in q .. q + own[q] - 1 PROVE n[w] = Bytes(q)
  <2>1. q \in B /\ q # x /\ own[q] \in Nat /\ own[q] + 2 <= z[q] /\ m[w] = Bytes(q)
    BY <1>1 DEF Held
  <2>2. PICK o \in Nat : o = own[q]
    BY <2>1
  <2>3. PICK d \in Nat : d = z[q]
    BY <1>1, <2>1 DEF Tiles
  <2>4. q \in Nat /\ 2 <= q /\ q + d <= top /\ (q < x => q + d <= x) /\ (x < q => e <= q)
    BY <1>1, <1>2, <2>1, <2>3, TilesAt
  <2>5. o + 2 <= d /\ w \in q .. q + o - 1 /\ q # x
    BY <2>1, <2>2, <2>3
  <2>6. top <= MAX_HEAP /\ MAX_HEAP \in Nat
    BY <1>1, HeapAssumption DEF Tagged
  <2>7. w \in Words /\ w # x - 1 /\ w # e - 2
    BY ONLY <1>3, <1>4, <2>4, <2>5, <2>6, x \in Nat, e \in Nat, top \in Nat, o \in Nat, d \in Nat, l \in Nat DEF Words
  <2>8. n[w] = m[w]
    BY <1>7, <2>7 DEF AllBut
  <2>. QED
    BY <2>1, <2>8
<1>13. Held(C, u, c, n, h)
  <2>1. {p \in C : c[p] = TRUE} = DOMAIN h \cup {2} /\ 2 \notin DOMAIN h
    <3>1. {p \in B : a[p] = TRUE} = DOMAIN own \cup {2} /\ 2 \notin DOMAIN own
      BY ONLY <1>1 DEF Held
    <3>2. {p \in C : c[p] = TRUE} = {p \in B : a[p] = TRUE} \ {x}
      BY ONLY <1>8, <1>9
    <3>. QED
      BY ONLY <1>2, <1>11, <3>1, <3>2
  <2>2. \A p \in DOMAIN h : h[p] \in Nat /\ h[p] + 2 <= u[p]
    BY <1>1, <1>9, <1>11 DEF Held
  <2>3. \A p \in DOMAIN h : \A w \in p .. p + h[p] - 1 : n[w] = Bytes(p)
    BY <1>11, <1>12
  <2>. QED
    BY <1>11, <2>1, <2>2, <2>3 DEF Held
<1>14. x \in C /\ c[x] = FALSE /\ u[x] = z[x]
  BY <1>2, <1>8, <1>9
<1>. QED
  BY <1>2, <1>6, <1>7, <1>10, <1>13, <1>14 DEF FreeAt, h

LEMMA FreeKeeps == ASSUME HeapInv, NEW x, Free(x) PROVE HeapInv'
<1>1. PICK B, z, a : Whole(B, z, a, brk, mem, owned)
  BY DEF HeapInv
<1>2. brk \in Nat /\ Tiles(B, z, a, brk) /\ Tagged(B, z, a, brk, mem) /\ Held(B, z, a, mem, owned)
  BY <1>1 DEF Whole, Tiles
<1>3. x \in DOMAIN owned /\ x \in B /\ x \in Nat
  BY <1>2 DEF Free, Held, Tiles
<1>4. PICK l \in Nat : l = z[x] /\ Size(mem, x) = l
  <2>1. Size(mem, x) = z[x]
    BY ONLY <1>2, <1>3, Reads
  <2>. QED
    BY <1>2, <1>3, <2>1 DEF Tiles
<1>5. PICK e \in Nat : e = x + z[x] /\ e - x = l
  BY <1>3, <1>4
<1>6. PICK b \in BOOLEAN : b = FALSE
  OBVIOUS
<1>7. PICK m : m = PutTags(mem, x, e - x, b)
  OBVIOUS
<1>8. PICK C : C = {p \in B : p < x \/ e <= p} \cup {x}
  OBVIOUS
<1>9. PICK u : u = [p \in C |-> IF p = x THEN e - x ELSE z[p]]
  OBVIOUS
<1>10. PICK c : c = [p \in C |-> IF p = x THEN b ELSE a[p]]
  OBVIOUS
<1>11. Covered(B, z, a, x, e, b, C, u, c)
  BY <1>8, <1>9, <1>10 DEF Covered
<1>12. PICK own : own = Restrict(owned, DOMAIN owned \ {x})
  OBVIOUS
<1>13. FreeAt(C, u, c, brk, m, own, x, z[x])
  <2>1. x \in DOMAIN owned /\ e = x + z[x]
    BY <1>3, <1>5
  <2>2. brk \in Nat /\ x \in Nat
    BY <1>2, <1>3
  <2>3. FreeAt(C, u, c, brk, m, Restrict(owned, DOMAIN owned \ {x}), x, z[x])
    BY ONLY <1>1, <1>6, <1>7, <1>11, <2>1, <2>2, e \in Nat, b \in BOOLEAN, FreedWhole, Zenon
  <2>. QED
    BY <1>12, <2>3
<1>14. /\ Tiles(C, u, c, brk) /\ Tagged(C, u, c, brk, m) /\ ApartBut(C, u, c, x) /\ Held(C, u, c, m, own)
       /\ x \in C /\ x # 2 /\ c[x] = FALSE
  BY <1>13 DEF FreeAt
<1>15. PICK k : k = Coalesce(m, x).mem
  OBVIOUS
<1>16. mem' = k /\ owned' = own /\ brk' = brk
  <2>1. m = PutTags(mem, x, Size(mem, x), FALSE)
    BY <1>4, <1>5, <1>6, <1>7
  <2>. QED
    BY <1>12, <1>15, <2>1 DEF Free
<1>17. PICK D, v, d : JoinedAt(C, u, c, m, x, D, v, d, k, brk)
  BY ONLY <1>2, <1>3, <1>14, <1>15, CoalesceLemma, Zenon
<1>18. PICK y \in Nat : Joined(C, u, c, m, D, v, d, k, brk, y)
  BY <1>17 DEF JoinedAt
<1>19. Tiles(D, v, d, brk) /\ Tagged(D, v, d, brk, k) /\ Apart(D, v, d) /\ SameUse(C, u, c, m, D, v, d, k)
  BY <1>18 DEF Joined
<1>20. Held(D, v, d, k, own)
  BY <1>2, <1>14, <1>19, HeldKept
<1>21. Whole(D, v, d, brk', mem', owned')
  BY <1>16, <1>19, <1>20 DEF Whole
<1>. QED
  BY <1>21 DEF HeapInv

-----------------------------------------------------------------------------
\* After mm_init

LEMMA InitWhole == HeapInit => HeapInv
<1>. SUFFICES ASSUME HeapInit PROVE HeapInv
  OBVIOUS
<1>1. PICK h \in Nat : h = CHUNKSIZE /\ 4 <= h /\ 4 + h <= MAX_HEAP /\ MAX_HEAP \in Nat
  BY HeapAssumption
<1>2. brk = 4 + h /\ brk \in Nat
  BY <1>1 DEF HeapInit
<1>3. PICK B : B = {2, 4}
  OBVIOUS
<1>4. PICK z : z = [p \in B |-> IF p = 2 THEN 2 ELSE h]
  OBVIOUS
<1>5. PICK a : a = [p \in B |-> IF p = 2 THEN TRUE ELSE FALSE]
  OBVIOUS
<1>6. z[2] = 2 /\ z[4] = h /\ a[2] = TRUE /\ a[4] = FALSE
  BY <1>3, <1>4, <1>5
<1>7. Tiles(B, z, a, brk)
  <2>1. 2 + z[2] = 4 /\ 4 + z[4] = brk
    BY <1>2, <1>6
  <2>2. \A p \in B : 2 <= p /\ p < brk /\ p \in Nat
    BY <1>1, <1>2, <1>3
  <2>3. \A p \in B : z[p] \in Nat /\ 2 <= z[p] /\ a[p] \in BOOLEAN
    <3>1. \A p \in B : z[p] \in Nat /\ 2 <= z[p]
      BY <1>1, <1>3, <1>6
    <3>2. \A p \in B : a[p] \in BOOLEAN
      BY ONLY <1>3, <1>6, Zenon
    <3>. QED
      BY <3>1, <3>2
  <2>4. \A p \in B : p + z[p] \in B \cup {brk}
    BY <1>3, <2>1
  <2>5. \A p, q \in B : p < q => p + z[p] <= q
    BY <1>3, <2>1
  <2>6. \A p \in B \cup {brk} : p = 2 \/ \E q \in B : q + z[q] = p
    BY <1>3, <2>1
  <2>. QED
    BY <1>2, <1>3, <1>6, <2>2, <2>3, <2>4, <2>5, <2>6 DEF Tiles
<1>8. /\ mem = [w \in Words |-> mem[w]]
      /\ mem[1] = Tag(2, TRUE) /\ mem[2] = Tag(2, TRUE) /\ mem[3] = Tag(h, FALSE)
      /\ mem[2 + h] = Tag(h, FALSE) /\ mem[3 + h] = Tag(0, TRUE)
  <2>. DEFINE word(w) == CASE w \in {1, 2} -> Tag(DSIZE, TRUE)
                           [] w \in {3, 2 + CHUNKSIZE} -> Tag(CHUNKSIZE, FALSE)
                           [] w = 3 + CHUNKSIZE -> Tag(0, TRUE)
                           [] OTHER -> Junk
  <2>1. mem = [w \in Words |-> word(w)]
    BY DEF HeapInit, Words
  <2>2. 1 \in Words /\ 2 \in Words /\ 3 \in Words /\ 2 + h \in Words /\ 3 + h \in Words
    BY <1>1 DEF Words
  <2>3. /\ 3 \notin {1, 2} /\ 2 + h \notin {1, 2} /\ 3 + h \notin {1, 2} /\ 3 + h \notin {3, 2 + h}
        /\ 1 \notin {3, 2 + h} /\ 2 \notin {3, 2 + h} /\ 1 # 3 + h /\ 2 # 3 + h /\ 3 # 3 + h /\ 2 + h # 3 + h
    BY <1>1
  <2>4. CHUNKSIZE = h /\ DSIZE = 2
    BY <1>1 DEF DSIZE
  <2>5. /\ \A w : w \in {1, 2} /\ w \notin {3, 2 + h} /\ w # 3 + h => word(w) = Tag(DSIZE, TRUE)
        /\ \A w : w \notin {1, 2} /\ w \in {3, 2 + h} /\ w # 3 + h => word(w) = Tag(CHUNKSIZE, FALSE)
        /\ \A w : w \notin {1, 2} /\ w \notin {3, 2 + h} /\ w = 3 + h => word(w) = Tag(0, TRUE)
    BY ONLY <2>4, Zenon
  <2>. HIDE DEF word
  <2>. QED
    BY <2>1, <2>2, <2>3, <2>4, <2>5
<1>9. Tagged(B, z, a, brk, mem)
  <2>1. brk <= MAX_HEAP /\ brk - 1 = 3 + h
    BY <1>1, <1>2
  <2>2. mem[2 - 1] = Tag(z[2], a[2]) /\ mem[2 + z[2] - 2] = Tag(z[2], a[2])
    <3>1. 2 - 1 = 1 /\ 2 + 2 - 2 = 2
      OBVIOUS
    <3>. QED
      BY <1>6, <1>8, <3>1
  <2>3. mem[4 - 1] = Tag(z[4], a[4]) /\ mem[4 + z[4] - 2] = Tag(z[4], a[4])
    <3>1. 4 - 1 = 3 /\ 4 + h - 2 = 2 + h
      OBVIOUS
    <3>. QED
      BY <1>6, <1>8, <3>1
  <2>. QED
    BY <1>3, <1>8, <2>1, <2>2, <2>3 DEF Tagged
<1>10. Apart(B, z, a)
  <2>1. 2 + z[2] = 4 /\ 4 + z[4] = brk /\ brk # 2 /\ brk # 4
    BY <1>1, <1>2, <1>6
  <2>. QED
    BY <1>3, <1>6, <2>1 DEF Apart
<1>11. Held(B, z, a, mem, owned)
  <2>1. owned = [p \in {} |-> 0]
    BY DEF HeapInit
  <2>2. {p \in B : a[p] = TRUE} = {2}
    BY <1>3, <1>6
  <2>. QED
    BY <2>1, <2>2 DEF Held
<1>. QED
  BY <1>7, <1>9, <1>10, <1>11 DEF HeapInv, Whole

\* The heap is whole whatever the order of mm_malloc and mm_free: the blocks
\* fill it, each with its size at both ends, no two free ones are neighbours,
\* those in use are the ones callers hold, and what they stored is still there.
THEOREM HeapStaysWhole == HeapSpec => []HeapWhole
<1>1. HeapInit => HeapInv
  BY InitWhole
<1>2. HeapInv /\ [HeapNext]_heapVars => HeapInv'
  <2>. SUFFICES ASSUME HeapInv, [HeapNext]_heapVars PROVE HeapInv'
    OBVIOUS
  <2>1. CASE UNCHANGED heapVars
    <3>1. PICK B, z, a : Whole(B, z, a, brk, mem, owned)
      BY DEF HeapInv
    <3>2. Whole(B, z, a, brk', mem', owned')
      BY <2>1, <3>1 DEF heapVars
    <3>. QED
      BY <3>2 DEF HeapInv
  <2>2. Requests \subseteq Nat
    BY HeapAssumption
  <2>3. ASSUME NEW n \in Requests, MallocFits(n) PROVE HeapInv'
    BY <2>2, <2>3, MallocFitsKeeps
  <2>4. ASSUME NEW n \in Requests, MallocExtends(n) PROVE HeapInv'
    BY <2>2, <2>4, MallocExtendsKeeps
  <2>5. ASSUME NEW n \in Requests, MallocFails(n) PROVE HeapInv'
    BY <2>1, <2>5 DEF MallocFails
  <2>6. ASSUME NEW p \in DOMAIN owned, Free(p) PROVE HeapInv'
    BY <2>6, FreeKeeps
  <2>. QED
    BY <2>1, <2>3, <2>4, <2>5, <2>6 DEF HeapNext
<1>3. HeapInv => HeapWhole
  BY WholeHeap
<1>. QED
  BY <1>1, <1>2, <1>3, PTL DEF HeapSpec

-----------------------------------------------------------------------------
(***************************************************************************)
(* Unix.  A lock file keeps a daemon single (already_running in            *)
(* lib/lockreg.c and daemons/single.c, with daemonize and the two daemons  *)
(* of daemons/reread.c and reread2.c), for any number of copies, of        *)
(* operators and of signals they send.                                     *)
(***************************************************************************)

\* What is to be done by a task

\* A statement of a handler or an operator, which has no part in who works.
Aside(c) == c.op \in {"setmask", "kill"} \/ (c.op = "add" /\ c.x = "reread")
Exits(c) == c.op = "exit"

\* A task will do the statements of the program D from number i on, and
\* before that only some aside;
Reached(code, D, i) ==
    \E S, n : /\ n \in Nat /\ code \in Seq(S) /\ Len(code) = n + (Len(D) + 1 - i)
              /\ \A j \in 1 .. n : Aside(code[j])
              /\ \A j \in i .. Len(D) : code[n + (j + 1 - i)] = D[j]
\* or it will end its process.
Ending(code) ==
    \E S, n : /\ code \in Seq(S) /\ n \in 1 .. Len(code) /\ Exits(code[n])
              /\ \A j \in 1 .. n : j < n => Aside(code[j])
Handler(code) == \E S : code \in Seq(S) /\ \A j \in 1 .. Len(code) : Aside(code[j]) \/ Exits(code[j])

Daemon1 == << Fork("pid", <<>>, <<Exit(0)>>), Sigaction("HUP", "ign", <<>>),
              Fork("pid", <<>>, <<Exit(0)>>), Close("0"), Close("1"),
              lockfile(<<Exit(1)>>), Set("daemon.pid", 0), GetPid("daemon.pid"),
              SignalDfl("HUP"), Block(AllSignals), Create("tid", thr_fn), Work, Exit(0) >>
Daemon2 == << Fork("pid", <<>>, <<Exit(0)>>), Sigaction("HUP", "ign", <<>>),
              Fork("pid", <<>>, <<Exit(0)>>), Close("0"), Close("1"),
              lockfile(<<Exit(1)>>), Set("daemon.pid", 0), GetPid("daemon.pid"),
              Catch("TERM", sigterm), Catch("HUP", sighup), Work, Exit(0) >>
Server  == << SigWait(AllSignals), IfGot("HUP", <<Add("reread", 1)>>, <<>>),
              IfGot("TERM", <<Exit(0)>>, <<>>), thr_fn[1] >>
Daemon == {Daemon1, Daemon2}

LEMMA DaemonStatements ==
  ASSUME NEW D \in Daemon
  PROVE  /\ Len(D) \in {12, 13}
         /\ \A j \in {1, 3} : D[j] = Fork("pid", <<>>, <<Exit(0)>>)
         /\ D[2] = Sigaction("HUP", "ign", <<>>)
         /\ \A j \in {4, 5} : D[j] \in {Close("0"), Close("1")}
         /\ D[6] = lockfile(<<Exit(1)>>)
         /\ D[7] = Set("daemon.pid", 0)
         /\ D[8] = GetPid("daemon.pid")
         /\ \A j \in 9 .. Len(D) :
               D[j] \in {SignalDfl("HUP"), Block(AllSignals), Create("tid", thr_fn), Work, Exit(0),
                         Catch("TERM", sigterm), Catch("HUP", sighup)}
<1>1. CASE D = Daemon1
  BY <1>1 DEF Daemon1
<1>2. CASE D = Daemon2
  BY <1>2 DEF Daemon2
<1>. QED
  BY <1>1, <1>2 DEF Daemon

LEMMA ServerStatements ==
  /\ Len(Server) = 4
  /\ Server[1] = SigWait(AllSignals)
  /\ Server[2] = IfGot("HUP", <<Add("reread", 1)>>, <<>>)
  /\ Server[3] = IfGot("TERM", <<Exit(0)>>, <<>>)
  /\ Server[4] = thr_fn[1]
BY DEF Server

\* What the statements are.
LEMMA StatementFields ==
  /\ \A c \in {Fork("pid", <<>>, <<Exit(0)>>)} :
        c.op = "fork" /\ c.x = "pid" /\ c.a = <<>> /\ c.b = <<Exit(0)>> /\ c.c = ErrSys
  /\ \A c \in {Close("0"), Close("1")} : c.op = "close"
  /\ \A c \in {lockfile(<<Exit(1)>>)} :
        c.op = "setlk" /\ c.x = "daemon.pid" /\ c.y = "w" /\ c.a = <<>> /\ c.c = <<Exit(1)>>
  /\ \A c \in {Set("daemon.pid", 0)} : c.op = "set" /\ c.x = "daemon.pid"
  /\ \A c \in {GetPid("daemon.pid")} : c.op = "getpid" /\ c.x = "daemon.pid"
  /\ \A c \in {Sigaction("HUP", "ign", <<>>), SignalDfl("HUP"), Catch("TERM", sigterm), Catch("HUP", sighup)} :
        c.op = "sigaction" /\ c.a \in {<<>>, sigterm, sighup}
  /\ \A c \in {Block(AllSignals)} : c.op = "block"
  /\ \A c \in {Create("tid", thr_fn)} : c.op = "create" /\ c.a = thr_fn /\ c.c = ErrSys
  /\ \A c \in {Work} : c.op = "sleep"
  /\ Exits(Exit(0)) /\ Exits(Exit(1))
  /\ \A m : SetMask(m).op = "setmask"
<1>1. \A c \in {Fork("pid", <<>>, <<Exit(0)>>)} :
        c.op = "fork" /\ c.x = "pid" /\ c.a = <<>> /\ c.b = <<Exit(0)>> /\ c.c = ErrSys
  BY DEF Fork, Stmt
<1>2. \A d : Close(d).op = "close"
  BY DEF Close, Stmt
<1>3. \A c \in {lockfile(<<Exit(1)>>)} :
        c.op = "setlk" /\ c.x = "daemon.pid" /\ c.y = "w" /\ c.a = <<>> /\ c.c = <<Exit(1)>>
  BY DEF lockfile, write_lock, SetLk, Stmt
<1>4. /\ \A c \in {Set("daemon.pid", 0)} : c.op = "set" /\ c.x = "daemon.pid"
      /\ \A c \in {GetPid("daemon.pid")} : c.op = "getpid" /\ c.x = "daemon.pid"
  BY DEF Set, GetPid, Stmt
<1>5. \A s, k, a : Sigaction(s, k, a).op = "sigaction" /\ Sigaction(s, k, a).a = a
  BY DEF Sigaction, Stmt
<1>6. \A c \in {Sigaction("HUP", "ign", <<>>), SignalDfl("HUP"), Catch("TERM", sigterm), Catch("HUP", sighup)} :
        c.op = "sigaction" /\ c.a \in {<<>>, sigterm, sighup}
  BY <1>5 DEF SignalDfl, Catch
<1>7. /\ \A c \in {Block(AllSignals)} : c.op = "block"
      /\ \A m : SetMask(m).op = "setmask"
  BY DEF Block, SetMask, Stmt
<1>8. \A c \in {Create("tid", thr_fn)} : c.op = "create" /\ c.a = thr_fn /\ c.c = ErrSys
  BY DEF Create, Stmt
<1>9. \A c \in {Work} : c.op = "sleep"
  BY DEF Work, Sleep, Stmt
<1>10. Exits(Exit(0)) /\ Exits(Exit(1))
  BY DEF Exits, Exit, Stmt
<1>. QED
  BY <1>1, <1>2, <1>3, <1>4, <1>6, <1>7, <1>8, <1>9, <1>10

LEMMA ServerFields ==
  /\ SigWait(AllSignals).op = "sigwait"
  /\ \A c \in {IfGot("HUP", <<Add("reread", 1)>>, <<>>)} :
        c.op = "if" /\ c.a = <<Add("reread", 1)>> /\ c.b = <<>>
  /\ \A c \in {IfGot("TERM", <<Exit(0)>>, <<>>)} :
        c.op = "if" /\ c.a = <<Exit(0)>> /\ c.b = <<>>
  /\ thr_fn = <<thr_fn[1]>> /\ thr_fn[1].op = "while" /\ thr_fn[1].b = <<>>
  /\ thr_fn[1].a = << SigWait(AllSignals), IfGot("HUP", <<Add("reread", 1)>>, <<>>),
                      IfGot("TERM", <<Exit(0)>>, <<>>) >>
  /\ Aside(Add("reread", 1))
<1>1. thr_fn = <<thr_fn[1]>> /\ thr_fn[1] = Forever(<< SigWait(AllSignals), IfGot("HUP", <<Add("reread", 1)>>, <<>>),
                      IfGot("TERM", <<Exit(0)>>, <<>>) >>)
  BY DEF thr_fn
<1>2. \A a : Forever(a).op = "while" /\ Forever(a).b = <<>> /\ Forever(a).a = a
  BY DEF Forever, While, Stmt
<1>3. \A m, a, b : IfGot(m, a, b).op = "if" /\ IfGot(m, a, b).a = a /\ IfGot(m, a, b).b = b
  BY DEF IfGot, If, Stmt
<1>4. Aside(Add("reread", 1)) /\ SigWait(AllSignals).op = "sigwait"
  BY DEF Add, Stmt, Aside, SigWait
<1>. QED
  BY <1>1, <1>2, <1>3, <1>4

LEMMA Handlers == \A code \in {<<>>, sigterm, sighup} : Handler(code)
<1>1. Aside(Add("reread", 1)) /\ Exits(Exit(0))
  BY ServerFields, StatementFields
<1>2. Handler(<<>>)
  BY DEF Handler
<1>3. ASSUME NEW c, Aside(c) \/ Exits(c) PROVE Handler(<<c>>)
  <2>1. <<c>> \in Seq({c}) /\ Len(<<c>>) = 1 /\ <<c>>[1] = c
    OBVIOUS
  <2>2. \A j \in 1 .. Len(<<c>>) : j = 1
    BY <2>1
  <2>3. \A j \in 1 .. Len(<<c>>) : Aside(<<c>>[j]) \/ Exits(<<c>>[j])
    BY <1>3, <2>1, <2>2
  <2>. QED
    BY <2>1, <2>3 DEF Handler
<1>. QED
  BY <1>1, <1>2, <1>3 DEF sigterm, sighup

\* No statement of the daemons or of the thread is one aside.
LEMMA NoneAside ==
  /\ \A D \in Daemon : \A j \in 1 .. Len(D) : ~Aside(D[j])
  /\ \A j \in 1 .. 4 : ~Aside(Server[j]) /\ ~Exits(Server[j])
<1>1. \A c : c.op \in {"fork", "close", "setlk", "set", "getpid", "sigaction", "block", "create", "sleep",
                       "exit", "sigwait", "if", "while"} => ~Aside(c)
  BY DEF Aside
<1>2. ASSUME NEW D \in Daemon, NEW j \in 1 .. Len(D) PROVE ~Aside(D[j])
  <2>1. Exit(0).op = "exit"
    BY StatementFields DEF Exits
  <2>2. j \in {1, 3} \/ j = 2 \/ j \in {4, 5} \/ j = 6 \/ j = 7 \/ j = 8 \/ j \in 9 .. Len(D)
    BY DaemonStatements
  <2>3. CASE j \in {1, 3} \/ j = 2 \/ j \in {4, 5}
    <3>1. D[j].op \in {"fork", "sigaction", "close"}
      BY <2>3, DaemonStatements, StatementFields
    <3>. QED
      BY <1>1, <3>1
  <2>4. CASE j = 6 \/ j = 7 \/ j = 8
    <3>1. D[j].op \in {"setlk", "set", "getpid"}
      BY <2>4, DaemonStatements, StatementFields
    <3>. QED
      BY <1>1, <3>1
  <2>5. CASE j \in 9 .. Len(D)
    <3>1. D[j].op \in {"sigaction", "block", "create", "sleep", "exit"}
      BY <2>1, <2>5, DaemonStatements, StatementFields
    <3>. QED
      BY <1>1, <3>1
  <2>. QED
    BY <2>2, <2>3, <2>4, <2>5
<1>3. \A j \in 1 .. 4 : j = 1 \/ j = 2 \/ j = 3 \/ j = 4
  OBVIOUS
<1>4. ASSUME NEW j \in 1 .. 4 PROVE ~Aside(Server[j]) /\ ~Exits(Server[j])
  BY <1>1, <1>3, ServerStatements, ServerFields DEF Exits
<1>. QED
  BY <1>2, <1>4

-----------------------------------------------------------------------------
\* How what is to be done changes

Statements(D) == /\ Len(D) \in Nat /\ \A j \in 1 .. Len(D) : ~Aside(D[j])

LEMMA ReachedNow ==
  ASSUME NEW code, NEW S, code \in Seq(S), NEW D, Len(D) \in Nat, NEW i \in Nat,
         Len(code) = Len(D) + 1 - i, \A j \in i .. Len(D) : code[j + 1 - i] = D[j]
  PROVE  Reached(code, D, i)
<1>1. PICK n : n = 0
  OBVIOUS
<1>2. n \in Nat /\ Len(code) = n + (Len(D) + 1 - i) /\ \A j \in 1 .. n : Aside(code[j])
  BY <1>1
<1>3. ASSUME NEW j \in i .. Len(D) PROVE code[n + (j + 1 - i)] = D[j]
  <2>1. n + (j + 1 - i) = j + 1 - i
    BY <1>1
  <2>. QED
    BY <2>1
<1>. QED
  BY <1>2, <1>3 DEF Reached

LEMMA Skipped ==
  ASSUME NEW code, code # <<>>, Aside(Head(code))
  PROVE  /\ Ending(code) => Ending(Tail(code))
         /\ \A D, i : Statements(D) /\ i \in 1 .. Len(D) + 1 /\ Reached(code, D, i) => Reached(Tail(code), D, i)
<1>1. ASSUME Ending(code) PROVE Ending(Tail(code))
  <2>1. PICK S, n : /\ code \in Seq(S) /\ n \in 1 .. Len(code) /\ Exits(code[n])
                    /\ \A j \in 1 .. n : j < n => Aside(code[j])
    BY <1>1 DEF Ending
  <2>2. n # 1
    BY <2>1 DEF Aside, Exits
  <2>3. /\ Tail(code) \in Seq(S) /\ Len(Tail(code)) = Len(code) - 1
        /\ \A j \in 1 .. Len(Tail(code)) : Tail(code)[j] = code[j + 1]
    BY <2>1
  <2>4. n - 1 \in 1 .. Len(Tail(code)) /\ Exits(Tail(code)[n - 1])
    BY <2>1, <2>2, <2>3
  <2>5. \A j \in 1 .. n - 1 : j < n - 1 => Aside(Tail(code)[j])
    BY <2>1, <2>3
  <2>. QED
    BY <2>3, <2>4, <2>5 DEF Ending
<1>2. ASSUME NEW D, NEW i, Statements(D), i \in 1 .. Len(D) + 1, Reached(code, D, i) PROVE Reached(Tail(code), D, i)
  <2>1. PICK S, n : /\ n \in Nat /\ code \in Seq(S) /\ Len(code) = n + (Len(D) + 1 - i)
                    /\ \A j \in 1 .. n : Aside(code[j])
                    /\ \A j \in i .. Len(D) : code[n + (j + 1 - i)] = D[j]
    BY <1>2 DEF Reached
  <2>2. Len(D) \in Nat /\ i \in Nat /\ Len(code) \in Nat \ {0} /\ Head(code) = code[1]
    BY <1>2, <2>1 DEF Statements
  <2>3. n # 0
    <3>1. SUFFICES ASSUME n = 0 PROVE FALSE
      OBVIOUS
    <3>2. i \in 1 .. Len(D) /\ code[n + (i + 1 - i)] = D[i] /\ n + (i + 1 - i) = 1
      BY <1>2, <2>1, <2>2, <3>1
    <3>. QED
      BY <1>2, <2>2, <3>2 DEF Statements
  <2>4. /\ Tail(code) \in Seq(S) /\ Len(Tail(code)) = Len(code) - 1
        /\ \A j \in 1 .. Len(Tail(code)) : Tail(code)[j] = code[j + 1]
    BY <2>1
  <2>5. PICK m : m = n - 1
    OBVIOUS
  <2>6. m \in Nat /\ Len(Tail(code)) = m + (Len(D) + 1 - i)
    BY <2>1, <2>2, <2>3, <2>4, <2>5
  <2>7. \A j \in 1 .. m : Aside(Tail(code)[j])
    BY <1>2, <2>1, <2>2, <2>4, <2>5, <2>6
  <2>8. ASSUME NEW j \in i .. Len(D) PROVE Tail(code)[m + (j + 1 - i)] = D[j]
    <3>1. m + (j + 1 - i) \in 1 .. Len(Tail(code)) /\ (m + (j + 1 - i)) + 1 = n + (j + 1 - i)
      BY <2>1, <2>2, <2>3, <2>4, <2>5
    <3>. QED
      BY <2>1, <2>4, <3>1
  <2>. QED
    BY <2>4, <2>6, <2>7, <2>8 DEF Reached
<1>. QED
  BY <1>1, <1>2

LEMMA AtStatement ==
  ASSUME NEW code, code # <<>>, ~Aside(Head(code))
  PROVE  /\ Ending(code) => Exits(Head(code))
         /\ \A D, i : Statements(D) /\ i \in 1 .. Len(D) + 1 /\ Reached(code, D, i) =>
               /\ i \in 1 .. Len(D) /\ Head(code) = D[i] /\ Reached(Tail(code), D, i + 1)
<1>1. ASSUME Ending(code) PROVE Exits(Head(code))
  <2>1. PICK S, n : /\ code \in Seq(S) /\ n \in 1 .. Len(code) /\ Exits(code[n])
                    /\ \A j \in 1 .. n : j < n => Aside(code[j])
    BY <1>1 DEF Ending
  <2>. QED
    BY <2>1
<1>2. ASSUME NEW D, NEW i, Statements(D), i \in 1 .. Len(D) + 1, Reached(code, D, i)
      PROVE  i \in 1 .. Len(D) /\ Head(code) = D[i] /\ Reached(Tail(code), D, i + 1)
  <2>1. PICK S, n : /\ n \in Nat /\ code \in Seq(S) /\ Len(code) = n + (Len(D) + 1 - i)
                    /\ \A j \in 1 .. n : Aside(code[j])
                    /\ \A j \in i .. Len(D) : code[n + (j + 1 - i)] = D[j]
    BY <1>2 DEF Reached
  <2>2. Len(D) \in Nat /\ i \in Nat /\ Len(code) \in Nat \ {0} /\ Head(code) = code[1]
    BY <1>2, <2>1 DEF Statements
  <2>3. n = 0
    BY <2>1, <2>2
  <2>4. i \in 1 .. Len(D) /\ n + (i + 1 - i) = 1
    BY <1>2, <2>1, <2>2, <2>3
  <2>5. /\ Tail(code) \in Seq(S) /\ Len(Tail(code)) = Len(code) - 1
        /\ \A j \in 1 .. Len(Tail(code)) : Tail(code)[j] = code[j + 1]
    BY <2>1
  <2>6. Len(Tail(code)) = 0 + (Len(D) + 1 - (i + 1))
    BY <2>1, <2>2, <2>3, <2>5
  <2>7. ASSUME NEW j \in i + 1 .. Len(D) PROVE Tail(code)[0 + (j + 1 - (i + 1))] = D[j]
    <3>1. 0 + (j + 1 - (i + 1)) \in 1 .. Len(Tail(code)) /\ (0 + (j + 1 - (i + 1))) + 1 = n + (j + 1 - i)
      BY <2>1, <2>2, <2>3, <2>5
    <3>2. j \in i .. Len(D)
      BY <2>2
    <3>. QED
      BY <2>1, <2>5, <3>1, <3>2
  <2>8. \A j \in 1 .. 0 : Aside(Tail(code)[j])
    OBVIOUS
  <2>9. Head(code) = D[i]
    BY <2>1, <2>2, <2>4
  <2>. QED
    BY <2>4, <2>5, <2>6, <2>7, <2>8, <2>9 DEF Reached
<1>. QED
  BY <1>1, <1>2

\* A handler that is put before it, and runs to its end or to an exit.
LEMMA Pushed ==
  ASSUME NEW d, NEW code, Handler(d)
  PROVE  /\ Ending(code) => Ending(d \o code)
         /\ \A D, i : Statements(D) /\ i \in 1 .. Len(D) + 1 /\ Reached(code, D, i) =>
                         Ending(d \o code) \/ Reached(d \o code, D, i)
<1>1. PICK S : d \in Seq(S) /\ \A j \in 1 .. Len(d) : Aside(d[j]) \/ Exits(d[j])
  BY DEF Handler
<1>2. ASSUME NEW T, code \in Seq(T)
      PROVE  /\ d \o code \in Seq(S \cup T) /\ Len(d \o code) = Len(d) + Len(code)
             /\ Len(d) \in Nat /\ Len(code) \in Nat
             /\ \A j \in 1 .. Len(d) : (d \o code)[j] = d[j]
             /\ \A j \in 1 .. Len(code) : (d \o code)[Len(d) + j] = code[j]
  <2>1. d \in Seq(S \cup T) /\ code \in Seq(S \cup T)
    BY <1>1, <1>2, SeqMonotonic
  <2>2. Len(d) \in Nat /\ Len(code) \in Nat
    BY <2>1
  <2>3. d \o code \in Seq(S \cup T) /\ Len(d \o code) = Len(d) + Len(code)
    BY <2>1, ConcatProperties
  <2>4. \A j \in 1 .. Len(d) + Len(code) : (d \o code)[j] = IF j <= Len(d) THEN d[j] ELSE code[j - Len(d)]
    BY <2>1, ConcatProperties
  <2>5. ASSUME NEW j \in 1 .. Len(d) PROVE (d \o code)[j] = d[j]
    BY <2>2, <2>4
  <2>6. ASSUME NEW j \in 1 .. Len(code) PROVE (d \o code)[Len(d) + j] = code[j]
    <3>1. Len(d) + j \in 1 .. Len(d) + Len(code) /\ ~(Len(d) + j <= Len(d)) /\ (Len(d) + j) - Len(d) = j
      BY <2>2
    <3>. QED
      BY <2>4, <3>1
  <2>. QED
    BY <2>2, <2>3, <2>5, <2>6
<1>3. CASE \A j \in 1 .. Len(d) : Aside(d[j])
  <2>1. ASSUME Ending(code) PROVE Ending(d \o code)
    <3>1. PICK T, n : /\ code \in Seq(T) /\ n \in 1 .. Len(code) /\ Exits(code[n])
                      /\ \A j \in 1 .. n : j < n => Aside(code[j])
      BY <2>1 DEF Ending
    <3>2. /\ d \o code \in Seq(S \cup T) /\ Len(d \o code) = Len(d) + Len(code)
          /\ Len(d) \in Nat /\ Len(code) \in Nat
          /\ \A j \in 1 .. Len(d) : (d \o code)[j] = d[j]
          /\ \A j \in 1 .. Len(code) : (d \o code)[Len(d) + j] = code[j]
      BY <1>2, <3>1
    <3>3. PICK m : m = Len(d) + n
      OBVIOUS
    <3>4. m \in 1 .. Len(d \o code) /\ Exits((d \o code)[m])
      BY <3>1, <3>2, <3>3
    <3>5. ASSUME NEW j \in 1 .. m, j < m PROVE Aside((d \o code)[j])
      <4>1. CASE j <= Len(d)
        BY <1>3, <3>2, <4>1
      <4>2. CASE j > Len(d)
        <5>1. PICK k : k = j - Len(d)
          OBVIOUS
        <5>2. k \in 1 .. n /\ k < n /\ k \in 1 .. Len(code) /\ j = Len(d) + k
          BY <3>1, <3>2, <3>3, <3>5, <4>2, <5>1
        <5>. QED
          BY <3>1, <3>2, <5>2
      <4>3. j <= Len(d) \/ j > Len(d)
        BY <3>2
      <4>. QED
        BY <4>1, <4>2, <4>3
    <3>. QED
      BY <3>2, <3>4, <3>5 DEF Ending
  <2>2. ASSUME NEW D, NEW i, Statements(D), i \in 1 .. Len(D) + 1, Reached(code, D, i)
        PROVE  Reached(d \o code, D, i)
    <3>1. PICK T, n : /\ n \in Nat /\ code \in Seq(T) /\ Len(code) = n + (Len(D) + 1 - i)
                      /\ \A j \in 1 .. n : Aside(code[j])
                      /\ \A j \in i .. Len(D) : code[n + (j + 1 - i)] = D[j]
      BY <2>2 DEF Reached
    <3>2. /\ d \o code \in Seq(S \cup T) /\ Len(d \o code) = Len(d) + Len(code)
          /\ Len(d) \in Nat /\ Len(code) \in Nat
          /\ \A j \in 1 .. Len(d) : (d \o code)[j] = d[j]
          /\ \A j \in 1 .. Len(code) : (d \o code)[Len(d) + j] = code[j]
      BY <1>2, <3>1
    <3>3. PICK m : m = Len(d) + n
      OBVIOUS
    <3>4. Len(D) \in Nat /\ i \in Nat
      BY <2>2 DEF Statements
    <3>5. m \in Nat /\ Len(d \o code) = m + (Len(D) + 1 - i)
      BY <3>1, <3>2, <3>3, <3>4
    <3>6. ASSUME NEW j \in 1 .. m PROVE Aside((d \o code)[j])
      <4>1. CASE j <= Len(d)
        BY <1>3, <3>2, <4>1
      <4>2. CASE j > Len(d)
        <5>1. PICK k : k = j - Len(d)
          OBVIOUS
        <5>2. k \in 1 .. n /\ k \in 1 .. Len(code) /\ j = Len(d) + k
          BY <2>2, <3>1, <3>2, <3>3, <3>4, <4>2, <5>1
        <5>. QED
          BY <3>1, <3>2, <5>2
      <4>3. j <= Len(d) \/ j > Len(d)
        BY <3>2
      <4>. QED
        BY <4>1, <4>2, <4>3
    <3>7. ASSUME NEW j \in i .. Len(D) PROVE (d \o code)[m + (j + 1 - i)] = D[j]
      <4>1. PICK k : k = n + (j + 1 - i)
        OBVIOUS
      <4>2. n \in Nat /\ Len(code) = n + (Len(D) + 1 - i) /\ Len(d) \in Nat /\ m = Len(d) + n
        BY <3>1, <3>2, <3>3
      <4>3. j \in Int /\ i <= j /\ j <= Len(D)
        BY <3>4
      <4>4. k \in 1 .. Len(code) /\ m + (j + 1 - i) = Len(d) + k
        BY ONLY <3>4, <4>1, <4>2, <4>3
      <4>. QED
        BY <3>1, <3>2, <4>1, <4>4
    <3>8. PICK all, V : all = d \o code /\ V = S \cup T
      OBVIOUS
    <3>9. all \in Seq(V)
      BY <3>2, <3>8
    <3>10. Reached(all, D, i)
      BY <3>5, <3>6, <3>7, <3>8, <3>9 DEF Reached
    <3>. QED
      BY <3>8, <3>10
  <2>. QED
    BY <2>1, <2>2
<1>4. CASE \E j \in 1 .. Len(d) : Exits(d[j])
  <2>1. ASSUME NEW T, code \in Seq(T) PROVE Ending(d \o code)
    <3>1. /\ d \o code \in Seq(S \cup T) /\ Len(d \o code) = Len(d) + Len(code)
          /\ Len(d) \in Nat /\ Len(code) \in Nat
          /\ \A j \in 1 .. Len(d) : (d \o code)[j] = d[j]
      BY <1>2, <2>1
    <3>2. PICK E : E = {j \in 1 .. Len(d) : Exits(d[j])}
      OBVIOUS
    <3>. E \in SUBSET Nat
      BY <3>2
    <3>3. PICK n \in E : \A y \in E : n <= y
      BY <1>4, <3>2, LeastExists
    <3>4. n \in 1 .. Len(d \o code) /\ Exits((d \o code)[n])
      BY <3>1, <3>2
    <3>5. ASSUME NEW j \in 1 .. n, j < n PROVE Aside((d \o code)[j])
      <4>1. j \in 1 .. Len(d) /\ j \notin E
        BY <3>1, <3>2, <3>3, <3>5
      <4>. QED
        BY <1>1, <3>1, <3>2, <4>1
    <3>. QED
      BY <3>1, <3>4, <3>5 DEF Ending
  <2>2. Ending(code) => \E T : code \in Seq(T)
    BY DEF Ending
  <2>3. \A D, i : Reached(code, D, i) => \E T : code \in Seq(T)
    BY DEF Reached
  <2>. QED
    BY <2>1, <2>2, <2>3
<1>. QED
  BY <1>1, <1>3, <1>4

LEMMA HandlerReturns ==
  ASSUME NEW d, NEW m, Handler(d)
  PROVE  Handler(d \o <<SigReturn(m)>>) /\ Handler(<<SigReturn(m)>>)
<1>1. PICK c : c = SigReturn(m)
  OBVIOUS
<1>2. Aside(c)
  BY <1>1, StatementFields DEF SigReturn, Aside
<1>3. <<c>> \in Seq({c}) /\ Len(<<c>>) = 1 /\ <<c>>[1] = c
  OBVIOUS
<1>4. Handler(<<c>>)
  <2>1. \A j \in 1 .. Len(<<c>>) : j = 1
    BY <1>3
  <2>. QED
    BY <1>2, <1>3, <2>1 DEF Handler
<1>5. PICK S : d \in Seq(S) /\ \A j \in 1 .. Len(d) : Aside(d[j]) \/ Exits(d[j])
  BY DEF Handler
<1>6. d \in Seq(S \cup {c}) /\ <<c>> \in Seq(S \cup {c})
  BY <1>3, <1>5, SeqMonotonic
<1>7. /\ d \o <<c>> \in Seq(S \cup {c}) /\ Len(d \o <<c>>) = Len(d) + 1 /\ Len(d) \in Nat
      /\ \A j \in 1 .. Len(d) + 1 : (d \o <<c>>)[j] = IF j <= Len(d) THEN d[j] ELSE <<c>>[j - Len(d)]
  BY <1>3, <1>6, ConcatProperties
<1>8. ASSUME NEW j \in 1 .. Len(d) + 1 PROVE Aside((d \o <<c>>)[j]) \/ Exits((d \o <<c>>)[j])
  <2>1. CASE j <= Len(d)
    BY <1>5, <1>7, <2>1
  <2>2. CASE j = Len(d) + 1
    <3>1. j - Len(d) = 1 /\ ~(j <= Len(d))
      BY <1>7, <2>2
    <3>. QED
      BY <1>2, <1>3, <1>7, <3>1
  <2>. QED
    BY <1>7, <2>1, <2>2
<1>9. Handler(d \o <<c>>)
  BY <1>7, <1>8 DEF Handler
<1>. QED
  BY <1>1, <1>4, <1>9

-----------------------------------------------------------------------------
\* The invariant

IsTask(x) == x = [st |-> x.st, p |-> x.p, code |-> x.code, mask |-> x.mask, got |-> x.got, on |-> x.on]
IsProc(r) == r = [st |-> r.st, up |-> r.up, status |-> r.status, fd |-> r.fd, mem |-> r.mem,
                  act |-> r.act, pend |-> r.pend, alarm |-> r.alarm, vf |-> r.vf,
                  out |-> r.out, jmp |-> r.jmp]
IsUp(r) == r.st \in {"live", "stopped"}

\* Handlers do nothing that matters; a thread belongs to a process that is up.
ProcsOK(pr) ==
    /\ pr = [q \in 1 .. PROCS |-> pr[q]]
    /\ \A q \in 1 .. PROCS : IsProc(pr[q]) /\ \A s \in DOMAIN pr[q].act : Handler(pr[q].act[s].code)
TasksOK(tk, pr) ==
    /\ tk = [t \in 1 .. TASKS |-> tk[t]]
    /\ \A t \in 1 .. TASKS : IsTask(tk[t]) /\ (tk[t].st = "run" => tk[t].p \in 1 .. PROCS /\ IsUp(pr[tk[t].p]))

\* Where a task is: in the thread that takes signals or on its way to exit,
\* before the lock, between the lock and the process number, or beyond.
Side(code)    == Ending(code) \/ \E i \in 1 .. 5 : Reached(code, Server, i)
Coming(code)  == \E D \in Daemon : \E i \in 1 .. 6 : Reached(code, D, i)
Locked(code)  == \E D \in Daemon : \E i \in {7, 8} : Reached(code, D, i)
Working(code) == \E D \in Daemon : \E i \in 9 .. Len(D) + 1 : Reached(code, D, i)

HasLock(p) == \E l \in lock : l.p = p /\ l.x = "daemon.pid"
CodeOK(code, p) ==
    \/ Side(code) \/ Coming(code)
    \/ HasLock(p) /\ (Locked(code) \/ (Working(code) /\ disk["daemon.pid"] = p))

LocksOK ==
    /\ \A l \in lock : l.x = "daemon.pid" => l.y = "w" /\ l.p \in 1 .. PROCS /\ IsUp(proc[l.p])
    /\ \A l, m \in lock : l.x = "daemon.pid" /\ m.x = "daemon.pid" => l.p = m.p

Running(t) == task[t].st = "run"
OneMain ==
    \A t, u \in 1 .. TASKS : t # u /\ Running(t) /\ Running(u) /\ task[t].p = task[u].p =>
                               Side(task[t].code) \/ Side(task[u].code)

CopiesInv ==
    /\ ProcsOK(proc) /\ TasksOK(task, proc)
    /\ "daemon.pid" \in DOMAIN disk
    /\ LocksOK /\ OneMain
    /\ \A t \in 1 .. TASKS : Running(t) => CodeOK(task[t].code, task[t].p)

-----------------------------------------------------------------------------
\* Processes

LEMMA SignalledProcs ==
  ASSUME NEW pr, NEW p, NEW s, ProcsOK(pr)
  PROVE  /\ ProcsOK(Signalled(pr, p, s))
         /\ \A q \in 1 .. PROCS : Signalled(pr, p, s)[q].st = pr[q].st
<1>1. CASE Signalled(pr, p, s) = pr
  BY <1>1
<1>2. CASE Signalled(pr, p, s) # pr
  <2>1. PICK z : z = pr[p].pend \cup {s}
    OBVIOUS
  <2>2. Signalled(pr, p, s) = [pr EXCEPT ![p].pend = z]
    BY <1>2, <2>1 DEF Signalled
  <2>3. PICK pr2 : pr2 = [pr EXCEPT ![p].pend = z]
    OBVIOUS
  <2>4. pr2 = [q \in 1 .. PROCS |-> pr2[q]]
    BY <2>3 DEF ProcsOK
  <2>5. ASSUME NEW q \in 1 .. PROCS PROVE IsProc(pr2[q]) /\ pr2[q].act = pr[q].act /\ pr2[q].st = pr[q].st
    <3>1. IsProc(pr[q])
      BY DEF ProcsOK
    <3>2. pr2[q] = IF q = p THEN [pr[q] EXCEPT !.pend = z] ELSE pr[q]
      BY <2>3 DEF ProcsOK
    <3>3. CASE q = p
      BY <3>1, <3>2, <3>3 DEF IsProc
    <3>4. CASE q # p
      BY <3>1, <3>2, <3>4
    <3>. QED
      BY <3>3, <3>4
  <2>6. ProcsOK(pr2)
    BY <2>4, <2>5 DEF ProcsOK
  <2>. QED
    BY <2>2, <2>3, <2>5, <2>6
<1>. QED
  BY <1>1, <1>2

\* A change of one process, which leaves it up and its handlers what they were.
LEMMA ProcChanged ==
  ASSUME ProcsOK(proc), NEW p \in 1 .. PROCS, NEW r, IsProc(r), proc' = [proc EXCEPT ![p] = r],
         IsUp(proc[p]) => IsUp(r), \A s \in DOMAIN r.act : Handler(r.act[s].code)
  PROVE  ProcsOK(proc') /\ \A q \in 1 .. PROCS : IsUp(proc[q]) => IsUp(proc'[q])
<1>1. proc' = [q \in 1 .. PROCS |-> proc'[q]]
  BY DEF ProcsOK
<1>2. \A q \in 1 .. PROCS : proc'[q] = IF q = p THEN r ELSE proc[q]
  BY DEF ProcsOK
<1>3. \A q \in 1 .. PROCS : IsProc(proc'[q]) /\ \A s \in DOMAIN proc'[q].act : Handler(proc'[q].act[s].code)
  BY <1>2 DEF ProcsOK
<1>. QED
  BY <1>1, <1>2, <1>3 DEF ProcsOK

LEMMA EndedProcs ==
  ASSUME ProcsOK(proc), NEW p \in 1 .. PROCS, NEW n
  PROVE  /\ ProcsOK(Ended(p, n))
         /\ \A q \in 1 .. PROCS \ {p} : IsUp(proc[q]) => IsUp(Ended(p, n)[q])
<1>. DEFINE up == proc[p].up
            New(q) == CASE q = p -> [proc[p] EXCEPT !.st = IF up = 0 THEN "gone" ELSE "zombie",
                                             !.status = n, !.fd = <<>>, !.pend = {},
                                             !.alarm = FALSE, !.out = <<>>, !.jmp = <<>>]
                 [] proc[q].up = p /\ proc[q].st = "zombie" ->
                      [proc[q] EXCEPT !.up = 0, !.st = "gone"]
                 [] proc[q].up = p /\ proc[q].st = "stopped" ->
                      [proc[q] EXCEPT !.up = 0, !.st = "live", !.pend = @ \cup {"HUP"}]
                 [] proc[q].up = p /\ proc[q].st = "live" -> [proc[q] EXCEPT !.up = 0]
                 [] q = up /\ proc[p].vf -> [proc[q] EXCEPT !.mem = proc[p].mem]
                 [] OTHER -> proc[q]
<1>1. PICK pr : pr = [q \in DOMAIN proc |-> New(q)]
  OBVIOUS
<1>2. Ended(p, n) = Signalled(pr, up, "CHLD")
  BY <1>1 DEF Ended
<1>3. DOMAIN proc = 1 .. PROCS
  BY DEF ProcsOK
<1>4. pr = [q \in 1 .. PROCS |-> pr[q]]
  <2>. HIDE DEF New
  <2>. QED
    BY <1>1, <1>3
<1>5. ASSUME NEW q \in 1 .. PROCS
      PROVE  /\ IsProc(pr[q]) /\ pr[q].act = proc[q].act
             /\ q # p /\ IsUp(proc[q]) => IsUp(pr[q])
  <2>1. IsProc(proc[q]) /\ pr[q] = New(q)
    BY <1>1, <1>3 DEF ProcsOK
  <2>2. CASE q = p
    BY <2>1, <2>2 DEF IsProc
  <2>3. CASE q # p /\ proc[q].up = p /\ proc[q].st = "zombie"
    BY <2>1, <2>3 DEF IsProc, IsUp
  <2>4. CASE q # p /\ proc[q].up = p /\ proc[q].st = "stopped"
    BY <2>1, <2>4 DEF IsProc, IsUp
  <2>5. CASE q # p /\ proc[q].up = p /\ proc[q].st = "live"
    BY <2>1, <2>5 DEF IsProc, IsUp
  <2>6. CASE q # p /\ ~(proc[q].up = p /\ proc[q].st \in {"zombie", "stopped", "live"}) /\ q = up /\ proc[p].vf
    BY <2>1, <2>6 DEF IsProc, IsUp
  <2>7. CASE q # p /\ ~(proc[q].up = p /\ proc[q].st \in {"zombie", "stopped", "live"}) /\ ~(q = up /\ proc[p].vf)
    <3>1. pr[q] = proc[q]
      BY <2>1, <2>7
    <3>. QED
      BY <2>1, <3>1
  <2>. QED
    BY <2>2, <2>3, <2>4, <2>5, <2>6, <2>7
<1>6. ProcsOK(pr)
  BY <1>4, <1>5 DEF ProcsOK
<1>7. ProcsOK(Signalled(pr, up, "CHLD")) /\ \A q \in 1 .. PROCS : Signalled(pr, up, "CHLD")[q].st = pr[q].st
  BY <1>6, SignalledProcs
<1>. QED
  BY <1>2, <1>5, <1>7 DEF IsUp

-----------------------------------------------------------------------------
\* Kinds of steps

\* One task goes on.
LEMMA Moved ==
  ASSUME CopiesInv, NEW t \in 1 .. TASKS, Running(t), NEW r, IsTask(r), task' = [task EXCEPT ![t] = r],
         r.p = task[t].p, r.st = "run",
         ProcsOK(proc'), \A q \in 1 .. PROCS : IsUp(proc[q]) => IsUp(proc'[q]),
         "daemon.pid" \in DOMAIN disk', LocksOK',
         \A u \in 1 .. TASKS : \A code, p :
            u # t /\ Running(u) /\ code = task[u].code /\ p = task[u].p => CodeOK(code, p)',
         \A p : p = task[t].p => CodeOK(r.code, p)',
         Side(task[t].code) => Side(r.code)
  PROVE  CopiesInv'
<1>1. task' = [u \in 1 .. TASKS |-> task'[u]]
  BY DEF CopiesInv, TasksOK
<1>2. \A u \in 1 .. TASKS : task'[u] = IF u = t THEN r ELSE task[u]
  BY DEF CopiesInv, TasksOK
<1>3. \A u \in 1 .. TASKS : /\ IsTask(task'[u])
                            /\ task'[u].st = "run" => /\ task'[u].p \in 1 .. PROCS /\ IsUp(proc'[task'[u].p])
                                                      /\ Running(u) /\ task'[u].p = task[u].p
  BY <1>2 DEF CopiesInv, TasksOK, Running
<1>4. ASSUME NEW u \in 1 .. TASKS, NEW v \in 1 .. TASKS, u # v, Running(u)', Running(v)', task'[u].p = task'[v].p
      PROVE  Side(task'[u].code) \/ Side(task'[v].code)
  <2>1. Running(u) /\ Running(v) /\ task[u].p = task[v].p
    BY <1>3, <1>4 DEF Running
  <2>2. Side(task[u].code) \/ Side(task[v].code)
    BY <1>4, <2>1 DEF CopiesInv, OneMain
  <2>. QED
    BY <1>2, <2>2
<1>5. ASSUME NEW u \in 1 .. TASKS, Running(u)' PROVE CodeOK(task[u].code, task[u].p)'
  <2>1. Running(u) /\ task'[u].p = task[u].p
    BY <1>3, <1>5 DEF Running
  <2>2. PICK code, p : code = task'[u].code /\ p = task'[u].p
    OBVIOUS
  <2>3. CodeOK(code, p)'
    <3>1. CASE u = t
      BY <1>2, <2>1, <2>2, <3>1
    <3>2. CASE u # t
      BY <1>2, <2>1, <2>2, <3>2
    <3>. QED
      BY <3>1, <3>2
  <2>. QED
    BY <2>2, <2>3 DEF CodeOK, HasLock
<1>6. TasksOK(task', proc')
  BY <1>1, <1>3 DEF TasksOK
<1>7. OneMain'
  BY <1>4 DEF OneMain
<1>. QED
  BY <1>5, <1>6, <1>7 DEF CopiesInv

\* The lock and the number in the file stay.
LEMMA FilesSame ==
  ASSUME CopiesInv, lock' = lock, disk'["daemon.pid"] = disk["daemon.pid"],
         \A q \in 1 .. PROCS : IsUp(proc[q]) => IsUp(proc'[q])
  PROVE  LocksOK' /\ \A code, p : CodeOK(code, p) => CodeOK(code, p)'
<1>1. LocksOK'
  BY DEF CopiesInv, LocksOK
<1>2. ASSUME NEW code, NEW p, CodeOK(code, p) PROVE CodeOK(code, p)'
  <2>1. HasLock(p) => HasLock(p)'
    BY DEF HasLock
  <2>. QED
    BY <1>2, <2>1 DEF CodeOK
<1>. QED
  BY <1>1, <1>2

LEMMA MovedOn ==
  ASSUME CopiesInv, NEW t \in 1 .. TASKS, Running(t), NEW r, IsTask(r), task' = [task EXCEPT ![t] = r],
         r.p = task[t].p, r.st = "run",
         ProcsOK(proc'), \A q \in 1 .. PROCS : IsUp(proc[q]) => IsUp(proc'[q]),
         "daemon.pid" \in DOMAIN disk', lock' = lock, disk'["daemon.pid"] = disk["daemon.pid"],
         CodeOK(r.code, task[t].p), Side(task[t].code) => Side(r.code)
  PROVE  CopiesInv'
<1>1. LocksOK' /\ \A code, p : CodeOK(code, p) => CodeOK(code, p)'
  BY FilesSame
<1>2. \A u \in 1 .. TASKS : \A code, p :
            u # t /\ Running(u) /\ code = task[u].code /\ p = task[u].p => CodeOK(code, p)'
  BY <1>1 DEF CopiesInv
<1>3. \A p : p = task[t].p => CodeOK(r.code, p)'
  BY <1>1
<1>. QED
  BY <1>1, <1>2, <1>3, Moved

\* A process ends, with its locks.
LEMMA EndKept ==
  ASSUME CopiesInv, NEW p \in 1 .. PROCS, NEW n, End(p, n), disk' = disk
  PROVE  CopiesInv'
<1>1. ProcsOK(proc') /\ \A q \in 1 .. PROCS \ {p} : IsUp(proc[q]) => IsUp(proc'[q])
  BY EndedProcs DEF CopiesInv, End
<1>2. /\ task' = [u \in 1 .. TASKS |-> task'[u]]
      /\ \A u \in 1 .. TASKS : task'[u] = IF task[u].p = p THEN NoTask ELSE task[u]
  BY DEF CopiesInv, TasksOK, End
<1>3. IsTask(NoTask) /\ NoTask.st # "run"
  BY DEF IsTask, NoTask
<1>4. \A u \in 1 .. TASKS : /\ IsTask(task'[u])
                            /\ task'[u].st = "run" => /\ task'[u] = task[u] /\ task[u].p # p
                                                      /\ task'[u].p \in 1 .. PROCS /\ IsUp(proc'[task'[u].p])
  BY <1>1, <1>2, <1>3 DEF CopiesInv, TasksOK
<1>5. TasksOK(task', proc')
  BY <1>2, <1>4 DEF TasksOK
<1>6. LocksOK'
  BY <1>1 DEF CopiesInv, LocksOK, End
<1>7. OneMain'
  BY <1>4 DEF CopiesInv, OneMain, Running
<1>8. ASSUME NEW u \in 1 .. TASKS, Running(u)' PROVE CodeOK(task[u].code, task[u].p)'
  <2>1. Running(u) /\ task'[u] = task[u] /\ task[u].p # p
    BY <1>4, <1>8 DEF Running
  <2>2. HasLock(task[u].p) => HasLock(task[u].p)'
    BY <2>1 DEF HasLock, End
  <2>. QED
    BY <2>1, <2>2 DEF CopiesInv, CodeOK
<1>. QED
  BY <1>1, <1>5, <1>6, <1>7, <1>8 DEF CopiesInv

LEMMA ProgramsAreStatements ==
  /\ Statements(Server) /\ Len(Server) = 4
  /\ \A D \in Daemon : Statements(D) /\ Len(D) \in {12, 13} /\ \A i \in 1 .. 8 : i \in 1 .. Len(D) + 1
<1>1. ASSUME NEW D \in Daemon, NEW i \in 1 .. 8 PROVE i \in 1 .. Len(D) + 1
  <2>1. PICK n : n = Len(D)
    OBVIOUS
  <2>2. n \in {12, 13}
    BY <2>1, DaemonStatements
  <2>3. i \in 1 .. n + 1
    BY <2>2
  <2>. QED
    BY <2>1, <2>3
<1>. QED
  BY <1>1, NoneAside, DaemonStatements, ServerStatements DEF Statements

\* What is pushed before it does not matter.
LEMMA PushedOK ==
  ASSUME NEW d, NEW code, NEW p, Handler(d)
  PROVE  (CodeOK(code, p) => CodeOK(d \o code, p)) /\ (Side(code) => Side(d \o code))
<1>1. Statements(Server) /\ Len(Server) = 4 /\ \A D \in Daemon : Statements(D) /\ Len(D) \in {12, 13}
  BY ProgramsAreStatements
<1>2. Ending(code) => Ending(d \o code)
  BY Pushed
<1>3. ASSUME NEW i \in 1 .. 5, Reached(code, Server, i) PROVE Ending(d \o code) \/ Reached(d \o code, Server, i)
  <2>1. i \in 1 .. Len(Server) + 1
    BY <1>1
  <2>. QED
    BY <1>1, <1>3, <2>1, Pushed
<1>4. ASSUME NEW D \in Daemon, NEW i \in 1 .. Len(D) + 1, Reached(code, D, i)
      PROVE  Ending(d \o code) \/ Reached(d \o code, D, i)
  BY <1>1, <1>4, Pushed
<1>5. Side(code) => Side(d \o code)
  BY <1>2, <1>3 DEF Side
<1>9. ASSUME NEW D \in Daemon, NEW i \in 1 .. 8, Reached(code, D, i)
      PROVE  Ending(d \o code) \/ Reached(d \o code, D, i)
  <2>1. i \in 1 .. Len(D) + 1
    BY ProgramsAreStatements
  <2>. QED
    BY <1>4, <1>9, <2>1
<1>6. Coming(code) => Coming(d \o code) \/ Ending(d \o code)
  BY <1>9 DEF Coming
<1>7. Locked(code) => Locked(d \o code) \/ Ending(d \o code)
  BY <1>9 DEF Locked
<1>8. Working(code) => Working(d \o code) \/ Ending(d \o code)
  BY <1>1, <1>4 DEF Working
<1>. QED
  BY <1>5, <1>6, <1>7, <1>8 DEF CodeOK, Side

\* A signal is taken, and then the task goes on as it would have.
LEMMA TakeKept ==
  ASSUME CopiesInv, NEW t \in 1 .. TASKS, Running(t), Live(P(t)), NEW s, NEW after, NEW m, NEW back,
         Take(t, s, after, m, back), disk' = disk,
         CodeOK(after, task[t].p), Side(task[t].code) => Side(after)
  PROVE  CopiesInv'
<1>1. PICK p : p = P(t)
  OBVIOUS
<1>2. p \in 1 .. PROCS /\ IsProc(proc[p]) /\ IsTask(task[t]) /\ p = task[t].p /\ IsUp(proc[p])
  BY <1>1 DEF CopiesInv, ProcsOK, TasksOK, P, Running
<1>4. CASE /\ Disp(proc[P(t)], s).k = "fn"
           /\ proc' = [proc EXCEPT ![P(t)].pend = @ \ {s}]
           /\ task' = [task EXCEPT ![t].code = Disp(proc[P(t)], s).code \o <<SigReturn(back)>> \o after,
                                   ![t].mask = m \cup {s}]
           /\ UNCHANGED lock
  <2>1. PICK d : d = Disp(proc[P(t)], s).code
    OBVIOUS
  <2>2. Handler(d)
    BY <1>1, <1>2, <2>1, Handlers DEF Disp, CopiesInv, ProcsOK, Default
  <2>3. PICK code : code = d \o <<SigReturn(back)>> \o after
    OBVIOUS
  <2>4. CodeOK(code, task[t].p) /\ (Side(task[t].code) => Side(code))
    BY <2>2, <2>3, HandlerReturns, PushedOK
  <2>5. PICK r : r = [task[t] EXCEPT !.code = code, !.mask = m \cup {s}]
    OBVIOUS
  <2>6. IsTask(r) /\ r.p = task[t].p /\ r.st = "run" /\ r.code = code
    BY <1>2, <2>5 DEF IsTask, Running
  <2>7. task' = [task EXCEPT ![t] = r]
    BY <1>4, <2>1, <2>3, <2>5 DEF CopiesInv, TasksOK
  <2>8. PICK z : z = [proc[p] EXCEPT !.pend = @ \ {s}]
    OBVIOUS
  <2>9. IsProc(z) /\ z.st = proc[p].st /\ z.act = proc[p].act
    BY <1>2, <2>8 DEF IsProc
  <2>10. proc' = [proc EXCEPT ![p] = z]
    BY <1>1, <1>4, <2>8
  <2>11. ProcsOK(proc') /\ \A q \in 1 .. PROCS : IsUp(proc[q]) => IsUp(proc'[q])
    BY <1>2, <2>9, <2>10, ProcChanged DEF CopiesInv, ProcsOK, IsUp
  <2>. QED
    BY <1>4, <2>4, <2>6, <2>7, <2>11, MovedOn DEF CopiesInv
<1>5. CASE /\ proc' = [proc EXCEPT ![P(t)].pend = @ \ {s},
                                  ![P(t)].st = IF Orphan(P(t)) THEN @ ELSE "stopped"]
           /\ task' = [task EXCEPT ![t].code = <<SigReturn(back)>> \o after]
           /\ UNCHANGED lock
  <2>3. PICK code : code = <<SigReturn(back)>> \o after
    OBVIOUS
  <2>4. CodeOK(code, task[t].p) /\ (Side(task[t].code) => Side(code))
    BY <2>3, HandlerReturns, Handlers, PushedOK
  <2>5. PICK r : r = [task[t] EXCEPT !.code = code]
    OBVIOUS
  <2>6. IsTask(r) /\ r.p = task[t].p /\ r.st = "run" /\ r.code = code
    BY <1>2, <2>5 DEF IsTask, Running
  <2>7. task' = [task EXCEPT ![t] = r]
    BY <1>5, <2>3, <2>5
  <2>8. PICK z : z = [proc[p] EXCEPT !.pend = @ \ {s}, !.st = IF Orphan(P(t)) THEN @ ELSE "stopped"]
    OBVIOUS
  <2>9. IsProc(z) /\ z.st \in {proc[p].st, "stopped"} /\ z.act = proc[p].act
    BY <1>2, <2>8 DEF IsProc
  <2>10. proc' = [proc EXCEPT ![p] = z]
    BY <1>1, <1>2, <1>5, <2>8 DEF CopiesInv, ProcsOK
  <2>11. ProcsOK(proc') /\ \A q \in 1 .. PROCS : IsUp(proc[q]) => IsUp(proc'[q])
    BY <1>2, <2>9, <2>10, ProcChanged DEF CopiesInv, ProcsOK, IsUp
  <2>. QED
    BY <1>5, <2>4, <2>6, <2>7, <2>11, MovedOn DEF CopiesInv
<1>6. CASE End(P(t), -SigNo[s])
  BY <1>1, <1>2, <1>6, EndKept
<1>. QED
  BY <1>4, <1>5, <1>6 DEF Take

-----------------------------------------------------------------------------
\* The next statement of a task

\* Every statement but exit, the one that locks and the one that writes the
\* number takes no task from one region to another.
LEMMA RestOK ==
  ASSUME NEW code, NEW p, code # <<>>, CodeOK(code, p), ~Exits(Head(code))
  PROVE  /\ Side(code) => Side(Tail(code))
         /\ Head(code).op \notin {"setlk", "getpid"} => CodeOK(Tail(code), p)
<1>. DEFINE rest == Tail(code)
<1>1. CASE Aside(Head(code))
  <2>1. Ending(code) => Ending(rest)
    BY <1>1, Skipped
  <2>2. ASSUME NEW D, NEW i, Statements(D), i \in 1 .. Len(D) + 1, Reached(code, D, i) PROVE Reached(rest, D, i)
    BY <1>1, <2>2, Skipped
  <2>3. ASSUME NEW i \in 1 .. 5, Reached(code, Server, i) PROVE Reached(rest, Server, i)
    <3>1. i \in 1 .. Len(Server) + 1
      BY ProgramsAreStatements
    <3>. QED
      BY <2>2, <2>3, <3>1, ProgramsAreStatements
  <2>4. Side(code) => Side(rest)
    BY <2>1, <2>3 DEF Side
  <2>5. ASSUME NEW D \in Daemon, NEW i \in 1 .. 8, Reached(code, D, i) PROVE Reached(rest, D, i)
    <3>1. i \in 1 .. Len(D) + 1
      BY ProgramsAreStatements
    <3>. QED
      BY <2>2, <2>5, <3>1, ProgramsAreStatements
  <2>6. ASSUME NEW D \in Daemon, NEW i \in 9 .. Len(D) + 1, Reached(code, D, i) PROVE Reached(rest, D, i)
    <3>1. i \in 1 .. Len(D) + 1
      BY ProgramsAreStatements
    <3>. QED
      BY <2>2, <2>6, <3>1, ProgramsAreStatements
  <2>7. Coming(code) => Coming(rest)
    BY <2>5 DEF Coming
  <2>8. Locked(code) => Locked(rest)
    BY <2>5 DEF Locked
  <2>9. Working(code) => Working(rest)
    BY <2>6 DEF Working
  <2>. QED
    BY <2>4, <2>7, <2>8, <2>9 DEF CodeOK
<1>2. CASE ~Aside(Head(code))
  <2>1. ~Ending(code)
    BY <1>2, AtStatement
  <2>2. ASSUME NEW D, NEW i, Statements(D), i \in 1 .. Len(D) + 1, Reached(code, D, i)
        PROVE  i \in 1 .. Len(D) /\ Head(code) = D[i] /\ Reached(rest, D, i + 1)
    BY <1>2, <2>2, AtStatement
  <2>3. ASSUME NEW i \in 1 .. 5, Reached(code, Server, i) PROVE i + 1 \in 1 .. 5 /\ Reached(rest, Server, i + 1)
    <3>1. i \in 1 .. Len(Server) + 1
      BY ProgramsAreStatements
    <3>2. i \in 1 .. Len(Server) /\ Reached(rest, Server, i + 1)
      BY <2>2, <2>3, <3>1, ProgramsAreStatements
    <3>3. i \in 1 .. 4
      BY <3>2, ProgramsAreStatements
    <3>. QED
      BY <3>2, <3>3
  <2>4. Side(code) => Side(rest)
    BY <2>1, <2>3 DEF Side
  <2>5. ASSUME NEW D \in Daemon, NEW i \in 1 .. 8, Reached(code, D, i)
        PROVE  Reached(rest, D, i + 1) /\ Head(code) = D[i]
    <3>1. i \in 1 .. Len(D) + 1
      BY ProgramsAreStatements
    <3>. QED
      BY <2>2, <2>5, <3>1, ProgramsAreStatements
  <2>6. ASSUME NEW D \in Daemon, NEW i \in 9 .. Len(D) + 1, Reached(code, D, i)
        PROVE  Reached(rest, D, i + 1) /\ i + 1 \in 9 .. Len(D) + 1
    <3>1. i \in 1 .. Len(D) + 1 /\ Len(D) \in Nat
      BY ProgramsAreStatements
    <3>2. i \in 1 .. Len(D) /\ Reached(rest, D, i + 1)
      BY <2>2, <2>6, <3>1, ProgramsAreStatements
    <3>. QED
      BY <3>1, <3>2
  <2>7. ASSUME NEW D \in Daemon
        PROVE  D[6].op = "setlk" /\ D[8].op = "getpid"
    BY DaemonStatements, StatementFields
  <2>8. ASSUME Coming(code), Head(code).op # "setlk" PROVE Coming(rest)
    <3>1. PICK D \in Daemon, i \in 1 .. 6 : Reached(code, D, i)
      BY <2>8 DEF Coming
    <3>2. i # 6 /\ Reached(rest, D, i + 1)
      BY <2>5, <2>7, <2>8, <3>1
    <3>3. i + 1 \in 1 .. 6
      BY <3>2
    <3>. QED
      BY <3>2, <3>3 DEF Coming
  <2>9. ASSUME Locked(code), Head(code).op # "getpid" PROVE Locked(rest)
    <3>1. PICK D \in Daemon, i \in {7, 8} : Reached(code, D, i)
      BY <2>9 DEF Locked
    <3>2. i # 8 /\ Reached(rest, D, i + 1)
      BY <2>5, <2>7, <2>9, <3>1
    <3>3. i + 1 = 8
      BY <3>2
    <3>. QED
      BY <3>2, <3>3 DEF Locked
  <2>10. Working(code) => Working(rest)
    BY <2>6 DEF Working
  <2>. QED
    BY <2>4, <2>8, <2>9, <2>10 DEF CodeOK
<1>. QED
  BY <1>1, <1>2

\* What the next statement can be.
LEMMA HeadAt ==
  ASSUME NEW code, NEW p, code # <<>>, CodeOK(code, p)
  PROVE  LET c == Head(code) IN
         \/ Aside(c)
         \/ Exits(c)
         \/ \E i \in 1 .. 4 : c = Server[i] /\ Reached(code, Server, i)
         \/ \E D \in Daemon : \E i \in 1 .. Len(D) :
               /\ c = D[i] /\ Reached(Tail(code), D, i + 1) /\ (i > 6 => HasLock(p))
               /\ i > 8 => disk["daemon.pid"] = p
<1>. SUFFICES ASSUME ~Aside(Head(code)), ~Exits(Head(code))
              PROVE  \/ \E i \in 1 .. 4 : Head(code) = Server[i] /\ Reached(code, Server, i)
                     \/ \E D \in Daemon : \E i \in 1 .. Len(D) :
                          /\ Head(code) = D[i] /\ Reached(Tail(code), D, i + 1) /\ (i > 6 => HasLock(p))
                          /\ i > 8 => disk["daemon.pid"] = p
  OBVIOUS
<1>1. ~Ending(code)
  BY AtStatement
<1>2. ASSUME NEW D, NEW i, Statements(D), i \in 1 .. Len(D) + 1, Reached(code, D, i)
      PROVE  i \in 1 .. Len(D) /\ Head(code) = D[i] /\ Reached(Tail(code), D, i + 1)
  BY <1>2, AtStatement
<1>3. ASSUME NEW i \in 1 .. 5, Reached(code, Server, i)
      PROVE  i \in 1 .. 4 /\ Head(code) = Server[i]
  <2>1. i \in 1 .. Len(Server) + 1
    BY ProgramsAreStatements
  <2>. QED
    BY <1>2, <1>3, <2>1, ProgramsAreStatements
<1>4. CASE Side(code)
  BY <1>1, <1>3, <1>4 DEF Side
<1>5. ASSUME NEW D \in Daemon, NEW i \in 1 .. 8, Reached(code, D, i)
      PROVE  i \in 1 .. Len(D) /\ Head(code) = D[i] /\ Reached(Tail(code), D, i + 1)
  <2>1. i \in 1 .. Len(D) + 1
    BY ProgramsAreStatements
  <2>. QED
    BY <1>2, <1>5, <2>1, ProgramsAreStatements
<1>6. CASE Coming(code)
  <2>1. PICK D \in Daemon, i \in 1 .. 6 : Reached(code, D, i)
    BY <1>6 DEF Coming
  <2>2. i \in 1 .. Len(D) /\ Head(code) = D[i] /\ Reached(Tail(code), D, i + 1)
    BY <1>5, <2>1
  <2>3. ~(i > 6) /\ ~(i > 8)
    OBVIOUS
  <2>. QED
    BY <2>2, <2>3
<1>7. CASE HasLock(p) /\ Locked(code)
  <2>1. PICK D \in Daemon, i \in {7, 8} : Reached(code, D, i)
    BY <1>7 DEF Locked
  <2>2. i \in 1 .. Len(D) /\ Head(code) = D[i] /\ Reached(Tail(code), D, i + 1)
    BY <1>5, <2>1
  <2>3. ~(i > 8)
    OBVIOUS
  <2>. QED
    BY <1>7, <2>2, <2>3
<1>8. ASSUME HasLock(p), Working(code), disk["daemon.pid"] = p
      PROVE  \E D \in Daemon : \E i \in 1 .. Len(D) :
                /\ Head(code) = D[i] /\ Reached(Tail(code), D, i + 1) /\ (i > 6 => HasLock(p))
                /\ i > 8 => disk["daemon.pid"] = p
  <2>0. PICK D \in Daemon : \E i \in 9 .. Len(D) + 1 : Reached(code, D, i)
    BY <1>8 DEF Working
  <2>1. PICK i \in 9 .. Len(D) + 1 : Reached(code, D, i)
    BY <2>0
  <2>2. Statements(D) /\ Len(D) \in Nat
    BY ProgramsAreStatements
  <2>3. i \in 1 .. Len(D) + 1
    BY <2>2
  <2>4. i \in 1 .. Len(D) /\ Head(code) = D[i] /\ Reached(Tail(code), D, i + 1)
    BY <1>2, <2>1, <2>2, <2>3
  <2>. QED
    BY <1>8, <2>4
<1>. QED
  BY <1>4, <1>6, <1>7, <1>8 DEF CodeOK

\* What it is, by its name.
LEMMA HeadIs ==
  ASSUME NEW code, NEW p, code # <<>>, CodeOK(code, p), NEW c, c = Head(code)
  PROVE  /\ c.op \in {"setmask", "kill", "add", "exit", "fork", "sigaction", "close", "setlk", "set", "getpid",
                       "block", "create", "sleep", "sigwait", "if", "while"}
         /\ c.op = "add" => c.x = "reread"
         /\ c.op = "set" => c.x = "daemon.pid" /\ HasLock(p) /\ ~Side(code) /\ Locked(Tail(code))
         /\ c.op = "getpid" => c.x = "daemon.pid" /\ HasLock(p) /\ ~Side(code) /\ Working(Tail(code))
         /\ c.op = "setlk" => /\ c.x = "daemon.pid" /\ c.y = "w" /\ c.a = <<>> /\ c.c = <<Exit(1)>>
                              /\ ~Side(code) /\ Locked(Tail(code))
         /\ c.op = "fork" => /\ c.x = "pid" /\ c.a = <<>> /\ c.b = <<Exit(0)>> /\ c.c = ErrSys
                             /\ Coming(Tail(code))
         /\ c.op = "create" => c.a = thr_fn /\ c.c = ErrSys
         /\ c.op = "sigaction" => Handler(c.a)
         /\ c.op = "if" => Handler(c.a) /\ c.b = <<>>
         /\ c.op = "while" => c = Server[4] /\ Reached(code, Server, 4)
         /\ c.op = "sleep" => HasLock(p) /\ disk["daemon.pid"] = p
<1>1. CASE Aside(c)
  <2>1. c.op \in {"setmask", "kill", "add"} /\ (c.op = "add" => c.x = "reread")
    BY <1>1 DEF Aside
  <2>. QED
    BY <2>1
<1>2. CASE Exits(c)
  BY <1>2 DEF Exits
<1>3. ASSUME ~Aside(c), ~Exits(c), NEW i \in 1 .. 4, c = Server[i], Reached(code, Server, i)
      PROVE  /\ c.op \in {"sigwait", "if", "while"}
             /\ c.op = "if" => Handler(c.a) /\ c.b = <<>>
             /\ c.op = "while" => c = Server[4] /\ Reached(code, Server, 4)
  <2>1. i = 1 \/ i = 2 \/ i = 3 \/ i = 4
    OBVIOUS
  <2>2. CASE i = 1
    BY <1>3, <2>2, ServerStatements, ServerFields
  <2>3. CASE i = 2
    <3>1. c.op = "if" /\ c.a = sighup /\ c.b = <<>>
      BY <1>3, <2>3, ServerStatements, ServerFields DEF sighup
    <3>. QED
      BY <3>1, Handlers
  <2>4. CASE i = 3
    <3>1. c.op = "if" /\ c.a = sigterm /\ c.b = <<>>
      BY <1>3, <2>4, ServerStatements, ServerFields DEF sigterm
    <3>. QED
      BY <3>1, Handlers
  <2>5. CASE i = 4
    BY <1>3, <2>5, ServerStatements, ServerFields
  <2>. QED
    BY <2>1, <2>2, <2>3, <2>4, <2>5
<1>4. ASSUME ~Aside(c), ~Exits(c), NEW D \in Daemon, NEW i \in 1 .. Len(D), c = D[i],
             Reached(Tail(code), D, i + 1), i > 6 => HasLock(p), i > 8 => disk["daemon.pid"] = p
      PROVE  /\ c.op \in {"fork", "sigaction", "close", "setlk", "set", "getpid", "block", "create", "sleep"}
             /\ c.op = "set" => c.x = "daemon.pid" /\ HasLock(p) /\ Locked(Tail(code))
             /\ c.op = "getpid" => c.x = "daemon.pid" /\ HasLock(p) /\ Working(Tail(code))
             /\ c.op = "setlk" => /\ c.x = "daemon.pid" /\ c.y = "w" /\ c.a = <<>> /\ c.c = <<Exit(1)>>
                                  /\ Locked(Tail(code))
             /\ c.op = "fork" => /\ c.x = "pid" /\ c.a = <<>> /\ c.b = <<Exit(0)>> /\ c.c = ErrSys
                                 /\ Coming(Tail(code))
             /\ c.op = "create" => c.a = thr_fn /\ c.c = ErrSys
             /\ c.op = "sigaction" => Handler(c.a)
             /\ c.op = "sleep" => HasLock(p) /\ disk["daemon.pid"] = p
  <2>1. Len(D) \in {12, 13}
    BY ProgramsAreStatements
  <2>2. i \in {1, 3} \/ i = 2 \/ i \in {4, 5} \/ i = 6 \/ i = 7 \/ i = 8 \/ i \in 9 .. Len(D)
    BY <2>1
  <2>3. CASE i \in {1, 3}
    <3>1. c = Fork("pid", <<>>, <<Exit(0)>>) /\ i + 1 \in 1 .. 6
      BY <1>4, <2>3, DaemonStatements
    <3>2. Reached(Tail(code), D, i + 1)
      BY <1>4
    <3>3. Coming(Tail(code))
      BY <3>1, <3>2 DEF Coming
    <3>. QED
      BY <3>1, <3>3, StatementFields
  <2>4. CASE i = 2
    <3>1. c = Sigaction("HUP", "ign", <<>>)
      BY <1>4, <2>4, DaemonStatements
    <3>2. c.op = "sigaction" /\ Handler(c.a)
      BY <3>1, StatementFields, Handlers
    <3>. QED
      BY <3>2
  <2>5. CASE i \in {4, 5}
    <3>1. c \in {Close("0"), Close("1")}
      BY <1>4, <2>5, DaemonStatements
    <3>. QED
      BY <3>1, StatementFields
  <2>6. CASE i = 6
    <3>1. c = lockfile(<<Exit(1)>>) /\ i + 1 = 7
      BY <1>4, <2>6, DaemonStatements
    <3>2. Locked(Tail(code))
      BY <1>4, <3>1 DEF Locked
    <3>. QED
      BY <3>1, <3>2, StatementFields
  <2>7. CASE i = 7
    <3>1. c = Set("daemon.pid", 0) /\ HasLock(p) /\ i + 1 = 8
      BY <1>4, <2>7, DaemonStatements
    <3>2. Locked(Tail(code))
      BY <1>4, <3>1 DEF Locked
    <3>. QED
      BY <3>1, <3>2, StatementFields
  <2>8. CASE i = 8
    <3>1. c = GetPid("daemon.pid") /\ HasLock(p) /\ i + 1 \in 9 .. Len(D) + 1
      BY <1>4, <2>1, <2>8, DaemonStatements
    <3>2. Working(Tail(code))
      BY <1>4, <3>1 DEF Working
    <3>. QED
      BY <3>1, <3>2, StatementFields
  <2>9. CASE i \in 9 .. Len(D)
    <3>1. c \in {SignalDfl("HUP"), Block(AllSignals), Create("tid", thr_fn), Work,
                 Catch("TERM", sigterm), Catch("HUP", sighup)}
      BY <1>4, <2>9, DaemonStatements, StatementFields
    <3>2. HasLock(p) /\ disk["daemon.pid"] = p
      BY <1>4, <2>1, <2>9
    <3>3. CASE c \in {SignalDfl("HUP"), Catch("TERM", sigterm), Catch("HUP", sighup)}
      <4>1. c.op = "sigaction" /\ Handler(c.a)
        BY <3>3, StatementFields, Handlers
      <4>. QED
        BY <4>1
    <3>4. CASE c \in {Block(AllSignals), Create("tid", thr_fn), Work}
      BY <3>2, <3>4, StatementFields
    <3>. QED
      BY <3>1, <3>3, <3>4
  <2>. QED
    BY <2>2, <2>3, <2>4, <2>5, <2>6, <2>7, <2>8, <2>9
<1>5. ASSUME Side(code), ~Aside(c), ~Exits(c) PROVE c.op \in {"sigwait", "if", "while"}
  <2>1. PICK i \in 1 .. 5 : Reached(code, Server, i)
    BY <1>5, AtStatement DEF Side
  <2>2. i \in 1 .. Len(Server) + 1
    BY ProgramsAreStatements
  <2>3. i \in 1 .. 4 /\ c = Server[i]
    BY <1>5, <2>1, <2>2, AtStatement, ProgramsAreStatements
  <2>. QED
    BY <1>3, <1>5, <2>1, <2>3
<1>. QED
  BY <1>1, <1>2, <1>3, <1>4, <1>5, HeadAt

LEMMA ExitFirst ==
  ASSUME NEW e, Exits(e), NEW code, NEW p, code # <<>>, CodeOK(code, p)
  PROVE  Ending(<<e>> \o Tail(code))
<1>1. PICK S : code \in Seq(S)
  BY DEF CodeOK, Side, Coming, Locked, Working, Ending, Reached
<1>2. Tail(code) \in Seq(S \cup {e}) /\ <<e>> \in Seq(S \cup {e}) /\ Len(<<e>>) = 1 /\ <<e>>[1] = e
  <2>1. Tail(code) \in Seq(S)
    BY <1>1
  <2>. QED
    BY <2>1, SeqMonotonic
<1>3. PICK code2 : code2 = <<e>> \o Tail(code)
  OBVIOUS
<1>4. code2 \in Seq(S \cup {e}) /\ Len(code2) = 1 + Len(Tail(code)) /\ Len(Tail(code)) \in Nat
  BY <1>2, <1>3, ConcatProperties
<1>5. code2[1] = e
  <2>1. 1 \in 1 .. Len(<<e>>) + Len(Tail(code)) /\ 1 <= Len(<<e>>)
    BY <1>2, <1>4
  <2>. QED
    BY <1>2, <1>3, <2>1, ConcatProperties
<1>6. 1 \in 1 .. Len(code2) /\ \A j \in 1 .. 1 : j < 1 => Aside(code2[j])
  BY <1>4
<1>. QED
  BY <1>3, <1>4, <1>5, <1>6 DEF Ending

\* The thread goes round its loop.
LEMMA LoopsAgain ==
  ASSUME NEW code, code # <<>>, Reached(code, Server, 4), Head(code) = Server[4]
  PROVE  Side(Server[4].a \o code)
<1>1. PICK S, n : /\ n \in Nat /\ code \in Seq(S) /\ Len(code) = n + (Len(Server) + 1 - 4)
                  /\ \A j \in 1 .. n : Aside(code[j])
                  /\ \A j \in 4 .. Len(Server) : code[n + (j + 1 - 4)] = Server[j]
  BY DEF Reached
<1>2. Len(Server) = 4 /\ ~Aside(Server[4])
  BY ServerStatements, NoneAside
<1>3. n = 0 /\ Len(code) = 1 /\ code[1] = Server[4]
  BY <1>1, <1>2
<1>4. PICK a, b, c, w : a = Server[1] /\ b = Server[2] /\ c = Server[3] /\ w = Server[4]
  OBVIOUS
<1>5. Server[4].a = <<a, b, c>>
  BY <1>4, ServerStatements, ServerFields
<1>6. <<a, b, c>> \in Seq({a, b, c} \cup S) /\ code \in Seq({a, b, c} \cup S) /\ Len(<<a, b, c>>) = 3
      /\ <<a, b, c>>[1] = a /\ <<a, b, c>>[2] = b /\ <<a, b, c>>[3] = c
  <2>1. <<a, b, c>> \in Seq({a, b, c})
    OBVIOUS
  <2>. QED
    BY <1>1, <2>1, SeqMonotonic
<1>7. PICK round : round = <<a, b, c>> \o code
  OBVIOUS
<1>8. /\ round \in Seq({a, b, c} \cup S) /\ Len(round) = 4
      /\ \A j \in 1 .. 4 : round[j] = IF j <= 3 THEN <<a, b, c>>[j] ELSE code[j - 3]
  BY <1>3, <1>6, <1>7, ConcatProperties
<1>9. round[1] = a /\ round[2] = b /\ round[3] = c /\ round[4] = w
  <2>1. round[4] = code[4 - 3]
    BY <1>8
  <2>. QED
    BY <1>3, <1>4, <1>6, <1>8, <2>1
<1>10. \A j \in 1 .. 4 : round[j + 1 - 1] = Server[j]
  <2>. TAKE j \in 1 .. 4
  <2>1. j + 1 - 1 = j /\ (j = 1 \/ j = 2 \/ j = 3 \/ j = 4)
    OBVIOUS
  <2>. QED
    BY <1>4, <1>9, <2>1
<1>11. Len(round) = Len(Server) + 1 - 1 /\ Len(Server) \in Nat /\ \E T : round \in Seq(T)
  BY <1>2, <1>8
<1>12. Reached(round, Server, 1)
  BY <1>2, <1>10, <1>11, ReachedNow
<1>. QED
  BY <1>5, <1>7, <1>12 DEF Side

-----------------------------------------------------------------------------
\* The actions

LEMMA TaskFacts ==
  ASSUME CopiesInv, NEW t \in 1 .. TASKS, Runs(t)
  PROVE  /\ Running(t) /\ task[t].code # <<>> /\ IsTask(task[t]) /\ Now(t) = Head(task[t].code)
         /\ P(t) = task[t].p /\ P(t) \in 1 .. PROCS /\ IsProc(proc[P(t)]) /\ Live(P(t))
         /\ CodeOK(task[t].code, task[t].p)
         /\ DOMAIN task = 1 .. TASKS /\ DOMAIN proc = 1 .. PROCS
BY DEF CopiesInv, TasksOK, ProcsOK, Runs, Running, Now, P

LEMMA ThenKept ==
  ASSUME CopiesInv, NEW t \in 1 .. TASKS, Runs(t), NEW code, NEW mask, NEW got,
         \/ task' = Then(t, code)
         \/ task' = [task EXCEPT ![t].code = code, ![t].mask = mask]
         \/ task' = [task EXCEPT ![t].code = code, ![t].got = got],
         ProcsOK(proc'), \A q \in 1 .. PROCS : IsUp(proc[q]) => IsUp(proc'[q]),
         "daemon.pid" \in DOMAIN disk', lock' = lock, disk'["daemon.pid"] = disk["daemon.pid"],
         CodeOK(code, task[t].p), Side(task[t].code) => Side(code)
  PROVE  CopiesInv'
<1>1. PICK r \in {[task[t] EXCEPT !.code = code], [task[t] EXCEPT !.code = code, !.mask = mask],
                  [task[t] EXCEPT !.code = code, !.got = got]} : task' = [task EXCEPT ![t] = r]
  BY TaskFacts DEF Then
<1>2. Running(t) /\ IsTask(task[t])
  BY TaskFacts
<1>3. IsTask(r) /\ r.p = task[t].p /\ r.st = "run" /\ r.code = code
  <2>1. CASE r = [task[t] EXCEPT !.code = code]
    BY <1>2, <2>1 DEF IsTask, Running
  <2>2. CASE r = [task[t] EXCEPT !.code = code, !.mask = mask]
    BY <1>2, <2>2 DEF IsTask, Running
  <2>3. CASE r = [task[t] EXCEPT !.code = code, !.got = got]
    BY <1>2, <2>3 DEF IsTask, Running
  <2>. QED
    BY <1>1, <2>1, <2>2, <2>3
<1>. QED
  BY <1>1, <1>2, <1>3, MovedOn

\* A process that changes a variable, a descriptor or what is pending.
LEMMA FieldKept ==
  ASSUME ProcsOK(proc), NEW p \in 1 .. PROCS, NEW v,
         \/ proc' = proc
         \/ proc' = [proc EXCEPT ![p].mem = v]
         \/ proc' = [proc EXCEPT ![p].fd = v]
         \/ proc' = [proc EXCEPT ![p].pend = v]
         \/ proc' = [proc EXCEPT ![p].out = v]
  PROVE  ProcsOK(proc') /\ \A q \in 1 .. PROCS : IsUp(proc[q]) => IsUp(proc'[q])
<1>1. IsProc(proc[p]) /\ DOMAIN proc = 1 .. PROCS /\ \A s \in DOMAIN proc[p].act : Handler(proc[p].act[s].code)
  BY DEF ProcsOK
<1>2. CASE proc' = proc
  BY <1>2
<1>3. CASE proc' # proc
  <2>1. PICK r \in {[proc[p] EXCEPT !.mem = v], [proc[p] EXCEPT !.fd = v], [proc[p] EXCEPT !.pend = v],
                [proc[p] EXCEPT !.out = v]} :
                proc' = [proc EXCEPT ![p] = r]
    BY <1>1, <1>3
  <2>2. IsProc(r) /\ r.st = proc[p].st /\ r.act = proc[p].act
    <3>1. CASE r = [proc[p] EXCEPT !.mem = v]
      BY <1>1, <3>1 DEF IsProc
    <3>2. CASE r = [proc[p] EXCEPT !.fd = v]
      BY <1>1, <3>2 DEF IsProc
    <3>3. CASE r = [proc[p] EXCEPT !.pend = v]
      BY <1>1, <3>3 DEF IsProc
    <3>4. CASE r = [proc[p] EXCEPT !.out = v]
      BY <1>1, <3>4 DEF IsProc
    <3>. QED
      BY <2>1, <3>1, <3>2, <3>3, <3>4
  <2>. QED
    BY <1>1, <2>1, <2>2, ProcChanged DEF IsUp
<1>. QED
  BY <1>2, <1>3

\* Statements after which the task goes on with the next one.
LEMMA PassKept ==
  ASSUME CopiesInv, NEW t \in 1 .. TASKS, Runs(t),
         Pass(t) \/ CloseFd(t) \/ DoSigWait(t) \/ Mask(t) \/ DoKill(t) \/ Action(t)
  PROVE  CopiesInv'
<1>1. /\ Running(t) /\ task[t].code # <<>> /\ IsTask(task[t]) /\ Now(t) = Head(task[t].code)
      /\ P(t) = task[t].p /\ P(t) \in 1 .. PROCS /\ IsProc(proc[P(t)]) /\ Live(P(t))
      /\ CodeOK(task[t].code, task[t].p)
      /\ DOMAIN task = 1 .. TASKS /\ DOMAIN proc = 1 .. PROCS
  BY TaskFacts
<1>0. PICK p : p = P(t)
  OBVIOUS
<1>2. PICK code : code = Rest(t)
  OBVIOUS
<1>3. /\ Now(t).op \in {"sleep", "close", "dup2", "sigwait", "block", "unblock", "setmask", "kill", "sigaction"}
      /\ UNCHANGED disk
  BY DEF Pass, CloseFd, DoSigWait, Mask, DoKill, Action
<1>4. CodeOK(code, task[t].p) /\ (Side(task[t].code) => Side(code))
  <2>1. ~Exits(Now(t)) /\ Now(t).op \notin {"setlk", "getpid"}
    BY <1>3 DEF Exits
  <2>. QED
    BY <1>1, <1>2, <2>1, RestOK DEF Rest
<1>5. ProcsOK(proc) /\ "daemon.pid" \in DOMAIN disk
  BY DEF CopiesInv
<1>6. CASE Pass(t)
  BY <1>2, <1>4, <1>5, <1>6, ThenKept DEF Pass
<1>7. CASE CloseFd(t)
  <2>1. PICK v : proc' = [proc EXCEPT ![P(t)].fd = v]
    BY <1>7 DEF CloseFd
  <2>3. proc' = [proc EXCEPT ![p].fd = v]
    BY <1>0, <2>1
  <2>2. ProcsOK(proc') /\ \A q \in 1 .. PROCS : IsUp(proc[q]) => IsUp(proc'[q])
    BY <1>0, <1>1, <1>5, <2>3, FieldKept
  <2>. QED
    BY <1>2, <1>4, <1>5, <1>7, <2>2, ThenKept DEF CloseFd
<1>8. CASE DoSigWait(t)
  <2>1. PICK s : /\ proc' = [proc EXCEPT ![P(t)].pend = @ \ {s}]
                 /\ task' = [task EXCEPT ![t].code = Rest(t), ![t].got = s]
    BY <1>8 DEF DoSigWait
  <2>2. PICK v : v = proc[P(t)].pend \ {s}
    OBVIOUS
  <2>4. proc' = [proc EXCEPT ![p].pend = v]
    BY <1>0, <1>1, <2>1, <2>2
  <2>3. ProcsOK(proc') /\ \A q \in 1 .. PROCS : IsUp(proc[q]) => IsUp(proc'[q])
    BY <1>0, <1>1, <1>5, <2>4, FieldKept
  <2>5. lock' = lock /\ disk' = disk
    BY <1>8 DEF DoSigWait
  <2>. QED
    BY <1>2, <1>4, <1>5, <1>8, <2>1, <2>3, <2>5, ThenKept
<1>9. CASE Mask(t)
  <2>1. PICK m : \/ /\ task' = [task EXCEPT ![t].code = Rest(t), ![t].mask = m]
                    /\ UNCHANGED <<proc, lock>>
                 \/ \E s : Take(t, s, Rest(t), m, m)
    BY <1>9 DEF Mask
  <2>2. CASE task' = [task EXCEPT ![t].code = Rest(t), ![t].mask = m] /\ UNCHANGED <<proc, lock>>
    BY <1>2, <1>3, <1>4, <1>5, <2>2, ThenKept
  <2>3. ASSUME NEW s, Take(t, s, Rest(t), m, m) PROVE CopiesInv'
    BY <1>1, <1>2, <1>3, <1>4, <2>3, TakeKept
  <2>. QED
    BY <2>1, <2>2, <2>3
<1>10. CASE DoKill(t)
  <2>1. PICK s, q, m : \/ Take(t, s, Rest(t), m, m)
                      \/ /\ proc' = Signalled(proc, q, s)
                         /\ task' = Then(t, Rest(t))
                         /\ UNCHANGED lock
    BY <1>10 DEF DoKill
  <2>2. CASE Take(t, s, Rest(t), m, m)
    BY <1>1, <1>2, <1>3, <1>4, <2>2, TakeKept
  <2>3. CASE proc' = Signalled(proc, q, s) /\ task' = Then(t, Rest(t)) /\ UNCHANGED lock
    <3>1. ProcsOK(proc') /\ \A r \in 1 .. PROCS : IsUp(proc[r]) => IsUp(proc'[r])
      BY <1>5, <2>3, SignalledProcs DEF IsUp
    <3>. QED
      BY <1>2, <1>3, <1>4, <1>5, <2>3, <3>1, ThenKept
  <2>. QED
    BY <2>1, <2>2, <2>3
<1>11. CASE Action(t)
  <2>1. Handler(Now(t).a)
    BY <1>1, <1>11, HeadIs DEF Action
  <2>2. PICK h, n : h = [k |-> Now(t).x, code |-> Now(t).a, restart |-> Now(t).n = 1] /\ n = Now(t).y
    OBVIOUS
  <2>3. PICK acts : acts = [s \in DOMAIN proc[P(t)].act \cup {n} |-> IF s = n THEN h ELSE proc[P(t)].act[s]]
    OBVIOUS
  <2>4. PICK v : proc' = [proc EXCEPT ![P(t)] = [proc[P(t)] EXCEPT !.act = acts, !.pend = v]]
    <3>1. PICK r : r = [proc[P(t)] EXCEPT !.act = acts]
      OBVIOUS
    <3>4. PICK v : v = {s \in r.pend : ~Ignored(r, s)}
      OBVIOUS
    <3>6. r = [proc[P(t)] EXCEPT !.act = [s \in DOMAIN proc[P(t)].act \cup {Now(t).y} |->
                    IF s = Now(t).y THEN [k |-> Now(t).x, code |-> Now(t).a, restart |-> Now(t).n = 1]
                                    ELSE proc[P(t)].act[s]]]
      BY <2>2, <2>3, <3>1
    <3>3. proc' = [proc EXCEPT ![P(t)] = [r EXCEPT !.pend = {s \in r.pend : ~Ignored(r, s)}]]
      BY <1>11, <3>6 DEF Action
    <3>5. [r EXCEPT !.pend = v] = [proc[P(t)] EXCEPT !.act = acts, !.pend = v]
      BY <1>1, <3>1 DEF IsProc
    <3>. QED
      BY <3>3, <3>4, <3>5
  <2>5. PICK z : z = [proc[P(t)] EXCEPT !.act = acts, !.pend = v]
    OBVIOUS
  <2>6. IsProc(z) /\ z.st = proc[P(t)].st /\ z.act = acts
    BY <1>1, <2>5 DEF IsProc
  <2>7. \A s \in DOMAIN acts : Handler(acts[s].code)
    <3>1. \A s \in DOMAIN acts : acts[s] = h \/ (s \in DOMAIN proc[P(t)].act /\ acts[s] = proc[P(t)].act[s])
      BY <2>3
    <3>2. h.code = Now(t).a
      BY <2>2
    <3>3. \A s \in DOMAIN proc[P(t)].act : Handler(proc[P(t)].act[s].code)
      BY <1>1, <1>5 DEF ProcsOK
    <3>. QED
      BY <2>1, <3>1, <3>2, <3>3
  <2>8. ProcsOK(proc') /\ \A q \in 1 .. PROCS : IsUp(proc[q]) => IsUp(proc'[q])
    BY <1>1, <1>5, <2>4, <2>5, <2>6, <2>7, ProcChanged DEF IsUp
  <2>. QED
    BY <1>2, <1>4, <1>5, <1>11, <2>8, ThenKept DEF Action
<1>. QED
  BY <1>6, <1>7, <1>8, <1>9, <1>10, <1>11

LEMMA BranchKept ==
  ASSUME CopiesInv, NEW t \in 1 .. TASKS, Runs(t), Branch(t)
  PROVE  CopiesInv'
<1>1. /\ task[t].code # <<>> /\ Now(t) = Head(task[t].code) /\ CodeOK(task[t].code, task[t].p)
  BY TaskFacts
<1>2. Now(t).op \in {"if", "while"} /\ ~Exits(Now(t)) /\ Now(t).op \notin {"setlk", "getpid"}
  BY DEF Branch, Exits
<1>3. CodeOK(Rest(t), task[t].p) /\ (Side(task[t].code) => Side(Rest(t)))
  BY <1>1, <1>2, RestOK DEF Rest
<1>4. /\ Now(t).op = "if" => Handler(Now(t).a) /\ Now(t).b = <<>>
      /\ Now(t).op = "while" => Now(t) = Server[4] /\ Reached(task[t].code, Server, 4)
  BY <1>1, HeadIs
<1>5. Server[4].b = <<>>
  BY ServerStatements, ServerFields
<1>6. PICK code : code = IF Holds(t)
                     THEN Now(t).a \o (IF Now(t).op = "while" THEN task[t].code ELSE Rest(t))
                     ELSE Now(t).b \o Rest(t)
  OBVIOUS
<1>7. CodeOK(code, task[t].p) /\ (Side(task[t].code) => Side(code))
  <2>1. CASE ~Holds(t)
    <3>1. code = <<>> \o Rest(t)
      BY <1>2, <1>4, <1>5, <1>6, <2>1
    <3>. QED
      BY <1>3, <3>1, Handlers, PushedOK
  <2>2. CASE Holds(t) /\ Now(t).op = "if"
    <3>1. code = Now(t).a \o Rest(t)
      BY <1>6, <2>2
    <3>. QED
      BY <1>3, <1>4, <2>2, <3>1, PushedOK
  <2>3. CASE Holds(t) /\ Now(t).op = "while"
    <3>1. code = Server[4].a \o task[t].code
      BY <1>4, <1>6, <2>3
    <3>. QED
      BY <1>1, <1>4, <2>3, <3>1, LoopsAgain DEF CodeOK
  <2>. QED
    BY <1>2, <2>1, <2>2, <2>3
<1>. QED
  BY <1>6, <1>7, ThenKept DEF Branch, CopiesInv

\* Only one task of those that are past the lock is not a thread that takes
\* signals: all the others are aside or before the lock.
LEMMA AloneWorks ==
  ASSUME CopiesInv, NEW t \in 1 .. TASKS, Running(t), HasLock(task[t].p), ~Side(task[t].code),
         NEW u \in 1 .. TASKS, u # t, Running(u)
  PROVE  Side(task[u].code) \/ Coming(task[u].code)
<1>1. SUFFICES ASSUME ~Side(task[u].code), ~Coming(task[u].code) PROVE FALSE
  OBVIOUS
<1>2. HasLock(task[u].p)
  BY <1>1 DEF CopiesInv, CodeOK
<1>3. task[u].p = task[t].p
  BY <1>2 DEF CopiesInv, LocksOK, HasLock
<1>. QED
  BY <1>1, <1>3 DEF CopiesInv, OneMain

LEMMA AssignKept ==
  ASSUME CopiesInv, NEW t \in 1 .. TASKS, Runs(t), Assign(t)
  PROVE  CopiesInv'
<1>1. /\ Running(t) /\ task[t].code # <<>> /\ IsTask(task[t]) /\ Now(t) = Head(task[t].code)
      /\ P(t) = task[t].p /\ P(t) \in 1 .. PROCS
      /\ CodeOK(task[t].code, task[t].p)
      /\ DOMAIN task = 1 .. TASKS
  BY TaskFacts
<1>2. PICK p : p = P(t)
  OBVIOUS
<1>3. PICK code : code = Rest(t)
  OBVIOUS
<1>4. code = Tail(task[t].code) /\ task' = Then(t, code) /\ lock' = lock
  BY <1>3 DEF Assign, Rest
<1>5. ProcsOK(proc) /\ "daemon.pid" \in DOMAIN disk
  BY DEF CopiesInv
<1>6. CASE Now(t).op = "add"
  <2>1. Now(t).x = "reread"
    BY <1>1, <1>6, HeadIs
  <2>2. PICK n : Store(t, "reread", n)
    BY <2>1 DEF Assign
  <2>3. CodeOK(code, task[t].p) /\ (Side(task[t].code) => Side(code))
    <3>1. ~Exits(Now(t)) /\ Now(t).op \notin {"setlk", "getpid"}
      BY <1>6 DEF Exits
    <3>. QED
      BY <1>1, <1>4, <3>1, RestOK
  <2>4. CASE disk' = [disk EXCEPT !["reread"] = n] /\ UNCHANGED proc
    <3>1. "daemon.pid" \in DOMAIN disk' /\ disk'["daemon.pid"] = disk["daemon.pid"]
      BY <1>5, <2>4
    <3>. QED
      BY <1>4, <1>5, <2>3, <2>4, <3>1, ThenKept
  <2>5. CASE proc' = Put(P(t), "reread", n) /\ UNCHANGED disk
    <3>1. PICK v : v = ("reread" :> n) @@ proc[p].mem
      OBVIOUS
    <3>2. proc' = [proc EXCEPT ![p].mem = v]
      BY <1>2, <2>5, <3>1 DEF Put
    <3>3. ProcsOK(proc') /\ \A q \in 1 .. PROCS : IsUp(proc[q]) => IsUp(proc'[q])
      BY <1>1, <1>2, <1>5, <3>2, FieldKept
    <3>. QED
      BY <1>4, <1>5, <2>3, <2>5, <3>3, ThenKept
  <2>. QED
    BY <2>2, <2>4, <2>5 DEF Store
<1>7. CASE Now(t).op \in {"set", "getpid"}
  <2>1. /\ Now(t).x = "daemon.pid" /\ HasLock(task[t].p) /\ ~Side(task[t].code)
        /\ Now(t).op = "set" => Locked(code)
        /\ Now(t).op = "getpid" => Working(code)
    BY <1>1, <1>4, <1>7, HeadIs
  <2>2. PICK n : /\ Store(t, "daemon.pid", n)
                 /\ Now(t).op = "getpid" => n = P(t)
    BY <1>7, <2>1 DEF Assign
  <2>3. disk' = [disk EXCEPT !["daemon.pid"] = n] /\ proc' = proc
    BY <1>5, <2>2 DEF Store
  <2>4. "daemon.pid" \in DOMAIN disk' /\ disk'["daemon.pid"] = n
    BY <1>5, <2>3
  <2>5. PICK r : r = [task[t] EXCEPT !.code = code]
    OBVIOUS
  <2>6. IsTask(r) /\ r.p = task[t].p /\ r.st = "run" /\ r.code = code
    BY <1>1, <2>5 DEF IsTask, Running
  <2>7. task' = [task EXCEPT ![t] = r]
    BY <1>4, <2>5 DEF Then
  <2>8. LocksOK'
    BY <1>4, <2>3 DEF CopiesInv, LocksOK
  <2>9. ASSUME NEW q, NEW c, q = task[t].p, c = code PROVE CodeOK(c, q)'
    <3>1. HasLock(q)'
      BY <1>4, <2>1, <2>9 DEF HasLock
    <3>2. CASE Now(t).op = "set"
      BY <2>1, <2>9, <3>1, <3>2 DEF CodeOK
    <3>3. CASE Now(t).op = "getpid"
      BY <1>1, <2>1, <2>2, <2>4, <2>9, <3>1, <3>3 DEF CodeOK
    <3>. QED
      BY <1>7, <3>2, <3>3
  <2>10. ASSUME NEW u \in 1 .. TASKS, NEW c, NEW q, u # t, Running(u), c = task[u].code, q = task[u].p
         PROVE  CodeOK(c, q)'
    <3>1. Side(c) \/ Coming(c)
      BY <1>1, <2>1, <2>10, AloneWorks
    <3>. QED
      BY <3>1 DEF CodeOK
  <2>11. \A q : q = task[t].p => CodeOK(r.code, q)'
    BY <2>6, <2>9
  <2>. QED
    BY <1>1, <1>5, <2>1, <2>3, <2>4, <2>6, <2>7, <2>8, <2>10, <2>11, Moved
<1>. QED
  BY <1>6, <1>7 DEF Assign

\* Nothing put before what is left is what is left.
LEMMA NothingFirst ==
  ASSUME NEW code, NEW p, code # <<>>, CodeOK(code, p)
  PROVE  <<>> \o Tail(code) = Tail(code)
<1>1. PICK S : code \in Seq(S)
  BY DEF CodeOK, Side, Coming, Locked, Working, Ending, Reached
<1>2. Tail(code) \in Seq(S)
  BY <1>1
<1>. QED
  BY <1>2, ConcatEmptySeq

LEMMA RecordLockKept ==
  ASSUME CopiesInv, NEW t \in 1 .. TASKS, Runs(t), RecordLock(t)
  PROVE  CopiesInv'
<1>1. /\ Running(t) /\ task[t].code # <<>> /\ IsTask(task[t]) /\ Now(t) = Head(task[t].code)
      /\ P(t) = task[t].p /\ P(t) \in 1 .. PROCS /\ Live(P(t))
      /\ CodeOK(task[t].code, task[t].p)
      /\ DOMAIN task = 1 .. TASKS
  BY TaskFacts
<1>2. Now(t).op = "setlk"
  <2>1. Now(t).op \in {"setlk", "setlkw"}
    BY DEF RecordLock
  <2>. QED
    BY <1>1, <2>1, HeadIs
<1>3. /\ Now(t).x = "daemon.pid" /\ Now(t).y = "w" /\ Now(t).a = <<>> /\ Now(t).c = <<Exit(1)>>
      /\ ~Side(task[t].code) /\ Locked(Rest(t))
  BY <1>1, <1>2, HeadIs DEF Rest
<1>4. proc' = proc /\ disk' = disk /\ ProcsOK(proc) /\ "daemon.pid" \in DOMAIN disk
  BY DEF RecordLock, CopiesInv
<1>5. ASSUME Conflict(t) = {}, task' = Then(t, Now(t).a \o Rest(t)),
             lock' = {l \in lock : l.p # P(t) \/ l.x # Now(t).x} \cup {[p |-> P(t), x |-> Now(t).x, y |-> Now(t).y]}
      PROVE  CopiesInv'
  <2>1. \A l \in lock : l.x = "daemon.pid" => l.p = P(t)
    BY <1>3, <1>5 DEF Conflict
  <2>2. PICK p, mine : p = P(t) /\ mine = [p |-> p, x |-> "daemon.pid", y |-> "w"]
    OBVIOUS
  <2>3. lock' = {l \in lock : l.p # p \/ l.x # "daemon.pid"} \cup {mine}
    BY <1>3, <1>5, <2>2
  <2>4. mine \in lock' /\ mine.p = p /\ mine.x = "daemon.pid" /\ mine.y = "w"
    BY <2>2, <2>3
  <2>5. \A l \in lock' : l.x = "daemon.pid" => l = mine
    BY <2>1, <2>2, <2>3
  <2>6. LocksOK'
    BY <1>1, <1>4, <2>2, <2>4, <2>5 DEF LocksOK, Live, IsUp
  <2>7. \A q : HasLock(q) => HasLock(q)'
    BY <2>1, <2>2, <2>4 DEF HasLock
  <2>8. PICK code : code = Rest(t)
    OBVIOUS
  <2>9. <<>> \o Rest(t) = code
    BY <1>1, <2>8, NothingFirst DEF Rest
  <2>10. PICK r : r = [task[t] EXCEPT !.code = code]
    OBVIOUS
  <2>11. IsTask(r) /\ r.p = task[t].p /\ r.st = "run" /\ r.code = code
    BY <1>1, <2>10 DEF IsTask, Running
  <2>12. task' = [task EXCEPT ![t] = r]
    BY <1>3, <1>5, <2>9, <2>10 DEF Then
  <2>13. ASSUME NEW q, q = task[t].p PROVE CodeOK(r.code, q)'
    <3>1. HasLock(q)'
      BY <1>1, <2>2, <2>4, <2>13 DEF HasLock
    <3>. QED
      BY <1>3, <2>8, <2>11, <3>1 DEF CodeOK
  <2>14. ASSUME NEW u \in 1 .. TASKS, NEW c, NEW q, u # t, Running(u), c = task[u].code, q = task[u].p
         PROVE  CodeOK(c, q)'
    <3>1. CodeOK(c, q)
      BY <2>14 DEF CopiesInv
    <3>. QED
      BY <1>4, <2>7, <3>1 DEF CodeOK
  <2>. QED
    BY <1>1, <1>3, <1>4, <2>6, <2>11, <2>12, <2>13, <2>14, Moved
<1>6. ASSUME task' = Then(t, Now(t).c \o Rest(t)), lock' = lock PROVE CopiesInv'
  <2>1. PICK code : code = <<Exit(1)>> \o Rest(t)
    OBVIOUS
  <2>2. Ending(code)
    BY <1>1, <2>1, ExitFirst, StatementFields DEF Rest
  <2>3. CodeOK(code, task[t].p) /\ Side(code)
    BY <2>2 DEF CodeOK, Side
  <2>. QED
    BY <1>3, <1>4, <1>6, <2>1, <2>3, ThenKept
<1>7. \/ /\ Now(t).y = "u" \/ Conflict(t) = {}
         /\ lock' = IF Now(t).y = "u" THEN {l \in lock : l.p # P(t) \/ l.x # Now(t).x}
                    ELSE {l \in lock : l.p # P(t) \/ l.x # Now(t).x} \cup {[p |-> P(t), x |-> Now(t).x, y |-> Now(t).y]}
         /\ task' = Then(t, Now(t).a \o Rest(t))
      \/ task' = Then(t, Now(t).c \o Rest(t)) /\ lock' = lock
  BY DEF RecordLock
<1>. QED
  BY <1>3, <1>5, <1>6, <1>7

\* One task goes on and starts another, in its process or in a new one.
LEMMA Spawned ==
  ASSUME CopiesInv, NEW t \in 1 .. TASKS, Running(t), NEW u \in 1 .. TASKS, ~Running(u),
         NEW r, NEW s, IsTask(r), IsTask(s), task' = [[task EXCEPT ![u] = s] EXCEPT ![t] = r],
         r.p = task[t].p, r.st = "run", s.st = "run", s.p \in 1 .. PROCS, IsUp(proc'[s.p]),
         ProcsOK(proc'), \A q \in 1 .. PROCS : IsUp(proc[q]) => IsUp(proc'[q]),
         lock' = lock, disk' = disk,
         CodeOK(r.code, task[t].p), Side(task[t].code) => Side(r.code), CodeOK(s.code, s.p),
         Side(s.code) \/ \A v \in 1 .. TASKS : Running(v) => task[v].p # s.p
  PROVE  CopiesInv'
<1>1. task' = [v \in 1 .. TASKS |-> task'[v]] /\ u # t
  BY DEF CopiesInv, TasksOK
<1>2. \A v \in 1 .. TASKS : task'[v] = IF v = t THEN r ELSE IF v = u THEN s ELSE task[v]
  BY <1>1 DEF CopiesInv, TasksOK
<1>3. \A v \in 1 .. TASKS : /\ IsTask(task'[v])
                            /\ v # u => (task'[v].st = "run" <=> Running(v)) /\ task'[v].p = task[v].p
                            /\ task'[v].st = "run" => task'[v].p \in 1 .. PROCS /\ IsUp(proc'[task'[v].p])
  BY <1>1, <1>2 DEF CopiesInv, TasksOK, Running
<1>4. TasksOK(task', proc')
  BY <1>1, <1>3 DEF TasksOK
<1>5. LocksOK' /\ \A code, p : CodeOK(code, p) => CodeOK(code, p)'
  BY FilesSame
<1>6. ASSUME NEW v \in 1 .. TASKS, NEW w \in 1 .. TASKS, v # w, Running(v)', Running(w)', task'[v].p = task'[w].p
      PROVE  Side(task'[v].code) \/ Side(task'[w].code)
  <2>1. CASE v # u /\ w # u
    <3>1. Running(v) /\ Running(w) /\ task[v].p = task[w].p
      BY <1>3, <1>6, <2>1 DEF Running
    <3>2. Side(task[v].code) \/ Side(task[w].code)
      BY <1>6, <3>1 DEF CopiesInv, OneMain
    <3>. QED
      BY <1>2, <2>1, <3>2
  <2>2. CASE v = u
    <3>1. Running(w) /\ task[w].p = s.p
      BY <1>1, <1>2, <1>3, <1>6, <2>2 DEF Running
    <3>2. Side(s.code)
      BY <3>1
    <3>. QED
      BY <1>1, <1>2, <2>2, <3>2
  <2>3. CASE w = u
    <3>1. Running(v) /\ task[v].p = s.p
      BY <1>1, <1>2, <1>3, <1>6, <2>3 DEF Running
    <3>2. Side(s.code)
      BY <3>1
    <3>. QED
      BY <1>1, <1>2, <2>3, <3>2
  <2>. QED
    BY <2>1, <2>2, <2>3
<1>7. OneMain'
  BY <1>6 DEF OneMain
<1>8. ASSUME NEW v \in 1 .. TASKS, Running(v)' PROVE CodeOK(task[v].code, task[v].p)'
  <2>1. PICK code, p : code = task'[v].code /\ p = task'[v].p
    OBVIOUS
  <2>2. CodeOK(code, p)
    <3>1. CASE v = t
      BY <1>2, <2>1, <3>1
    <3>2. CASE v = u
      BY <1>1, <1>2, <2>1, <3>2
    <3>3. CASE v # t /\ v # u
      <4>1. Running(v) /\ code = task[v].code /\ p = task[v].p
        BY <1>2, <1>3, <1>8, <2>1, <3>3 DEF Running
      <4>. QED
        BY <4>1 DEF CopiesInv
    <3>. QED
      BY <3>1, <3>2, <3>3
  <2>3. CodeOK(code, p)'
    BY <1>5, <2>2
  <2>. QED
    BY <2>1, <2>3 DEF CodeOK, HasLock
<1>. QED
  BY <1>4, <1>5, <1>7, <1>8 DEF CopiesInv

LEMMA FreeTask ==
  ASSUME CopiesInv, Room
  PROVE  LET u == Min({r \in DOMAIN task : task[r].st = "free"})
         IN  u \in 1 .. TASKS /\ ~Running(u)
<1>1. PICK E : E = {r \in DOMAIN task : task[r].st = "free"}
  OBVIOUS
<1>2. DOMAIN task = 1 .. TASKS
  BY DEF CopiesInv, TasksOK
<1>3. E # {} /\ E \in SUBSET Nat /\ E \subseteq 1 .. TASKS
  BY <1>1, <1>2 DEF Room
<1>4. Min(E) \in E
  BY <1>3, LeastExists DEF Min
<1>. QED
  BY <1>1, <1>3, <1>4 DEF Running

LEMMA CreateKept ==
  ASSUME CopiesInv, NEW t \in 1 .. TASKS, Runs(t), DoCreate(t)
  PROVE  CopiesInv'
<1>1. /\ Running(t) /\ task[t].code # <<>> /\ IsTask(task[t]) /\ Now(t) = Head(task[t].code)
      /\ P(t) = task[t].p /\ P(t) \in 1 .. PROCS /\ Live(P(t))
      /\ CodeOK(task[t].code, task[t].p)
      /\ DOMAIN task = 1 .. TASKS
  BY TaskFacts
<1>2. Now(t).op = "create" /\ Now(t).a = thr_fn
  BY <1>1, HeadIs DEF DoCreate
<1>3. PICK u, p, code : /\ u = Min({r \in DOMAIN task : task[r].st = "free"})
                        /\ p = P(t) /\ code = Rest(t)
  OBVIOUS
<1>4. u \in 1 .. TASKS /\ ~Running(u)
  BY <1>3, FreeTask DEF DoCreate
<1>5. CodeOK(code, task[t].p) /\ (Side(task[t].code) => Side(code))
  <2>1. ~Exits(Now(t)) /\ Now(t).op \notin {"setlk", "getpid"}
    BY <1>2 DEF Exits
  <2>. QED
    BY <1>1, <1>3, <2>1, RestOK DEF Rest
<1>6. Side(thr_fn)
  <2>1. thr_fn \in Seq({thr_fn[1]}) /\ Len(thr_fn) = 1
    <3>1. PICK w : w = thr_fn[1]
      OBVIOUS
    <3>2. thr_fn = <<w>>
      BY <3>1, ServerFields
    <3>. QED
      BY <3>1, <3>2
  <2>2. Len(Server) = 4 /\ Server[4] = thr_fn[1]
    BY ServerStatements
  <2>3. Len(thr_fn) = Len(Server) + 1 - 4 /\ Len(Server) \in Nat /\ 4 \in Nat
    BY <2>1, <2>2
  <2>4. \A j \in 4 .. Len(Server) : thr_fn[j + 1 - 4] = Server[j]
    BY <2>2
  <2>5. Reached(thr_fn, Server, 4)
    BY <2>1, <2>3, <2>4, ReachedNow
  <2>. QED
    BY <2>5 DEF Side
<1>7. PICK r, s : r = [task[t] EXCEPT !.code = code] /\ s = [task[t] EXCEPT !.code = thr_fn]
  OBVIOUS
<1>8. /\ IsTask(r) /\ r.p = task[t].p /\ r.st = "run" /\ r.code = code
      /\ IsTask(s) /\ s.p = task[t].p /\ s.st = "run" /\ s.code = thr_fn
  BY <1>1, <1>7 DEF IsTask, Running
<1>9. task' = [[task EXCEPT ![u] = s] EXCEPT ![t] = r]
  <2>1. task' = [task EXCEPT ![u] = [task[t] EXCEPT !.code = Now(t).a], ![t].code = Rest(t)]
    BY <1>3 DEF DoCreate
  <2>2. [task EXCEPT ![u] = s][t] = task[t]
    BY <1>1, <1>4
  <2>. QED
    BY <1>1, <1>2, <1>3, <1>4, <1>7, <2>1, <2>2
<1>10. PICK v : v = (Now(t).x :> u) @@ proc[p].mem
  OBVIOUS
<1>11. proc' = [proc EXCEPT ![p].mem = v]
  BY <1>3, <1>10 DEF DoCreate, Put
<1>12. ProcsOK(proc') /\ \A q \in 1 .. PROCS : IsUp(proc[q]) => IsUp(proc'[q])
  BY <1>1, <1>3, <1>11, FieldKept DEF CopiesInv
<1>13. s.p \in 1 .. PROCS /\ IsUp(proc'[s.p])
  BY <1>1, <1>8, <1>12 DEF Live, IsUp
<1>14. CodeOK(s.code, s.p) /\ Side(s.code)
  BY <1>6, <1>8 DEF CodeOK
<1>15. lock' = lock /\ disk' = disk
  BY DEF DoCreate
<1>. QED
  BY <1>1, <1>4, <1>5, <1>8, <1>9, <1>12, <1>13, <1>14, <1>15, Spawned

LEMMA ForkKept ==
  ASSUME CopiesInv, NEW t \in 1 .. TASKS, Runs(t), DoFork(t)
  PROVE  CopiesInv'
<1>1. /\ Running(t) /\ task[t].code # <<>> /\ IsTask(task[t]) /\ Now(t) = Head(task[t].code)
      /\ P(t) = task[t].p /\ P(t) \in 1 .. PROCS /\ IsProc(proc[P(t)]) /\ Live(P(t))
      /\ CodeOK(task[t].code, task[t].p)
      /\ DOMAIN task = 1 .. TASKS /\ DOMAIN proc = 1 .. PROCS
  BY TaskFacts
<1>2. /\ Now(t).op = "fork" /\ Now(t).a = <<>> /\ Now(t).b = <<Exit(0)>> /\ Coming(Rest(t))
  <2>1. Now(t).op \in {"fork", "vfork"}
    BY DEF DoFork
  <2>. QED
    BY <1>1, <2>1, HeadIs DEF Rest
<1>3. PICK p, q, u, code, last :
         /\ p = P(t) /\ q = Min({r \in DOMAIN proc : proc[r].st = "free"})
         /\ u = Min({r \in DOMAIN task : task[r].st = "free"})
         /\ code = Rest(t) /\ last = <<Exit(0)>> \o Rest(t)
  OBVIOUS
<1>4. u \in 1 .. TASKS /\ ~Running(u)
  BY <1>3, FreeTask DEF DoFork
<1>5. q \in 1 .. PROCS /\ proc[q].st = "free"
  <2>1. PICK E : E = {r \in 1 .. PROCS : proc[r].st = "free"}
    OBVIOUS
  <2>4. E = {r \in DOMAIN proc : proc[r].st = "free"}
    BY <1>1, <2>1
  <2>2. E # {} /\ E \in SUBSET Nat /\ E \subseteq 1 .. PROCS
    <3>1. \E r \in DOMAIN proc : proc[r].st = "free"
      BY DEF DoFork
    <3>2. E # {}
      BY <2>4, <3>1
    <3>3. E \subseteq 1 .. PROCS
      BY <2>1
    <3>4. 1 .. PROCS \subseteq Nat
      OBVIOUS
    <3>. QED
      BY <3>2, <3>3, <3>4
  <2>3. Min(E) \in E
    BY <2>2, LeastExists DEF Min
  <2>5. q = Min(E)
    BY <1>3, <2>4
  <2>. QED
    BY <2>1, <2>2, <2>3, <2>5
<1>6. q # p /\ proc[p].st = "live"
  BY <1>1, <1>3, <1>5 DEF Live
<1>7. <<>> \o Rest(t) = code /\ Coming(code)
  BY <1>1, <1>2, <1>3, NothingFirst DEF Rest
<1>8. Ending(last)
  BY <1>1, <1>3, ExitFirst, StatementFields DEF Rest
<1>9. PICK r, s : r = [task[t] EXCEPT !.code = last] /\ s = [task[t] EXCEPT !.p = q, !.code = code]
  OBVIOUS
<1>10. /\ IsTask(r) /\ r.p = task[t].p /\ r.st = "run" /\ r.code = last
       /\ IsTask(s) /\ s.p = q /\ s.st = "run" /\ s.code = code
  BY <1>1, <1>9 DEF IsTask, Running
<1>11. task' = [[task EXCEPT ![u] = s] EXCEPT ![t] = r]
  <2>1. task' = [task EXCEPT ![u] = [task[t] EXCEPT !.p = q, !.code = Now(t).a \o Rest(t)],
                             ![t].code = Now(t).b \o Rest(t)]
    BY <1>3 DEF DoFork
  <2>2. [task EXCEPT ![u] = s][t] = task[t]
    BY <1>1, <1>4
  <2>. QED
    BY <1>1, <1>2, <1>3, <1>4, <1>7, <1>9, <2>1, <2>2
<1>12. PICK child : child = [proc[p] EXCEPT !.up = p, !.pend = {}, !.alarm = FALSE, !.vf = Now(t).op = "vfork",
                                            !.status = 0]
  OBVIOUS
<1>13. PICK v : v = (Now(t).x :> q) @@ proc[p].mem
  OBVIOUS
<1>14. IsProc(child) /\ child.st = "live" /\ child.act = proc[p].act
  BY <1>1, <1>3, <1>6, <1>12 DEF IsProc
<1>15. PICK z : z = [proc[p] EXCEPT !.mem = v]
  OBVIOUS
<1>16. IsProc(z) /\ z.st = "live" /\ z.act = proc[p].act
  BY <1>1, <1>3, <1>6, <1>15 DEF IsProc
<1>17. proc' = [[proc EXCEPT ![q] = child] EXCEPT ![p] = z]
  <2>1. proc' = [proc EXCEPT ![q] = child, ![p].mem = (Now(t).x :> q) @@ @]
    BY <1>3, <1>12 DEF DoFork
  <2>2. [proc EXCEPT ![q] = child][p] = proc[p]
    BY <1>1, <1>3, <1>6
  <2>. QED
    BY <1>1, <1>3, <1>13, <1>15, <2>1, <2>2
<1>18. \A o \in 1 .. PROCS : proc'[o] = IF o = p THEN z ELSE IF o = q THEN child ELSE proc[o]
  BY <1>1, <1>5, <1>17
<1>19. ProcsOK(proc') /\ IsUp(proc'[q]) /\ \A o \in 1 .. PROCS : IsUp(proc[o]) => IsUp(proc'[o])
  <2>1. proc' = [o \in 1 .. PROCS |-> proc'[o]]
    BY <1>1, <1>17
  <2>2. ProcsOK(proc)
    BY DEF CopiesInv
  <2>3. \A o \in 1 .. PROCS : IsProc(proc'[o]) /\ \A i \in DOMAIN proc'[o].act : Handler(proc'[o].act[i].code)
    BY <1>1, <1>3, <1>14, <1>16, <1>18, <2>2 DEF ProcsOK
  <2>4. \A o \in 1 .. PROCS : IsUp(proc[o]) => IsUp(proc'[o])
    BY <1>14, <1>16, <1>18 DEF IsUp
  <2>5. IsUp(proc'[q])
    BY <1>5, <1>6, <1>14, <1>18 DEF IsUp
  <2>. QED
    BY <2>1, <2>3, <2>4, <2>5 DEF ProcsOK
<1>20. \A o \in 1 .. TASKS : Running(o) => task[o].p # s.p
  BY <1>5, <1>10 DEF CopiesInv, TasksOK, Running, IsUp
<1>21. CodeOK(s.code, s.p) /\ CodeOK(r.code, task[t].p) /\ Side(r.code)
  BY <1>7, <1>8, <1>10 DEF CodeOK, Side
<1>22. lock' = lock /\ disk' = disk
  BY DEF DoFork
<1>. QED
  BY <1>1, <1>4, <1>5, <1>10, <1>11, <1>19, <1>20, <1>21, <1>22, Spawned

LEMMA ExitKept ==
  ASSUME CopiesInv, NEW t \in 1 .. TASKS, Runs(t), DoExit(t)
  PROVE  CopiesInv'
<1>1. PICK p, n : p = P(t) /\ n = Now(t).n
  OBVIOUS
<1>2. p \in 1 .. PROCS
  BY <1>1, TaskFacts
<1>3. End(p, n) /\ disk' = disk
  BY <1>1 DEF DoExit
<1>. QED
  BY <1>2, <1>3, EndKept

LEMMA DeliverKept ==
  ASSUME CopiesInv, NEW t \in 1 .. TASKS, Runs(t), Deliver(t)
  PROVE  CopiesInv'
<1>1. /\ Running(t) /\ Live(P(t)) /\ CodeOK(task[t].code, task[t].p)
  BY TaskFacts
<1>2. PICK s, code, m : /\ code = task[t].code
                        /\ Take(t, s, code, m, m)
  BY DEF Deliver
<1>3. disk' = disk
  BY DEF Deliver
<1>. QED
  BY <1>1, <1>2, <1>3, TakeKept

LEMMA FaultKept ==
  ASSUME CopiesInv, NEW t \in 1 .. TASKS, Fault(t)
  PROVE  CopiesInv'
<1>1. Runs(t) /\ Now(t).op \in {"pipe", "spipe", "fork", "vfork", "exec", "create"}
  BY DEF Fault, At
<1>2. task[t].code # <<>> /\ Now(t) = Head(task[t].code) /\ CodeOK(task[t].code, task[t].p)
  BY <1>1, TaskFacts
<1>3. Now(t).c = <<Exit(1)>>
  <2>1. Now(t).op \in {"fork", "create"}
    BY <1>1, <1>2, HeadIs
  <2>2. Now(t).c = ErrSys
    BY <1>2, <2>1, HeadIs
  <2>. QED
    BY <2>2 DEF ErrSys
<1>4. PICK code : code = <<Exit(1)>> \o Rest(t)
  OBVIOUS
<1>5. Ending(code)
  BY <1>2, <1>4, ExitFirst, StatementFields DEF Rest
<1>6. CodeOK(code, task[t].p) /\ Side(code)
  BY <1>5 DEF CodeOK, Side
<1>7. task' = Then(t, code) /\ proc' = proc /\ lock' = lock /\ disk' = disk
  BY <1>3, <1>4 DEF Fault
<1>. QED
  BY <1>1, <1>6, <1>7, ThenKept DEF CopiesInv

\* A thread of a daemon makes no other call.
LEMMA CallKept ==
  ASSUME CopiesInv, NEW t \in 1 .. TASKS, Call(t)
  PROVE  CopiesInv'
<1>1. Runs(t)
  BY DEF Call
<1>2. Now(t).op \in {"setmask", "kill", "add", "exit", "fork", "sigaction", "close", "setlk", "set", "getpid",
                     "block", "create", "sleep", "sigwait", "if", "while"}
  BY <1>1, TaskFacts, HeadIs
<1>3. ~Choose(t) /\ ~Jump(t) /\ ~MakePipe(t) /\ ~ReadFd(t) /\ ~WriteFd(t) /\ ~DoPrintf(t)
  BY <1>2 DEF Choose, Jump, MakePipe, ReadFd, WriteFd, DoPrintf
<1>4. ~Flush(t) /\ ~DoExec(t) /\ ~DoWait(t) /\ ~DoAlarm(t) /\ ~Pending(t) /\ ~SetTerminal(t)
  BY <1>2 DEF Flush, DoExec, DoWait, DoAlarm, Pending, SetTerminal
<1>5. ~DoThreadExit(t) /\ ~DoJoin(t) /\ ~Mutex(t) /\ ~DoCondWait(t) /\ ~DoCondSignal(t) /\ ~DoBarrier(t)
  BY <1>2 DEF DoThreadExit, DoJoin, Mutex, DoCondWait, DoCondSignal, DoBarrier
<1>6. ~DoListen(t) /\ ~DoConnect(t) /\ ~DoAccept(t)
  BY <1>2 DEF DoListen, DoConnect, DoAccept
<1>7. ~Interrupt(t)
  BY <1>2 DEF Interrupt, Blocked
<1>8. Assign(t) => CopiesInv'
  BY <1>1, AssignKept
<1>9. Branch(t) => CopiesInv'
  BY <1>1, BranchKept
<1>10. Pass(t) \/ CloseFd(t) \/ DoSigWait(t) \/ Mask(t) \/ DoKill(t) \/ Action(t) => CopiesInv'
  BY <1>1, PassKept
<1>11. DoFork(t) => CopiesInv'
  BY <1>1, ForkKept
<1>12. DoExit(t) => CopiesInv'
  BY <1>1, ExitKept
<1>13. Deliver(t) => CopiesInv'
  BY <1>1, DeliverKept
<1>14. DoCreate(t) => CopiesInv'
  BY <1>1, CreateKept
<1>15. RecordLock(t) => CopiesInv'
  BY <1>1, RecordLockKept
<1>. QED
  BY <1>3, <1>4, <1>5, <1>6, <1>7, <1>8, <1>9, <1>10, <1>11, <1>12, <1>13, <1>14, <1>15 DEF Call

\* A step in which no task goes on.
LEMMA ProcsOnly ==
  ASSUME CopiesInv, ProcsOK(proc'), \A q \in 1 .. PROCS : IsUp(proc[q]) => IsUp(proc'[q]),
         task' = task, lock' = lock, disk' = disk
  PROVE  CopiesInv'
<1>1. LocksOK' /\ \A code, p : CodeOK(code, p) => CodeOK(code, p)'
  BY FilesSame
<1>2. TasksOK(task', proc')
  BY DEF CopiesInv, TasksOK
<1>3. OneMain'
  BY DEF CopiesInv, OneMain, Running
<1>4. ASSUME NEW t \in 1 .. TASKS, Running(t)' PROVE CodeOK(task[t].code, task[t].p)'
  <2>1. PICK code, p : code = task[t].code /\ p = task[t].p
    OBVIOUS
  <2>2. CodeOK(code, p)
    BY <1>4, <2>1 DEF CopiesInv, Running
  <2>3. CodeOK(code, p)'
    BY <1>1, <2>2
  <2>. QED
    BY <2>1, <2>3 DEF CodeOK, HasLock
<1>. QED
  BY <1>1, <1>2, <1>3, <1>4 DEF CopiesInv

LEMMA RingKept ==
  ASSUME CopiesInv, NEW p \in 1 .. PROCS, Ring(p)
  PROVE  CopiesInv'
<1>1. ProcsOK(proc) /\ IsProc(proc[p])
  BY DEF CopiesInv, ProcsOK
<1>2. PICK z, pr : z = [proc[p] EXCEPT !.alarm = FALSE] /\ pr = [proc EXCEPT ![p] = z]
  OBVIOUS
<1>3. IsProc(z) /\ z.st = proc[p].st /\ z.act = proc[p].act
  BY <1>1, <1>2 DEF IsProc
<1>4. ProcsOK(pr) /\ \A q \in 1 .. PROCS : pr[q].st = proc[q].st
  <2>1. \A q \in 1 .. PROCS : pr[q] = IF q = p THEN z ELSE proc[q]
    BY <1>1, <1>2 DEF ProcsOK
  <2>2. pr = [q \in 1 .. PROCS |-> pr[q]]
    BY <1>1, <1>2 DEF ProcsOK
  <2>. QED
    BY <1>1, <1>3, <2>1, <2>2 DEF ProcsOK
<1>5. proc' = Signalled(pr, p, "ALRM")
  BY <1>2 DEF Ring
<1>6. ProcsOK(proc') /\ \A q \in 1 .. PROCS : IsUp(proc[q]) => IsUp(proc'[q])
  BY <1>4, <1>5, SignalledProcs DEF IsUp
<1>. QED
  BY <1>6, ProcsOnly DEF Ring

LEMMA PressKept ==
  ASSUME CopiesInv, Press
  PROVE  CopiesInv'
<1>1. ProcsOK(proc) /\ DOMAIN proc = 1 .. PROCS
  BY DEF CopiesInv, ProcsOK
<1>2. CASE proc' = proc
  BY <1>1, <1>2, ProcsOnly DEF Press
<1>3. CASE proc' = [p \in DOMAIN proc |-> IF proc[p].st = "stopped" THEN [proc[p] EXCEPT !.st = "live"] ELSE proc[p]]
  <2>1. ASSUME NEW p \in 1 .. PROCS
        PROVE  IsProc(proc'[p]) /\ proc'[p].act = proc[p].act /\ (IsUp(proc[p]) => IsUp(proc'[p]))
    <3>1. IsProc(proc[p]) /\ proc'[p] = IF proc[p].st = "stopped" THEN [proc[p] EXCEPT !.st = "live"] ELSE proc[p]
      BY <1>1, <1>3 DEF ProcsOK
    <3>2. CASE proc[p].st = "stopped"
      BY <3>1, <3>2 DEF IsProc, IsUp
    <3>3. CASE proc[p].st # "stopped"
      BY <3>1, <3>3
    <3>. QED
      BY <3>2, <3>3
  <2>2. proc' = [p \in 1 .. PROCS |-> proc'[p]]
    BY <1>1, <1>3
  <2>3. ProcsOK(proc')
    BY <1>1, <2>1, <2>2 DEF ProcsOK
  <2>. QED
    BY <2>1, <2>3, ProcsOnly DEF Press
<1>4. ASSUME NEW s, proc' = [p \in DOMAIN proc |-> Signalled(proc, p, s)[p]]
      PROVE  CopiesInv'
  <2>1. ASSUME NEW p \in 1 .. PROCS
        PROVE  /\ IsProc(proc'[p]) /\ \A i \in DOMAIN proc'[p].act : Handler(proc'[p].act[i].code)
               /\ proc'[p].st = proc[p].st
    <3>1. proc'[p] = Signalled(proc, p, s)[p]
      BY <1>1, <1>4
    <3>2. ProcsOK(Signalled(proc, p, s)) /\ Signalled(proc, p, s)[p].st = proc[p].st
      <4>1. PICK pr : pr = proc
        OBVIOUS
      <4>2. ProcsOK(Signalled(pr, p, s)) /\ \A q \in 1 .. PROCS : Signalled(pr, p, s)[q].st = pr[q].st
        <5>1. ProcsOK(pr)
          BY <1>1, <4>1
        <5>. QED
          BY <5>1, SignalledProcs
      <4>. QED
        BY <4>1, <4>2
    <3>. QED
      BY <3>1, <3>2 DEF ProcsOK
  <2>2. proc' = [p \in 1 .. PROCS |-> proc'[p]]
    BY <1>1, <1>4
  <2>3. ProcsOK(proc')
    BY <2>1, <2>2 DEF ProcsOK
  <2>. QED
    BY <2>1, <2>3, ProcsOnly DEF Press, IsUp
<1>. QED
  BY <1>2, <1>3, <1>4 DEF Press

LEMMA SpuriousKept ==
  ASSUME CopiesInv, NEW t \in 1 .. TASKS, Spurious(t)
  PROVE  CopiesInv'
<1>1. ~Running(t)
  <2>1. SUFFICES ASSUME Running(t) PROVE FALSE
    OBVIOUS
  <2>2. task[t].code # <<>> /\ CodeOK(task[t].code, task[t].p) /\ Head(task[t].code).op = "lock"
    BY <2>1 DEF CopiesInv, Spurious
  <2>. QED
    BY <2>2, HeadIs
<1>2. PICK r : r = [task[t] EXCEPT !.on = "", !.got = "woken"]
  OBVIOUS
<1>3. IsTask(r) /\ r.st = task[t].st
  <2>1. IsTask(task[t])
    BY DEF CopiesInv, TasksOK
  <2>. QED
    BY <1>2, <2>1 DEF IsTask
<1>4. task' = [task EXCEPT ![t] = r] /\ proc' = proc /\ lock' = lock /\ disk' = disk
  BY <1>2 DEF Spurious, CopiesInv, TasksOK
<1>5. /\ task' = [v \in 1 .. TASKS |-> task'[v]]
      /\ \A v \in 1 .. TASKS : task'[v] = IF v = t THEN r ELSE task[v]
  BY <1>4 DEF CopiesInv, TasksOK
<1>6. \A v \in 1 .. TASKS : IsTask(task'[v]) /\ (task'[v].st = "run" => Running(v) /\ task'[v] = task[v])
  BY <1>1, <1>3, <1>5 DEF CopiesInv, TasksOK, Running
<1>7. TasksOK(task', proc')
  BY <1>4, <1>5, <1>6 DEF CopiesInv, TasksOK
<1>8. OneMain'
  BY <1>6 DEF CopiesInv, OneMain, Running
<1>9. LocksOK'
  BY <1>4 DEF CopiesInv, LocksOK
<1>10. ASSUME NEW v \in 1 .. TASKS, Running(v)' PROVE CodeOK(task[v].code, task[v].p)'
  <2>1. Running(v) /\ task'[v] = task[v]
    BY <1>6, <1>10 DEF Running
  <2>. QED
    BY <1>4, <2>1 DEF CopiesInv, CodeOK, HasLock
<1>. QED
  BY <1>4, <1>7, <1>8, <1>9, <1>10 DEF CopiesInv

LEMMA NextKept ==
  ASSUME CopiesInv, [Next]_vars
  PROVE  CopiesInv'
<1>1. DOMAIN task = 1 .. TASKS /\ DOMAIN proc = 1 .. PROCS
  BY DEF CopiesInv, TasksOK, ProcsOK
<1>2. ASSUME NEW t \in 1 .. TASKS, Call(t) \/ Fault(t) \/ Spurious(t) PROVE CopiesInv'
  BY <1>2, CallKept, FaultKept, SpuriousKept
<1>3. ASSUME NEW p \in 1 .. PROCS, Ring(p) PROVE CopiesInv'
  BY <1>3, RingKept
<1>4. CASE UNCHANGED vars
  <2>1. proc' = proc /\ task' = task /\ lock' = lock /\ disk' = disk
    BY <1>4 DEF vars
  <2>. QED
    BY <2>1, ProcsOnly DEF CopiesInv
<1>5. CASE Press
  BY <1>5, PressKept
<1>. QED
  BY <1>1, <1>2, <1>3, <1>4, <1>5 DEF Next

\* Who works has the lock, and the file names it.
LEMMA WorkerHasLock ==
  ASSUME CopiesInv
  PROVE  OneDaemon
<1>1. ASSUME NEW t \in DOMAIN task, At(t, {"sleep"}) PROVE HasLock(P(t)) /\ disk["daemon.pid"] = P(t)
  <2>1. t \in 1 .. TASKS /\ Runs(t) /\ Now(t).op = "sleep"
    BY <1>1 DEF At, CopiesInv, TasksOK
  <2>2. task[t].code # <<>> /\ Now(t) = Head(task[t].code) /\ P(t) = task[t].p /\ CodeOK(task[t].code, task[t].p)
    BY <2>1, TaskFacts
  <2>. QED
    BY <2>1, <2>2, HeadIs
<1>. QED
  BY <1>1 DEF OneDaemon

-----------------------------------------------------------------------------
\* The start

\* What is run is copies of one daemon or the other, each as it is started or
\* as it starts once it is a daemon, and operators who send signals.
CopiesRun ==
    /\ "daemon.pid" \in Programs[prog].shared
    /\ DOMAIN Programs[prog].roots \subseteq 1 .. PROCS
    /\ \A i \in DOMAIN Programs[prog].roots :
          \/ Programs[prog].roots[i] \in {reread, reread_up, reread2, reread2_up}
          \/ \E signals \in Seq(DOMAIN SigNo) : Programs[prog].roots[i] = operator(signals)

LEMMA JoinedSeq ==
  ASSUME NEW S, NEW s1 \in Seq(S), NEW s2 \in Seq(S), NEW s \in Seq(S), Len(s) = Len(s1) + Len(s2),
         \A x \in 1 .. Len(s1) + Len(s2) : s[x] = IF x <= Len(s1) THEN s1[x] ELSE s2[x - Len(s1)]
  PROVE  s1 \o s2 = s
<1>1. PICK c : c = s1 \o s2
  OBVIOUS
<1>2. c \in Seq(S) /\ Len(c) = Len(s) /\ \A x \in 1 .. Len(c) : c[x] = s[x]
  BY <1>1, ConcatProperties
<1>3. c = s
  BY <1>2, SeqEqual
<1>. QED
  BY <1>1, <1>3

LEMMA Joined3and5 ==
  ASSUME NEW a, NEW b, NEW c, NEW d, NEW e, NEW f, NEW g, NEW h
  PROVE  /\ <<a, b, c>> \o <<d, e, f, g, h>> = <<a, b, c, d, e, f, g, h>>
         /\ \E S : <<a, b, c>> \in Seq(S) /\ <<d, e, f, g, h>> \in Seq(S) /\ <<a, b, c, d, e, f, g, h>> \in Seq(S)
<1>1. PICK S, s1, s2, s : /\ S = {a, b, c, d, e, f, g, h}
                          /\ s1 = <<a, b, c>> /\ s2 = <<d, e, f, g, h>> /\ s = <<a, b, c, d, e, f, g, h>>
  OBVIOUS
<1>2. s1 \in Seq(S) /\ Len(s1) = 3 /\ s2 \in Seq(S) /\ Len(s2) = 5 /\ s \in Seq(S) /\ Len(s) = 8
  BY <1>1
<1>3. ASSUME NEW x \in 1 .. 8 PROVE s[x] = IF x <= 3 THEN s1[x] ELSE s2[x - 3]
  <2>1. x = 1 \/ x = 2 \/ x = 3 \/ x = 4 \/ x = 5 \/ x = 6
    \/ x = 7 \/ x = 8
    OBVIOUS
  <2>. QED
    BY <1>1, <2>1
<1>4. \A x \in 1 .. Len(s1) + Len(s2) : s[x] = IF x <= Len(s1) THEN s1[x] ELSE s2[x - Len(s1)]
  BY <1>2, <1>3
<1>5. Len(s) = Len(s1) + Len(s2)
  BY <1>2
<1>6. s1 \o s2 = s
  BY <1>2, <1>4, <1>5, JoinedSeq
<1>. QED
  BY <1>1, <1>2, <1>6

LEMMA Joined3and4 ==
  ASSUME NEW a, NEW b, NEW c, NEW d, NEW e, NEW f, NEW g
  PROVE  /\ <<a, b, c>> \o <<d, e, f, g>> = <<a, b, c, d, e, f, g>>
         /\ \E S : <<a, b, c>> \in Seq(S) /\ <<d, e, f, g>> \in Seq(S) /\ <<a, b, c, d, e, f, g>> \in Seq(S)
<1>1. PICK S, s1, s2, s : /\ S = {a, b, c, d, e, f, g}
                          /\ s1 = <<a, b, c>> /\ s2 = <<d, e, f, g>> /\ s = <<a, b, c, d, e, f, g>>
  OBVIOUS
<1>2. s1 \in Seq(S) /\ Len(s1) = 3 /\ s2 \in Seq(S) /\ Len(s2) = 4 /\ s \in Seq(S) /\ Len(s) = 7
  BY <1>1
<1>3. ASSUME NEW x \in 1 .. 7 PROVE s[x] = IF x <= 3 THEN s1[x] ELSE s2[x - 3]
  <2>1. x = 1 \/ x = 2 \/ x = 3 \/ x = 4 \/ x = 5 \/ x = 6 \/ x = 7
    OBVIOUS
  <2>. QED
    BY <1>1, <2>1
<1>4. \A x \in 1 .. Len(s1) + Len(s2) : s[x] = IF x <= Len(s1) THEN s1[x] ELSE s2[x - Len(s1)]
  BY <1>2, <1>3
<1>5. Len(s) = Len(s1) + Len(s2)
  BY <1>2
<1>6. s1 \o s2 = s
  BY <1>2, <1>4, <1>5, JoinedSeq
<1>. QED
  BY <1>1, <1>2, <1>6

LEMMA Joined5and8 ==
  ASSUME NEW a, NEW b, NEW c, NEW d, NEW e, NEW f, NEW g, NEW h, NEW i, NEW j, NEW k, NEW l, NEW m
  PROVE  /\ <<a, b, c, d, e>> \o <<f, g, h, i, j, k, l, m>> = <<a, b, c, d, e, f, g, h, i, j, k, l, m>>
         /\ \E S : <<a, b, c, d, e>> \in Seq(S) /\ <<f, g, h, i, j, k, l, m>> \in Seq(S)
                 /\ <<a, b, c, d, e, f, g, h, i, j, k, l, m>> \in Seq(S)
<1>1. PICK S, s1, s2, s : /\ S = {a, b, c, d, e, f, g, h, i, j, k, l, m}
                          /\ s1 = <<a, b, c, d, e>> /\ s2 = <<f, g, h, i, j, k, l, m>>
                          /\ s = <<a, b, c, d, e, f, g, h, i, j, k, l, m>>
  OBVIOUS
<1>2. s1 \in Seq(S) /\ Len(s1) = 5 /\ s2 \in Seq(S) /\ Len(s2) = 8 /\ s \in Seq(S) /\ Len(s) = 13
  BY <1>1
<1>3. ASSUME NEW x \in 1 .. 13 PROVE s[x] = IF x <= 5 THEN s1[x] ELSE s2[x - 5]
  <2>1. x = 1 \/ x = 2 \/ x = 3 \/ x = 4 \/ x = 5 \/ x = 6
    \/ x = 7 \/ x = 8 \/ x = 9 \/ x = 10 \/ x = 11 \/ x = 12 \/ x = 13
    OBVIOUS
  <2>. QED
    BY <1>1, <2>1
<1>4. \A x \in 1 .. Len(s1) + Len(s2) : s[x] = IF x <= Len(s1) THEN s1[x] ELSE s2[x - Len(s1)]
  BY <1>2, <1>3
<1>5. Len(s) = Len(s1) + Len(s2)
  BY <1>2
<1>6. s1 \o s2 = s
  BY <1>2, <1>4, <1>5, JoinedSeq
<1>. QED
  BY <1>1, <1>2, <1>6

LEMMA Joined5and7 ==
  ASSUME NEW a, NEW b, NEW c, NEW d, NEW e, NEW f, NEW g, NEW h, NEW i, NEW j, NEW k, NEW l
  PROVE  /\ <<a, b, c, d, e>> \o <<f, g, h, i, j, k, l>> = <<a, b, c, d, e, f, g, h, i, j, k, l>>
         /\ \E S : <<a, b, c, d, e>> \in Seq(S) /\ <<f, g, h, i, j, k, l>> \in Seq(S)
                 /\ <<a, b, c, d, e, f, g, h, i, j, k, l>> \in Seq(S)
<1>1. PICK S, s1, s2, s : /\ S = {a, b, c, d, e, f, g, h, i, j, k, l}
                          /\ s1 = <<a, b, c, d, e>> /\ s2 = <<f, g, h, i, j, k, l>>
                          /\ s = <<a, b, c, d, e, f, g, h, i, j, k, l>>
  OBVIOUS
<1>2. s1 \in Seq(S) /\ Len(s1) = 5 /\ s2 \in Seq(S) /\ Len(s2) = 7 /\ s \in Seq(S) /\ Len(s) = 12
  BY <1>1
<1>3. ASSUME NEW x \in 1 .. 12 PROVE s[x] = IF x <= 5 THEN s1[x] ELSE s2[x - 5]
  <2>1. x = 1 \/ x = 2 \/ x = 3 \/ x = 4 \/ x = 5 \/ x = 6
    \/ x = 7 \/ x = 8 \/ x = 9 \/ x = 10 \/ x = 11 \/ x = 12
    OBVIOUS
  <2>. QED
    BY <1>1, <2>1
<1>4. \A x \in 1 .. Len(s1) + Len(s2) : s[x] = IF x <= Len(s1) THEN s1[x] ELSE s2[x - Len(s1)]
  BY <1>2, <1>3
<1>5. Len(s) = Len(s1) + Len(s2)
  BY <1>2
<1>6. s1 \o s2 = s
  BY <1>2, <1>4, <1>5, JoinedSeq
<1>. QED
  BY <1>1, <1>2, <1>6

LEMMA DaemonCode ==
  /\ reread = daemonize \o reread_up /\ reread = Daemon1
  /\ reread2 = daemonize \o reread2_up /\ reread2 = Daemon2
  /\ \E S : daemonize \in Seq(S) /\ reread_up \in Seq(S) /\ reread \in Seq(S)
  /\ \E S : daemonize \in Seq(S) /\ reread2_up \in Seq(S) /\ reread2 \in Seq(S)
<1>1. reread_up = << lockfile(<<Exit(1)>>), Set("daemon.pid", 0), GetPid("daemon.pid"),
                     SignalDfl("HUP"), Block(AllSignals), Create("tid", thr_fn), Work, Exit(0) >>
  BY Joined3and5 DEF reread_up, already_running
<1>2. reread2_up = << lockfile(<<Exit(1)>>), Set("daemon.pid", 0), GetPid("daemon.pid"),
                      Catch("TERM", sigterm), Catch("HUP", sighup), Work, Exit(0) >>
  BY Joined3and4 DEF reread2_up, already_running
<1>3. reread = Daemon1
  BY <1>1, Joined5and8 DEF reread, daemonize, Daemon1
<1>4. reread2 = Daemon2
  BY <1>2, Joined5and7 DEF reread2, daemonize, Daemon2
<1>5. \E S : daemonize \in Seq(S) /\ reread_up \in Seq(S) /\ reread \in Seq(S)
  BY <1>1, <1>3, Joined5and8 DEF daemonize, Daemon1
<1>6. \E S : daemonize \in Seq(S) /\ reread2_up \in Seq(S) /\ reread2 \in Seq(S)
  BY <1>2, <1>4, Joined5and7 DEF daemonize, Daemon2
<1>. QED
  BY <1>3, <1>4, <1>5, <1>6 DEF reread, reread2

\* The second half of a daemon comes after its first.
LEMMA StartCode ==
  /\ \A code \in {reread, reread_up, reread2, reread2_up} : Coming(code)
  /\ \A signals \in Seq(DOMAIN SigNo) : Ending(operator(signals))
<1>1. ASSUME NEW D \in Daemon PROVE Reached(D, D, 1)
  <2>1. \E S : D \in Seq(S)
    BY DaemonCode DEF Daemon
  <2>2. Len(D) \in Nat
    BY ProgramsAreStatements
  <2>3. Len(D) = Len(D) + 1 - 1
    BY <2>2
  <2>4. \A j \in 1 .. Len(D) : D[j + 1 - 1] = D[j]
    BY <2>2
  <2>. QED
    BY <2>1, <2>2, <2>3, <2>4, ReachedNow
<1>2. ASSUME NEW D \in Daemon, NEW up, D = daemonize \o up, \E S : daemonize \in Seq(S) /\ up \in Seq(S)
      PROVE  Reached(up, D, 6)
  <2>0. PICK S : daemonize \in Seq(S) /\ up \in Seq(S)
    BY <1>2
  <2>1. Len(daemonize) = 5 /\ Len(up) \in Nat
    BY <2>0 DEF daemonize
  <2>2. /\ Len(D) = 5 + Len(up)
        /\ \A j \in 1 .. 5 + Len(up) : D[j] = IF j <= 5 THEN daemonize[j] ELSE up[j - 5]
    <3>1. /\ Len(D) = Len(daemonize) + Len(up)
          /\ \A j \in 1 .. Len(daemonize) + Len(up) :
                D[j] = IF j <= Len(daemonize) THEN daemonize[j] ELSE up[j - Len(daemonize)]
      BY <1>2, <2>0, ConcatProperties
    <3>. QED
      BY <2>1, <3>1
  <2>3. Len(up) = Len(D) + 1 - 6 /\ Len(D) \in Nat
    BY <2>1, <2>2
  <2>4. ASSUME NEW j \in 6 .. Len(D) PROVE up[j + 1 - 6] = D[j]
    <3>1. j + 1 - 6 = j - 5 /\ j \in 1 .. 5 + Len(up) /\ ~(j <= 5)
      BY <2>1, <2>2
    <3>. QED
      BY <2>2, <3>1
  <2>. QED
    BY <2>0, <2>3, <2>4, ReachedNow
<1>3. /\ \E S : daemonize \in Seq(S) /\ reread_up \in Seq(S)
      /\ \E S : daemonize \in Seq(S) /\ reread2_up \in Seq(S)
  BY DaemonCode
<1>4. ASSUME NEW code \in {reread, reread_up, reread2, reread2_up} PROVE Coming(code)
  <2>1. CASE code \in {reread, reread2}
    <3>1. code \in Daemon /\ 1 \in 1 .. 6
      BY <2>1, DaemonCode DEF Daemon
    <3>. QED
      BY <1>1, <3>1 DEF Coming
  <2>2. CASE code \in {reread_up, reread2_up}
    <3>1. PICK D \in Daemon : D = daemonize \o code
      BY <2>2, DaemonCode DEF Daemon
    <3>2. \E S : daemonize \in Seq(S) /\ code \in Seq(S)
      BY <1>3, <2>2
    <3>3. Reached(code, D, 6)
      BY <1>2, <3>1, <3>2
    <3>. QED
      BY <3>3 DEF Coming
  <2>. QED
    BY <2>1, <2>2
<1>5. ASSUME NEW signals \in Seq(DOMAIN SigNo) PROVE Ending(operator(signals))
  <2>1. PICK kills, last : /\ kills = [i \in DOMAIN signals |-> Kill("daemon.pid", signals[i])]
                           /\ last = Exit(0)
    OBVIOUS
  <2>2. \A s : Aside(Kill("daemon.pid", s))
    BY DEF Aside, Kill, Stmt
  <2>3. PICK S : S = {kills[i] : i \in DOMAIN signals} \cup {last}
    OBVIOUS
  <2>4. Len(signals) \in Nat /\ DOMAIN signals = 1 .. Len(signals)
    OBVIOUS
  <2>5. kills \in Seq(S) /\ Len(kills) = Len(signals) /\ \A i \in 1 .. Len(signals) : Aside(kills[i])
    <3>1. kills = [i \in 1 .. Len(signals) |-> Kill("daemon.pid", signals[i])]
      BY <2>1, <2>4
    <3>2. \A i \in 1 .. Len(signals) : kills[i] \in S /\ Aside(kills[i])
      BY <2>2, <2>3, <2>4, <3>1
    <3>3. kills \in [1 .. Len(signals) -> S]
      BY <3>1, <3>2
    <3>4. kills \in Seq(S)
      BY <2>4, <3>3
    <3>5. Len(kills) = Len(signals)
      BY <2>4, <3>1, <3>4
    <3>. QED
      BY <3>2, <3>4, <3>5
  <2>6. <<last>> \in Seq(S) /\ Len(<<last>>) = 1 /\ <<last>>[1] = last
    BY <2>3
  <2>7. PICK code : code = kills \o <<last>>
    OBVIOUS
  <2>8. /\ code \in Seq(S) /\ Len(code) = Len(signals) + 1
        /\ \A i \in 1 .. Len(signals) + 1 : code[i] = IF i <= Len(signals) THEN kills[i] ELSE <<last>>[i - Len(signals)]
    BY <2>5, <2>6, <2>7, ConcatProperties
  <2>9. PICK n : n = Len(signals) + 1
    OBVIOUS
  <2>10. n \in 1 .. Len(code) /\ code[n] = last
    <3>1. n \in 1 .. Len(signals) + 1 /\ ~(n <= Len(signals)) /\ n - Len(signals) = 1
      BY <2>4, <2>9
    <3>. QED
      BY <2>6, <2>8, <3>1
  <2>11. \A j \in 1 .. n : j < n => Aside(code[j])
    BY <2>4, <2>5, <2>8, <2>9
  <2>12. Exits(code[n])
    BY <2>1, <2>10, StatementFields
  <2>13. Ending(code)
    BY <2>8, <2>10, <2>11, <2>12 DEF Ending
  <2>. QED
    BY <2>1, <2>7, <2>13 DEF operator
<1>. QED
  BY <1>4, <1>5

LEMMA InitKept ==
  ASSUME Init, CopiesRun
  PROVE  CopiesInv
<1>1. PICK r : r = Programs[prog].roots
  OBVIOUS
<1>2. DOMAIN r \subseteq 1 .. PROCS /\ \A i \in DOMAIN r : Side(r[i]) \/ Coming(r[i])
  BY <1>1, StartCode DEF CopiesRun, Side
<1>3. PICK std : proc = [p \in 1 .. PROCS |->
                          IF p \in DOMAIN r THEN [NoProc EXCEPT !.st = "live", !.fd = std] ELSE NoProc]
  BY <1>1 DEF Init
<1>4. task = [t \in 1 .. TASKS |->
                IF t \in DOMAIN r THEN [NoTask EXCEPT !.st = "run", !.p = t, !.code = r[t]] ELSE NoTask]
  BY <1>1 DEF Init
<1>5. lock = {} /\ "daemon.pid" \in DOMAIN disk
  BY DEF Init, CopiesRun
<1>6. \A p \in 1 .. PROCS : /\ IsProc(proc[p]) /\ proc[p].act = <<>>
                            /\ p \in DOMAIN r => proc[p].st = "live"
  <2>. TAKE p \in 1 .. PROCS
  <2>1. CASE p \in DOMAIN r
    BY <1>3, <2>1 DEF NoProc, IsProc
  <2>2. CASE p \notin DOMAIN r
    BY <1>3, <2>2 DEF NoProc, IsProc
  <2>. QED
    BY <2>1, <2>2
<1>7. \A t \in 1 .. TASKS : /\ IsTask(task[t])
                            /\ task[t].st = "run" => t \in DOMAIN r /\ task[t].p = t /\ task[t].code = r[t]
  <2>. TAKE t \in 1 .. TASKS
  <2>1. CASE t \in DOMAIN r
    BY <1>4, <2>1 DEF NoTask, IsTask
  <2>2. CASE t \notin DOMAIN r
    BY <1>4, <2>2 DEF NoTask, IsTask
  <2>. QED
    BY <2>1, <2>2
<1>8. ProcsOK(proc)
  BY <1>3, <1>6 DEF ProcsOK
<1>9. TasksOK(task, proc)
  BY <1>2, <1>4, <1>6, <1>7 DEF TasksOK, IsUp
<1>10. LocksOK
  BY <1>5 DEF LocksOK
<1>11. OneMain
  BY <1>7 DEF OneMain, Running
<1>12. \A t \in 1 .. TASKS : Running(t) => CodeOK(task[t].code, task[t].p)
  BY <1>2, <1>7 DEF Running, CodeOK
<1>. QED
  BY <1>5, <1>8, <1>9, <1>10, <1>11, <1>12 DEF CopiesInv

\* However many copies of a daemon are started, at whatever times, and whatever
\* signals are sent to them: at most one of them gets past already_running and
\* works, and the process number in the lock file is the one it has after the
\* forks of daemonize.
THEOREM OneCopyWorks == Spec /\ CopiesRun => []OneDaemon
<1>1. Init /\ CopiesRun => CopiesInv
  BY InitKept
<1>2. CopiesInv /\ [Next]_vars => CopiesInv'
  BY NextKept
<1>3. CopiesInv => OneDaemon
  BY WorkerHasLock
<1>. QED
  BY <1>1, <1>2, <1>3, PTL DEF Spec
=============================================================================
