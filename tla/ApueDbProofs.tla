---------------------------- MODULE ApueDbProofs ----------------------------
(***************************************************************************)
(* Theorems about ApueDb, for any processes, keys, data and chains.  First *)
(* type correctness, with the lemmas on the operators of ApueDb that the   *)
(* other proofs cite; then the locks, and what follows from them for the   *)
(* two files; last the linked lists of the index file.                     *)
(***************************************************************************)
EXTENDS ApueDb, SequenceTheorems, FiniteSetTheorems, WellFoundedInduction, TLAPS

-----------------------------------------------------------------------------
\* Operators

\* The calls by operation: which fields hold what.
LEMMA CallFields ==
    ASSUME NEW c \in Abs!Calls
    PROVE  /\ c.op \in {"fetch", "delete", "store", "nextrec"}
           /\ c.op # "nextrec" => c.key \in Keys
           /\ c.op = "store" => c.data \in Data /\ c.flag \in Abs!Flags
           /\ c.op # "store" => c.flag = NONE
           /\ c.op = "nextrec" => c = Abs!NextrecCall
BY DEF Abs!Calls, Abs!FetchCall, Abs!DeleteCall, Abs!StoreCall, Abs!NextrecCall

\* What Put returns: a replacement or an append, and still a sequence.
LEMMA PutProperties ==
    ASSUME NEW S, NEW file \in Seq(S), NEW n \in Nat, NEW rec \in S
    PROVE  /\ Put(file, n, rec) \in Seq(S)
           /\ n \in DOMAIN file =>
                /\ Len(Put(file, n, rec)) = Len(file)
                /\ \A i \in DOMAIN file :
                      Put(file, n, rec)[i] = IF i = n THEN rec ELSE file[i]
           /\ n = Len(file) + 1 =>
                /\ Len(Put(file, n, rec)) = Len(file) + 1
                /\ \A i \in DOMAIN file : Put(file, n, rec)[i] = file[i]
                /\ Put(file, n, rec)[n] = rec
<1>0. DOMAIN file = 1 .. Len(file) /\ Len(file) \in Nat
  BY LenProperties
<1> DEFINE new == Put(file, n, rec)
<1>1. CASE n = Len(file) + 1
  <2>1. new = Append(file, rec) /\ n \notin DOMAIN file
    BY <1>0, <1>1 DEF Put
  <2> HIDE DEF new
  <2>2. /\ new \in Seq(S)
        /\ Len(new) = Len(file) + 1
        /\ \A i \in 1 .. Len(file) : new[i] = file[i]
        /\ new[Len(file) + 1] = rec
    BY <2>1, AppendProperties
  <2>3. QED BY <1>0, <1>1, <2>1, <2>2 DEF new
<1>2. CASE n \in 1 .. Len(file)
  <2>0. n # Len(file) + 1
    BY <1>0, <1>2
  <2>1. new = [file EXCEPT ![n] = rec]
    BY <2>0, Zenon DEF Put
  <2> HIDE DEF new
  <2>2. /\ new \in Seq(S)
        /\ Len(new) = Len(file)
        /\ \A i \in 1 .. Len(file) : new[i] = IF i = n THEN rec ELSE file[i]
    BY <1>2, <2>1, ExceptSeq
  <2>3. QED BY <1>0, <2>0, <2>1, <2>2 DEF new
<1>3. CASE n \notin 1 .. Len(file) + 1
  <2>1. n # Len(file) + 1 /\ n \notin DOMAIN file
    BY <1>0, <1>3
  <2>2. new = file
    BY <1>0, <2>1 DEF Put
  <2> HIDE DEF new
  <2>3. QED BY <2>1, <2>2 DEF new
<1>4. QED BY <1>0, <1>1, <1>2, <1>3

\* Rewriting the chain pointer of a record changes that field alone.
LEMMA WriteptrProperties ==
    ASSUME TypeOK, NEW off \in Cells, NEW v \in Nat, Writeptr(off, v)
    PROVE  /\ head' \in [Chains \cup {FREE_OFF} -> Nat]
           /\ idx' \in Seq(IdxRec)
           /\ Len(idx') = Len(idx)
           /\ \A n \in DOMAIN idx :
                idx'[n] = [idx[n] EXCEPT !.ptr = idx'[n].ptr]
<1>0. idx \in Seq(IdxRec) /\ DOMAIN idx = 1 .. Len(idx) /\ Len(idx) \in Nat
  BY LenProperties DEF TypeOK
<1>a. \A n \in 1 .. Len(idx) : idx[n] \in IdxRec
  BY <1>0, ElementOfSeq
<1>b. \A n \in DOMAIN idx : idx[n] = [idx[n] EXCEPT !.ptr = idx[n].ptr]
  BY <1>0, <1>a DEF IdxRec
<1>1. CASE off \notin Nat
  BY <1>0, <1>1, <1>b DEF TypeOK, Writeptr, Cells
<1>2. CASE off \in Nat
  <2>1. /\ idx' = [idx EXCEPT ![off].ptr = v]
        /\ head' = head
    BY <1>2 DEF Writeptr
  <2>2. CASE off \in 1 .. Len(idx)
    <3> DEFINE r == [idx[off] EXCEPT !.ptr = v]
    <3>1. r \in IdxRec /\ r = [idx[off] EXCEPT !.ptr = r.ptr]
      BY <1>a, <2>2 DEF IdxRec
    <3>2. idx' = [idx EXCEPT ![off] = r]
      BY <2>1
    <3> HIDE DEF r
    <3>3. /\ idx' \in Seq(IdxRec)
          /\ Len(idx') = Len(idx)
          /\ \A j \in 1 .. Len(idx) : idx'[j] = IF j = off THEN r ELSE idx[j]
      BY <1>0, <2>2, <3>1, <3>2, ExceptSeq
    <3> QED BY <1>0, <1>b, <2>1, <3>1, <3>3 DEF TypeOK, r
  <2>3. CASE off \notin 1 .. Len(idx)
    <3>1. idx' = idx
      BY <1>0, <2>1, <2>3
    <3> QED BY <1>0, <1>b, <2>1, <3>1 DEF TypeOK
  <2> QED BY <2>2, <2>3
<1> QED BY <1>1, <1>2

LEMMA ReadidxType ==
    ASSUME TypeOK, NEW p \in Procs, NEW off \in DOMAIN idx
    PROVE  /\ off \in Nat
           /\ idx[off] \in IdxRec
           /\ Readidx(p, off) \in Handle
<1>1. off \in Nat /\ idx[off] \in IdxRec
  BY LenProperties, ElementOfSeq DEF TypeOK
<1>2. db[p] \in Handle
  BY DEF TypeOK
<1> QED BY <1>1, <1>2 DEF Readidx, Handle, IdxRec

\* What TypeOK says of one process.
LEMMA ProcType ==
    ASSUME TypeOK, NEW p \in Procs
    PROVE  /\ db[p] \in Handle
           /\ call[p] \in Abs!Calls \cup {Abs!Idle}
           /\ ret[p] \in Answers
           /\ pc[p] \in Points
           /\ pos[p] \in Nat
BY DEF TypeOK

\* A process at one of these points is in a call on a key.
LEMMA KeyedCall ==
    ASSUME TypeOK, CallOK, NEW p \in Procs, pc[p] \in KeyPoints
    PROVE  /\ call[p] \in Abs!Calls
           /\ call[p].key \in Keys
           /\ ChainOff(p) \in Chains
           /\ head[ChainOff(p)] \in Nat
           /\ Readptr(ChainOff(p)) \in Nat
<1>1. call[p].op \in {"fetch", "delete", "store"}
  BY DEF CallOK
<1>2. call[p] # Abs!Idle
  BY <1>1 DEF Abs!Idle
<1>3. call[p] \in Abs!Calls
  BY <1>2, ProcType
<1>4. call[p].key \in Keys
  BY <1>1, <1>3, CallFields
<1>5. ChainOff(p) \in Chains
  BY <1>4, ConstantsAssumption DEF ChainOff
<1>6. ChainOff(p) \notin Nat
  BY <1>5, ConstantsAssumption
<1>7. head[ChainOff(p)] \in Nat
  BY <1>5 DEF TypeOK
<1> QED BY <1>3, <1>4, <1>5, <1>6, <1>7 DEF Readptr

LEMMA FreeHeadType ==
    ASSUME TypeOK
    PROVE  FREE_OFF \notin Nat /\ Readptr(FREE_OFF) \in Nat
BY ConstantsAssumption DEF TypeOK, Readptr


LEMMA StoreCallData ==
    ASSUME TypeOK, CallOK, NEW p \in Procs, pc[p] \in StoreOnlyPoints
    PROVE  /\ call[p].op = "store"
           /\ call[p].key \in Keys /\ KeyLen[call[p].key] \in Nat
           /\ call[p].data \in Data /\ DatLen[call[p].data] \in Nat
<1>1. call[p].op = "store"
  BY DEF CallOK
<1>2. pc[p] \in KeyPoints
  BY DEF KeyPoints
<1>3. call[p] \in Abs!Calls
  BY <1>2, KeyedCall
<1>4. call[p].key \in Keys /\ call[p].data \in Data
  BY <1>1, <1>3, CallFields
<1> QED BY <1>1, <1>4, ConstantsAssumption

\* The fields a step of a call writes keep the type of a handle.
LEMMA HandleOffset ==
    ASSUME NEW h \in Handle, NEW o \in Cells, NEW n \in Nat
    PROVE  /\ [h EXCEPT !.ptroff = o, !.cur = n] \in Handle
           /\ [h EXCEPT !.saveoffset = o, !.cur = n] \in Handle
<1>1. [h EXCEPT !.ptroff = o, !.cur = n] \in Handle
  BY DEF Handle
<1>2. [h EXCEPT !.saveoffset = o, !.cur = n] \in Handle
  BY DEF Handle
<1>. QED
  BY <1>1, <1>2

LEMMA HandleFields ==
    ASSUME NEW h \in Handle, NEW m \in Nat, NEW n \in Nat
    PROVE  /\ [h EXCEPT !.freeptr = m, !.saveptr = n] \in Handle
           /\ [h EXCEPT !.datoff = m, !.datlen = n] \in Handle
           /\ [h EXCEPT !.idxoff = m, !.ptrval = n] \in Handle
<1>1. [h EXCEPT !.freeptr = m, !.saveptr = n] \in Handle
  BY DEF Handle
<1>2. [h EXCEPT !.datoff = m, !.datlen = n] \in Handle
  BY DEF Handle
<1>3. [h EXCEPT !.idxoff = m, !.ptrval = n] \in Handle
  BY DEF Handle
<1>. QED
  BY <1>1, <1>2, <1>3

LEMMA HandlesType ==
    ASSUME TypeOK, NEW p \in Procs, NEW h \in Handle, Handles(p, h)
    PROVE  db' \in [Procs -> Handle]
BY DEF TypeOK, Handles

LEMMA AtType ==
    ASSUME TypeOK, NEW p \in Procs, NEW n \in Nat, At(p, n)
    PROVE  pos' \in [Procs -> Nat]
BY DEF TypeOK, At

\* The type of what the steps of a call write: one lemma for the steps that
\* take or drop a lock, which change nothing else.
LEMMA LockStepType ==
    ASSUME TypeOK, NEW p \in Procs, NEW from, NEW to \in Points,
           NEW r \in Regions, NEW t \in {"read", "write"},
           Lock(p, from, r, t, to) \/ Unlock(p, from, r, to)
    PROVE  TypeOK'
<1> DEFINE Types == {"none", "read", "write"}
<1>1. lock' \in [Procs -> [Regions -> Types]]
  <2>1. PICK u \in Types : lock' = [lock EXCEPT ![p][r] = u]
    BY DEF Lock, Unlock, Acquire, Release
  <2>2. lock[p] \in [Regions -> Types]
    BY DEF TypeOK
  <2>3. [lock[p] EXCEPT ![r] = u] \in [Regions -> Types]
    BY <2>2
  <2>4. lock' = [lock EXCEPT ![p] = [lock[p] EXCEPT ![r] = u]]
    BY <2>1
  <2> QED BY <2>3, <2>4 DEF TypeOK
<1>2. pc' \in [Procs -> Points]
  BY DEF TypeOK, Lock, Unlock, Step
<1> QED BY <1>1, <1>2 DEF TypeOK, Lock, Unlock, Step, files, hist

LEMMA ReturnType ==
    ASSUME TypeOK, CallOK, NEW p \in Procs, NEW from, NEW r \in Regions,
           Return(p, from, r)
    PROVE  TypeOK' /\ CallOK'
<1> DEFINE Types == {"none", "read", "write"}
<1>1. lock' \in [Procs -> [Regions -> Types]]
  <2>1. lock[p] \in [Regions -> Types]
    BY DEF TypeOK
  <2>2. [lock[p] EXCEPT ![r] = "none"] \in [Regions -> Types]
    BY <2>1
  <2>3. lock' = [lock EXCEPT ![p] = [lock[p] EXCEPT ![r] = "none"]]
    BY DEF Return, Release
  <2> QED BY <2>2, <2>3 DEF TypeOK
<1>2. Abs!Pending \in Answers
  BY DEF Abs!Pending, Abs!Result, Answers
<1>3. ret' \in [Procs -> Answers]
  BY <1>2 DEF Return, TypeOK
<1>4. TypeOK'
  BY <1>1, <1>3 DEF Return, TypeOK, Points, files, proc
<1>5. CallOK'
  BY DEF Return, TypeOK, CallOK, ScanPoints, KeyPoints, StoreOnlyPoints, FindPoints,
         DeletePoints, FreePoints, AppendPoints, StorePoints
<1> QED BY <1>4, <1>5

LEMMA StepCallOK ==
    ASSUME CallOK, NEW p \in Procs, NEW from, NEW to, Step(p, from, to),
           from # "idle", to # "idle",
           to \in ScanPoints => from \in ScanPoints,
           to \in KeyPoints => from \in KeyPoints,
           to \in DeletePoints => call[p].op \in {"delete", "store"},
           to \in StoreOnlyPoints => call[p].op = "store"
    PROVE  CallOK'
BY DEF CallOK, Step
\* The steps of a call, by function of db.c: each keeps TypeOK and CallOK.

LEMMA FindType ==
    ASSUME TypeOK, CallOK, NEW p \in Procs, FindStep(p)
    PROVE  TypeOK' /\ CallOK'
<1> USE DEF Points, FindPoints, DeletePoints, FreePoints, AppendPoints,
         StorePoints, ScanPoints, Ended, Killed, KeyPoints, StoreOnlyPoints
<1>1. CASE LockChain(p)
  <2>1. ChainOff(p) \in Regions
    BY <1>1, KeyedCall DEF LockChain, Lock, Unlock, Step, Regions
  <2>2. TypeOK'
    BY <1>1, <2>1, LockStepType DEF LockChain
  <2>3. CallOK'
    BY <1>1, <2>1, StepCallOK DEF LockChain, Lock, Unlock
  <2> QED BY <2>2, <2>3
<1>2. CASE ReadChain(p)
  <2>1. /\ call[p] \in Abs!Calls /\ call[p].key \in Keys
        /\ ChainOff(p) \in Chains /\ Readptr(ChainOff(p)) \in Nat
    BY <1>2, KeyedCall DEF ReadChain, Step
  <2>2. [db[p] EXCEPT !.ptroff = ChainOff(p), !.cur = Readptr(ChainOff(p))] \in Handle
    BY <2>1, ProcType, HandleOffset DEF Cells
  <2>3. db' \in [Procs -> Handle]
    BY <1>2, <2>2, HandlesType DEF ReadChain
  <2>4. pos' \in [Procs -> Nat]
    BY <1>2, AtType DEF ReadChain
  <2>5. TypeOK'
    BY <1>2, <2>3, <2>4 DEF ReadChain, TypeOK, Step, files, hist
  <2>6. CallOK'
    BY <1>2, StepCallOK DEF ReadChain
  <2> QED BY <2>5, <2>6
<1>3. CASE WalkOn(p)
  <2>1. db[p].cur \in Nat /\ idx[db[p].cur] \in IdxRec /\ Readidx(p, db[p].cur) \in Handle
    BY <1>3, ReadidxType DEF WalkOn
  <2>2. [Readidx(p, db[p].cur) EXCEPT !.ptroff = db[p].cur,
                                       !.cur = idx[db[p].cur].ptr] \in Handle
    BY <1>3, <2>1, ProcType DEF WalkOn, Handle, Cells, IdxRec
  <2>3. db' \in [Procs -> Handle]
    BY <1>3, <2>2, HandlesType DEF WalkOn
  <2>4. pos' \in [Procs -> Nat]
    BY <1>3, <2>1, AtType DEF WalkOn
  <2>5. TypeOK'
    BY <1>3, <2>3, <2>4 DEF WalkOn, TypeOK, Step, files, hist
  <2>6. CallOK'
    BY <1>3, StepCallOK DEF WalkOn
  <2> QED BY <2>5, <2>6
<1>4. CASE Found(p)
  <2>1. db[p].cur \in Nat /\ idx[db[p].cur] \in IdxRec /\ Readidx(p, db[p].cur) \in Handle
    BY <1>4, ReadidxType DEF Found
  <2>2. /\ call[p] \in Abs!Calls /\ call[p].key \in Keys
        /\ ChainOff(p) \in Chains /\ Readptr(ChainOff(p)) \in Nat
    BY <1>4, KeyedCall DEF Found, Step
  <2>3. db' \in [Procs -> Handle]
    BY <1>4, <2>1, HandlesType DEF Found
  <2>4. pos' \in [Procs -> Nat]
    BY <1>4, <2>1, AtType DEF Found
  <2>5. Abs!Result(1, call[p].key, NONE) \in Answers
    BY <1>4, <2>2 DEF Found, Abs!Result, Answers
  <2>6. ret' \in [Procs -> Answers]
    BY <1>4, <2>5 DEF Found, Answer, TypeOK
  <2>7. call[p].op \in {"fetch", "delete", "store"}
    BY <1>4 DEF Found, Step, CallOK
  <2>8. AfterFound(call[p], idx[db[p].cur].datlen) \in
        {"readdat", "unlock_chain"}
        \cup (IF call[p].op = "fetch" THEN {} ELSE {"del_lock"})
        \cup (IF call[p].op = "store" THEN {"overwrite"} ELSE {})
    BY <1>4, <2>7 DEF Found, AfterFound
  <2>9. pc' \in [Procs -> Points]
    BY <1>4, <2>8 DEF Found, Step, TypeOK
  <2>10. TypeOK'
    BY <1>4, <2>3, <2>4, <2>6, <2>9 DEF Found, TypeOK, Step, files, hist
  <2>11. CallOK'
    BY <1>4, <2>7, <2>8, StepCallOK DEF Found
  <2> QED BY <2>10, <2>11
<1>5. CASE NotFound(p)
  <2>1. /\ call[p] \in Abs!Calls /\ call[p].key \in Keys
        /\ ChainOff(p) \in Chains /\ Readptr(ChainOff(p)) \in Nat
    BY <1>5, KeyedCall DEF NotFound, Step
  <2>2. Abs!Result(-1, call[p].key, NONE) \in Answers
    BY <1>5, <2>1 DEF NotFound, Abs!Result, Answers
  <2>3. ret' \in [Procs -> Answers]
    BY <1>5, <2>2 DEF NotFound, Answer, TypeOK
  <2>4. call[p].flag \in {"DB_INSERT", "DB_STORE"} => call[p].op = "store"
    BY <1>5, <2>1, CallFields, ConstantsAssumption DEF NotFound, Abs!Flags
  <2>5. TypeOK'
    BY <1>5, <2>3 DEF NotFound, TypeOK, Step, files, hist
  <2>6. CallOK'
    BY <1>5, <2>4, StepCallOK DEF NotFound
  <2> QED BY <2>5, <2>6
<1>6. CASE FetchData(p)
  <2>1. /\ call[p] \in Abs!Calls /\ call[p].key \in Keys
        /\ ChainOff(p) \in Chains /\ Readptr(ChainOff(p)) \in Nat
    BY <1>6, KeyedCall DEF FetchData, Step
  <2>2. dat[db[p].datoff] \in DatRec
    BY <1>6, LenProperties, ElementOfSeq DEF FetchData, DataReadable, TypeOK
  <2>3. Abs!Result(0, call[p].key, dat[db[p].datoff].data) \in Answers
    BY <1>6, <2>1, <2>2 DEF FetchData, Abs!Result, Answers, DatRec
  <2>4. ret' \in [Procs -> Answers]
    BY <1>6, <2>3 DEF FetchData, Answer, TypeOK
  <2>5. TypeOK'
    BY <1>6, <2>4 DEF FetchData, TypeOK, Step, files, hist
  <2>6. CallOK'
    BY <1>6, StepCallOK DEF FetchData
  <2> QED BY <2>5, <2>6
<1>7. CASE UnlockChain(p)
  <2>1. ChainOff(p) \in Regions
    BY <1>7, KeyedCall DEF UnlockChain, Return, Regions
  <2> QED BY <1>7, <2>1, ReturnType DEF UnlockChain
<1> QED BY <1>1, <1>2, <1>3, <1>4, <1>5, <1>6, <1>7 DEF FindStep

LEMMA DeleteType ==
    ASSUME TypeOK, CallOK, NEW p \in Procs, DeleteStep(p)
    PROVE  TypeOK' /\ CallOK'
<1> USE DEF Points, FindPoints, DeletePoints, FreePoints, AppendPoints,
         StorePoints, ScanPoints, Ended, Killed, KeyPoints, StoreOnlyPoints
<1>1. CASE DelLock(p)
  <2>1. FREE_OFF \in Regions /\ call[p].op \in {"delete", "store"}
    BY <1>1 DEF DelLock, Lock, Unlock, Step, Regions, CallOK
  <2>2. TypeOK'
    BY <1>1, <2>1, LockStepType DEF DelLock
  <2>3. CallOK'
    BY <1>1, <2>1, StepCallOK DEF DelLock, Lock, Unlock
  <2> QED BY <2>2, <2>3
<1>2. CASE DelWritedat(p)
  <2>1. call[p].op \in {"delete", "store"}
    BY <1>2 DEF DelWritedat, Step, CallOK
  <2>2. [len |-> db[p].datlen, data |-> BLANK] \in DatRec /\ db[p].datoff \in Nat
    BY <1>2, ProcType DEF DelWritedat, DatRec, Handle, NewIdx
  <2>3. dat' \in Seq(DatRec)
    BY <1>2, <2>2, PutProperties DEF DelWritedat, TypeOK
  <2>4. TypeOK'
    BY <1>2, <2>3 DEF DelWritedat, TypeOK, Step, files, hist
  <2>5. CallOK'
    BY <1>2, <2>1, StepCallOK DEF DelWritedat
  <2> QED BY <2>4, <2>5
<1>3. CASE DelReadfree(p)
  <2>1. call[p].op \in {"delete", "store"}
    BY <1>3 DEF DelReadfree, Step, CallOK
  <2>2. Readptr(FREE_OFF) \in Nat
    BY <1>3, FreeHeadType DEF DelReadfree
  <2>3. [db[p] EXCEPT !.freeptr = Readptr(FREE_OFF), !.saveptr = db[p].ptrval] \in Handle
    <3>1. db[p] \in Handle /\ db[p].ptrval \in Nat
      BY ProcType DEF Handle
    <3>. QED
      BY <2>2, <3>1, HandleFields
  <2>4. db' \in [Procs -> Handle]
    BY <1>3, <2>3, HandlesType DEF DelReadfree
  <2>5. pos' \in [Procs -> Nat]
    BY <1>3, AtType DEF DelReadfree
  <2>6. TypeOK'
    BY <1>3, <2>4, <2>5 DEF DelReadfree, TypeOK, Step, files, hist
  <2>7. CallOK'
    BY <1>3, <2>1, StepCallOK DEF DelReadfree
  <2> QED BY <2>6, <2>7
<1>4. CASE DelWriteidx(p)
  <2>1. call[p].op \in {"delete", "store"}
    BY <1>4 DEF DelWriteidx, Step, CallOK
  <2>2. /\ call[p] \in Abs!Calls /\ call[p].key \in Keys
        /\ ChainOff(p) \in Chains /\ Readptr(ChainOff(p)) \in Nat
    BY <1>4, KeyedCall DEF DelWriteidx, Step
  <2>3. [ptr |-> db[p].freeptr, key |-> BLANK, keylen |-> db[p].keylen,
         datoff |-> db[p].datoff, datlen |-> db[p].datlen] \in IdxRec /\ db[p].idxoff \in Nat
    BY <1>4, ProcType DEF DelWriteidx, IdxRec, Handle, NewIdx
  <2>4. idx' \in Seq(IdxRec)
    BY <1>4, <2>3, PutProperties DEF DelWriteidx, TypeOK
  <2>5. [db[p] EXCEPT !.ptrval = db[p].freeptr] \in Handle
    BY <1>4, ProcType DEF DelWriteidx, Handle, Cells, IdxRec
  <2>6. db' \in [Procs -> Handle]
    BY <1>4, <2>5, HandlesType DEF DelWriteidx
  <2>7. pos' \in [Procs -> Nat]
    BY <1>4, <2>3, AtType DEF DelWriteidx
  <2>8. Abs!Result(0, call[p].key, NONE) \in Answers
    BY <1>4, <2>2 DEF DelWriteidx, Abs!Result, Answers
  <2>9. ret' \in [Procs -> Answers] /\ store' \in [Keys -> Data \cup {NONE}]
    BY <1>4, <2>8 DEF DelWriteidx, Answer, TypeOK, hist
  <2>10. TypeOK'
    BY <1>4, <2>4, <2>6, <2>7, <2>9 DEF DelWriteidx, TypeOK, Step, files, hist
  <2>11. CallOK'
    BY <1>4, <2>1, StepCallOK DEF DelWriteidx
  <2> QED BY <2>10, <2>11
<1>5. CASE DelSetfree(p)
  <2>1. call[p].op \in {"delete", "store"}
    BY <1>5 DEF DelSetfree, Step, CallOK
  <2>2. FREE_OFF \in Cells /\ db[p].idxoff \in Nat
    BY <1>5, ProcType, KeyedCall DEF DelSetfree, Step, Cells, Handle
  <2>3. head' \in [Chains \cup {FREE_OFF} -> Nat] /\ idx' \in Seq(IdxRec)
    BY <1>5, <2>2, WriteptrProperties DEF DelSetfree
  <2>4. pos' \in [Procs -> Nat]
    BY <1>5, AtType DEF DelSetfree
  <2>5. TypeOK'
    BY <1>5, <2>3, <2>4 DEF DelSetfree, TypeOK, Step, files, hist
  <2>6. CallOK'
    BY <1>5, <2>1, StepCallOK DEF DelSetfree
  <2> QED BY <2>5, <2>6
<1>6. CASE DelUnlink(p)
  <2>1. call[p].op \in {"delete", "store"}
    BY <1>6 DEF DelUnlink, Step, CallOK
  <2>2. db[p].ptroff \in Cells /\ db[p].saveptr \in Nat
    BY <1>6, ProcType, KeyedCall DEF DelUnlink, Step, Cells, Handle
  <2>3. head' \in [Chains \cup {FREE_OFF} -> Nat] /\ idx' \in Seq(IdxRec)
    BY <1>6, <2>2, WriteptrProperties DEF DelUnlink
  <2>4. pos' \in [Procs -> Nat]
    BY <1>6, AtType DEF DelUnlink
  <2>5. TypeOK'
    BY <1>6, <2>3, <2>4 DEF DelUnlink, TypeOK, Step, files, hist
  <2>6. CallOK'
    BY <1>6, <2>1, StepCallOK DEF DelUnlink
  <2> QED BY <2>5, <2>6
<1>7. CASE DelUnlock(p)
  <2>1. FREE_OFF \in Regions /\ call[p].op \in {"delete", "store"}
    BY <1>7 DEF DelUnlock, Lock, Unlock, Step, Regions, CallOK
  <2>2. TypeOK'
    BY <1>7, <2>1, LockStepType DEF DelUnlock
  <2>3. CallOK'
    BY <1>7, <2>1, StepCallOK DEF DelUnlock, Lock, Unlock
  <2> QED BY <2>2, <2>3
<1> QED BY <1>1, <1>2, <1>3, <1>4, <1>5, <1>6, <1>7 DEF DeleteStep

LEMMA FreeType ==
    ASSUME TypeOK, CallOK, NEW p \in Procs, FreeStep(p)
    PROVE  TypeOK' /\ CallOK'
<1> USE DEF Points, FindPoints, DeletePoints, FreePoints, AppendPoints,
         StorePoints, ScanPoints, Ended, Killed, KeyPoints, StoreOnlyPoints
<1>1. CASE FreeLock(p)
  <2>1. FREE_OFF \in Regions /\ call[p].op = "store"
    BY <1>1 DEF FreeLock, Lock, Unlock, Step, Regions, CallOK
  <2>2. TypeOK'
    BY <1>1, <2>1, LockStepType DEF FreeLock
  <2>3. CallOK'
    BY <1>1, <2>1, StepCallOK DEF FreeLock, Lock, Unlock
  <2> QED BY <2>2, <2>3
<1>2. CASE FreeRead(p)
  <2>1. /\ call[p].op = "store" /\ call[p].key \in Keys /\ KeyLen[call[p].key] \in Nat
        /\ call[p].data \in Data /\ DatLen[call[p].data] \in Nat
    BY <1>2, StoreCallData DEF FreeRead, Step
  <2>2. Readptr(FREE_OFF) \in Nat
    BY <1>2, FreeHeadType DEF FreeRead
  <2>3. [db[p] EXCEPT !.saveoffset = FREE_OFF, !.cur = Readptr(FREE_OFF)] \in Handle
    BY <2>2, ProcType, HandleOffset DEF Cells
  <2>4. db' \in [Procs -> Handle]
    BY <1>2, <2>3, HandlesType DEF FreeRead
  <2>5. pos' \in [Procs -> Nat]
    BY <1>2, AtType DEF FreeRead
  <2>6. TypeOK'
    BY <1>2, <2>4, <2>5 DEF FreeRead, TypeOK, Step, files, hist
  <2>7. CallOK'
    BY <1>2, <2>1, StepCallOK DEF FreeRead
  <2> QED BY <2>6, <2>7
<1>3. CASE FreeWalkOn(p)
  <2>1. /\ call[p].op = "store" /\ call[p].key \in Keys /\ KeyLen[call[p].key] \in Nat
        /\ call[p].data \in Data /\ DatLen[call[p].data] \in Nat
    BY <1>3, StoreCallData DEF FreeWalkOn, Step
  <2>2. db[p].cur \in Nat /\ idx[db[p].cur] \in IdxRec /\ Readidx(p, db[p].cur) \in Handle
    BY <1>3, ReadidxType DEF FreeWalkOn
  <2>3. [Readidx(p, db[p].cur) EXCEPT !.saveoffset = db[p].cur,
                                       !.cur = idx[db[p].cur].ptr] \in Handle
    BY <1>3, <2>2, ProcType DEF FreeWalkOn, Handle, Cells, IdxRec
  <2>4. db' \in [Procs -> Handle]
    BY <1>3, <2>3, HandlesType DEF FreeWalkOn
  <2>5. pos' \in [Procs -> Nat]
    BY <1>3, <2>2, AtType DEF FreeWalkOn
  <2>6. TypeOK'
    BY <1>3, <2>4, <2>5 DEF FreeWalkOn, TypeOK, Step, files, hist
  <2>7. CallOK'
    BY <1>3, <2>1, StepCallOK DEF FreeWalkOn
  <2> QED BY <2>6, <2>7
<1>4. CASE FreeFound(p)
  <2>1. /\ call[p].op = "store" /\ call[p].key \in Keys /\ KeyLen[call[p].key] \in Nat
        /\ call[p].data \in Data /\ DatLen[call[p].data] \in Nat
    BY <1>4, StoreCallData DEF FreeFound, Step
  <2>2. db[p].cur \in Nat /\ idx[db[p].cur] \in IdxRec /\ Readidx(p, db[p].cur) \in Handle
    BY <1>4, ReadidxType DEF FreeFound
  <2>3. db' \in [Procs -> Handle]
    BY <1>4, <2>2, HandlesType DEF FreeFound
  <2>4. pos' \in [Procs -> Nat]
    BY <1>4, <2>2, AtType DEF FreeFound
  <2>5. TypeOK'
    BY <1>4, <2>3, <2>4 DEF FreeFound, TypeOK, Step, files, hist
  <2>6. CallOK'
    BY <1>4, <2>1, StepCallOK DEF FreeFound
  <2> QED BY <2>5, <2>6
<1>5. CASE FreeNone(p)
  <2>1. /\ call[p].op = "store" /\ call[p].key \in Keys /\ KeyLen[call[p].key] \in Nat
        /\ call[p].data \in Data /\ DatLen[call[p].data] \in Nat
    BY <1>5, StoreCallData DEF FreeNone, Step
  <2>2. TypeOK'
    BY <1>5 DEF FreeNone, TypeOK, Step, files, hist
  <2>3. CallOK'
    BY <1>5, <2>1, StepCallOK DEF FreeNone
  <2> QED BY <2>2, <2>3
<1>6. CASE FreeUnlink(p)
  <2>1. /\ call[p].op = "store" /\ call[p].key \in Keys /\ KeyLen[call[p].key] \in Nat
        /\ call[p].data \in Data /\ DatLen[call[p].data] \in Nat
    BY <1>6, StoreCallData DEF FreeUnlink, Step
  <2>2. db[p].saveoffset \in Cells /\ db[p].ptrval \in Nat
    BY <1>6, ProcType, KeyedCall DEF FreeUnlink, Step, Cells, Handle
  <2>3. head' \in [Chains \cup {FREE_OFF} -> Nat] /\ idx' \in Seq(IdxRec)
    BY <1>6, <2>2, WriteptrProperties DEF FreeUnlink
  <2>4. pos' \in [Procs -> Nat]
    BY <1>6, AtType DEF FreeUnlink
  <2>5. TypeOK'
    BY <1>6, <2>3, <2>4 DEF FreeUnlink, TypeOK, Step, files, hist
  <2>6. CallOK'
    BY <1>6, <2>1, StepCallOK DEF FreeUnlink
  <2> QED BY <2>5, <2>6
<1>7. CASE FreeUnlock(p)
  <2>1. FREE_OFF \in Regions /\ call[p].op = "store"
    BY <1>7 DEF FreeUnlock, Lock, Unlock, Step, Regions, CallOK
  <2>2. TypeOK'
    BY <1>7, <2>1, LockStepType DEF FreeUnlock
  <2>3. CallOK'
    BY <1>7, <2>1, StepCallOK DEF FreeUnlock, Lock, Unlock
  <2> QED BY <2>2, <2>3
<1> QED BY <1>1, <1>2, <1>3, <1>4, <1>5, <1>6, <1>7 DEF FreeStep

LEMMA AppendType ==
    ASSUME TypeOK, CallOK, NEW p \in Procs, AppendStep(p)
    PROVE  TypeOK' /\ CallOK'
<1> USE DEF Points, FindPoints, DeletePoints, FreePoints, AppendPoints,
         StorePoints, ScanPoints, Ended, Killed, KeyPoints, StoreOnlyPoints
<1>1. CASE DatLock(p)
  <2>1. DAT_ALL \in Regions /\ call[p].op = "store"
    BY <1>1 DEF DatLock, Lock, Unlock, Step, Regions, CallOK
  <2>2. TypeOK'
    BY <1>1, <2>1, LockStepType DEF DatLock
  <2>3. CallOK'
    BY <1>1, <2>1, StepCallOK DEF DatLock, Lock, Unlock
  <2> QED BY <2>2, <2>3
<1>2. CASE DatSeek(p)
  <2>1. /\ call[p].op = "store" /\ call[p].key \in Keys /\ KeyLen[call[p].key] \in Nat
        /\ call[p].data \in Data /\ DatLen[call[p].data] \in Nat
    BY <1>2, StoreCallData DEF DatSeek, Step
  <2>2. Len(dat) + 1 \in Nat
    BY <1>2, LenProperties DEF DatSeek, TypeOK
  <2>3. [db[p] EXCEPT !.datoff = Len(dat) + 1, !.datlen = DatLen[call[p].data]] \in Handle
    BY <2>1, <2>2, ProcType, HandleFields
  <2>4. db' \in [Procs -> Handle]
    BY <1>2, <2>3, HandlesType DEF DatSeek
  <2>5. TypeOK'
    BY <1>2, <2>4 DEF DatSeek, TypeOK, Step, files, hist
  <2>6. CallOK'
    BY <1>2, <2>1, StepCallOK DEF DatSeek
  <2> QED BY <2>5, <2>6
<1>3. CASE DatAppend(p)
  <2>1. /\ call[p].op = "store" /\ call[p].key \in Keys /\ KeyLen[call[p].key] \in Nat
        /\ call[p].data \in Data /\ DatLen[call[p].data] \in Nat
    BY <1>3, StoreCallData DEF DatAppend, Step
  <2>2. [len |-> db[p].datlen, data |-> call[p].data] \in DatRec /\ db[p].datoff \in Nat
    BY <1>3, <2>1, ProcType DEF DatAppend, DatRec, Handle, NewIdx
  <2>3. dat' \in Seq(DatRec)
    BY <1>3, <2>2, PutProperties DEF DatAppend, TypeOK
  <2>4. TypeOK'
    BY <1>3, <2>3 DEF DatAppend, TypeOK, Step, files, hist
  <2>5. CallOK'
    BY <1>3, <2>1, StepCallOK DEF DatAppend
  <2> QED BY <2>4, <2>5
<1>4. CASE DatUnlock(p)
  <2>1. DAT_ALL \in Regions /\ call[p].op = "store"
    BY <1>4 DEF DatUnlock, Lock, Unlock, Step, Regions, CallOK
  <2>2. TypeOK'
    BY <1>4, <2>1, LockStepType DEF DatUnlock
  <2>3. CallOK'
    BY <1>4, <2>1, StepCallOK DEF DatUnlock, Lock, Unlock
  <2> QED BY <2>2, <2>3
<1>5. CASE IdxLock(p)
  <2>1. IDX_END \in Regions /\ call[p].op = "store"
    BY <1>5 DEF IdxLock, Lock, Unlock, Step, Regions, CallOK
  <2>2. TypeOK'
    BY <1>5, <2>1, LockStepType DEF IdxLock
  <2>3. CallOK'
    BY <1>5, <2>1, StepCallOK DEF IdxLock, Lock, Unlock
  <2> QED BY <2>2, <2>3
<1>6. CASE IdxSeek(p)
  <2>1. /\ call[p].op = "store" /\ call[p].key \in Keys /\ KeyLen[call[p].key] \in Nat
        /\ call[p].data \in Data /\ DatLen[call[p].data] \in Nat
    BY <1>6, StoreCallData DEF IdxSeek, Step
  <2>2. Len(idx) + 1 \in Nat
    BY <1>6, LenProperties DEF IdxSeek, TypeOK
  <2>3. [db[p] EXCEPT !.idxoff = Len(idx) + 1, !.ptrval = db[p].chainptr] \in Handle
    <3>1. db[p] \in Handle /\ db[p].chainptr \in Nat
      BY ProcType DEF Handle
    <3>. QED
      BY <2>2, <3>1, HandleFields
  <2>4. db' \in [Procs -> Handle]
    BY <1>6, <2>3, HandlesType DEF IdxSeek
  <2>5. pos' \in [Procs -> Nat]
    BY <1>6, <2>2, AtType DEF IdxSeek
  <2>6. TypeOK'
    BY <1>6, <2>4, <2>5 DEF IdxSeek, TypeOK, Step, files, hist
  <2>7. CallOK'
    BY <1>6, <2>1, StepCallOK DEF IdxSeek
  <2> QED BY <2>6, <2>7
<1>7. CASE IdxAppend(p)
  <2>1. /\ call[p].op = "store" /\ call[p].key \in Keys /\ KeyLen[call[p].key] \in Nat
        /\ call[p].data \in Data /\ DatLen[call[p].data] \in Nat
    BY <1>7, StoreCallData DEF IdxAppend, Step
  <2>2. NewIdx(p) \in IdxRec /\ db[p].idxoff \in Nat
    BY <1>7, <2>1, ProcType DEF IdxAppend, IdxRec, Handle, NewIdx
  <2>3. idx' \in Seq(IdxRec)
    BY <1>7, <2>2, PutProperties DEF IdxAppend, TypeOK
  <2>4. pos' \in [Procs -> Nat]
    BY <1>7, <2>2, AtType DEF IdxAppend
  <2>5. Abs!Result(0, call[p].key, NONE) \in Answers
    BY <1>7, <2>1 DEF IdxAppend, Abs!Result, Answers
  <2>6. ret' \in [Procs -> Answers] /\ store' \in [Keys -> Data \cup {NONE}]
    BY <1>7, <2>1, <2>5 DEF IdxAppend, Stored, Answer, TypeOK
  <2>7. TypeOK'
    BY <1>7, <2>3, <2>4, <2>6 DEF IdxAppend, TypeOK, Step, files, hist
  <2>8. CallOK'
    BY <1>7, <2>1, StepCallOK DEF IdxAppend
  <2> QED BY <2>7, <2>8
<1>8. CASE IdxUnlock(p)
  <2>1. IDX_END \in Regions /\ call[p].op = "store"
    BY <1>8 DEF IdxUnlock, Lock, Unlock, Step, Regions, CallOK
  <2>2. TypeOK'
    BY <1>8, <2>1, LockStepType DEF IdxUnlock
  <2>3. CallOK'
    BY <1>8, <2>1, StepCallOK DEF IdxUnlock, Lock, Unlock
  <2> QED BY <2>2, <2>3
<1> QED BY <1>1, <1>2, <1>3, <1>4, <1>5, <1>6, <1>7, <1>8 DEF AppendStep

LEMMA StoreType ==
    ASSUME TypeOK, CallOK, NEW p \in Procs, StoreStep(p)
    PROVE  TypeOK' /\ CallOK'
<1> USE DEF Points, FindPoints, DeletePoints, FreePoints, AppendPoints,
         StorePoints, ScanPoints, Ended, Killed, KeyPoints, StoreOnlyPoints
<1>1. CASE ReadHead(p)
  <2>1. /\ call[p].op = "store" /\ call[p].key \in Keys /\ KeyLen[call[p].key] \in Nat
        /\ call[p].data \in Data /\ DatLen[call[p].data] \in Nat
    BY <1>1, StoreCallData DEF ReadHead, Step
  <2>2. Readptr(ChainOff(p)) \in Nat
    BY <1>1, KeyedCall DEF ReadHead, Step
  <2>3. [db[p] EXCEPT !.chainptr = Readptr(ChainOff(p))] \in Handle
    BY <1>1, <2>2, ProcType DEF ReadHead, Handle, Cells, IdxRec
  <2>4. db' \in [Procs -> Handle]
    BY <1>1, <2>3, HandlesType DEF ReadHead
  <2>5. pos' \in [Procs -> Nat]
    BY <1>1, AtType DEF ReadHead
  <2>6. TypeOK'
    BY <1>1, <2>4, <2>5 DEF ReadHead, TypeOK, Step, files, hist
  <2>7. CallOK'
    BY <1>1, <2>1, StepCallOK DEF ReadHead
  <2> QED BY <2>6, <2>7
<1>2. CASE ReuseWritedat(p)
  <2>1. /\ call[p].op = "store" /\ call[p].key \in Keys /\ KeyLen[call[p].key] \in Nat
        /\ call[p].data \in Data /\ DatLen[call[p].data] \in Nat
    BY <1>2, StoreCallData DEF ReuseWritedat, Step
  <2>2. [len |-> DatLen[call[p].data], data |-> call[p].data] \in DatRec
        /\ db[p].datoff \in Nat
    BY <1>2, <2>1, ProcType DEF ReuseWritedat, DatRec, Handle
  <2>3. dat' \in Seq(DatRec)
    BY <1>2, <2>2, PutProperties DEF ReuseWritedat, WritedatAt, TypeOK
  <2>4. [db[p] EXCEPT !.datlen = DatLen[call[p].data]] \in Handle
    BY <1>2, <2>1, ProcType DEF ReuseWritedat, Handle
  <2>5. db' \in [Procs -> Handle]
    BY <1>2, <2>4, HandlesType DEF ReuseWritedat, WritedatAt
  <2>6. TypeOK'
    BY <1>2, <2>3, <2>5 DEF ReuseWritedat, TypeOK, Step, files, hist
  <2>7. CallOK'
    BY <1>2, <2>1, StepCallOK DEF ReuseWritedat
  <2> QED BY <2>6, <2>7
<1>3. CASE ReuseWriteidx(p)
  <2>1. /\ call[p].op = "store" /\ call[p].key \in Keys /\ KeyLen[call[p].key] \in Nat
        /\ call[p].data \in Data /\ DatLen[call[p].data] \in Nat
    BY <1>3, StoreCallData DEF ReuseWriteidx, Step
  <2>2. NewIdx(p) \in IdxRec /\ db[p].idxoff \in Nat
    BY <1>3, <2>1, ProcType DEF ReuseWriteidx, IdxRec, Handle, NewIdx
  <2>3. idx' \in Seq(IdxRec)
    BY <1>3, <2>2, PutProperties DEF ReuseWriteidx, TypeOK
  <2>4. [db[p] EXCEPT !.ptrval = db[p].chainptr] \in Handle
    BY <1>3, ProcType DEF ReuseWriteidx, Handle, Cells, IdxRec
  <2>5. db' \in [Procs -> Handle]
    BY <1>3, <2>4, HandlesType DEF ReuseWriteidx
  <2>6. pos' \in [Procs -> Nat]
    BY <1>3, <2>2, AtType DEF ReuseWriteidx
  <2>7. Abs!Result(0, call[p].key, NONE) \in Answers
    BY <1>3, <2>1 DEF ReuseWriteidx, Abs!Result, Answers
  <2>8. ret' \in [Procs -> Answers] /\ store' \in [Keys -> Data \cup {NONE}]
    BY <1>3, <2>1, <2>7 DEF ReuseWriteidx, Stored, Answer, TypeOK
  <2>9. TypeOK'
    BY <1>3, <2>3, <2>5, <2>6, <2>8 DEF ReuseWriteidx, TypeOK, Step, files, hist
  <2>10. CallOK'
    BY <1>3, <2>1, StepCallOK DEF ReuseWriteidx
  <2> QED BY <2>9, <2>10
<1>4. CASE Link(p)
  <2>1. /\ call[p].op = "store" /\ call[p].key \in Keys /\ KeyLen[call[p].key] \in Nat
        /\ call[p].data \in Data /\ DatLen[call[p].data] \in Nat
    BY <1>4, StoreCallData DEF Link, Step
  <2>2. ChainOff(p) \in Cells /\ db[p].idxoff \in Nat
    BY <1>4, ProcType, KeyedCall DEF Link, Step, Cells, Handle
  <2>3. head' \in [Chains \cup {FREE_OFF} -> Nat] /\ idx' \in Seq(IdxRec)
    BY <1>4, <2>2, WriteptrProperties DEF Link
  <2>4. pos' \in [Procs -> Nat]
    BY <1>4, AtType DEF Link
  <2>5. TypeOK'
    BY <1>4, <2>3, <2>4 DEF Link, TypeOK, Step, files, hist
  <2>6. CallOK'
    BY <1>4, <2>1, StepCallOK DEF Link
  <2> QED BY <2>5, <2>6
<1>5. CASE Overwrite(p)
  <2>1. /\ call[p].op = "store" /\ call[p].key \in Keys /\ KeyLen[call[p].key] \in Nat
        /\ call[p].data \in Data /\ DatLen[call[p].data] \in Nat
    BY <1>5, StoreCallData DEF Overwrite, Step
  <2>2. [len |-> DatLen[call[p].data], data |-> call[p].data] \in DatRec
        /\ db[p].datoff \in Nat
    BY <1>5, <2>1, ProcType DEF Overwrite, DatRec, Handle
  <2>3. dat' \in Seq(DatRec)
    BY <1>5, <2>2, PutProperties DEF Overwrite, WritedatAt, TypeOK
  <2>4. [db[p] EXCEPT !.datlen = DatLen[call[p].data]] \in Handle
    BY <1>5, <2>1, ProcType DEF Overwrite, Handle
  <2>5. db' \in [Procs -> Handle]
    BY <1>5, <2>4, HandlesType DEF Overwrite, WritedatAt
  <2>6. Abs!Result(0, call[p].key, NONE) \in Answers
    BY <1>5, <2>1 DEF Overwrite, Abs!Result, Answers
  <2>7. ret' \in [Procs -> Answers] /\ store' \in [Keys -> Data \cup {NONE}]
    BY <1>5, <2>1, <2>6 DEF Overwrite, Stored, Answer, TypeOK
  <2>8. TypeOK'
    BY <1>5, <2>3, <2>5, <2>7 DEF Overwrite, TypeOK, Step, files, hist
  <2>9. CallOK'
    BY <1>5, <2>1, StepCallOK DEF Overwrite
  <2> QED BY <2>8, <2>9
<1> QED BY <1>1, <1>2, <1>3, <1>4, <1>5 DEF StoreStep

LEMMA ScanType ==
    ASSUME TypeOK, CallOK, NEW p \in Procs, ScanStep(p)
    PROVE  TypeOK' /\ CallOK'
<1> USE DEF Points, FindPoints, DeletePoints, FreePoints, AppendPoints,
         StorePoints, ScanPoints, Ended, Killed, KeyPoints, StoreOnlyPoints
<1>1. CASE ScanLock(p)
  <2>1. FREE_OFF \in Regions
    BY <1>1 DEF ScanLock, Lock, Unlock, Step, Regions
  <2>2. TypeOK'
    BY <1>1, <2>1, LockStepType DEF ScanLock
  <2>3. CallOK'
    BY <1>1, <2>1, StepCallOK DEF ScanLock, Lock, Unlock
  <2> QED BY <2>2, <2>3
<1>2. CASE ScanRead(p)
  <2>1. pos[p] \in Nat /\ idx[pos[p]] \in IdxRec /\ Readidx(p, pos[p]) \in Handle
    BY <1>2, ReadidxType DEF ScanRead
  <2>2. db' \in [Procs -> Handle]
    BY <1>2, <2>1, HandlesType DEF ScanRead
  <2>3. pos' \in [Procs -> Nat]
    BY <1>2, <2>1, AtType DEF ScanRead
  <2>4. TypeOK'
    BY <1>2, <2>2, <2>3 DEF ScanRead, TypeOK, Step, files, hist
  <2>5. CallOK'
    BY <1>2, StepCallOK DEF ScanRead
  <2> QED BY <2>4, <2>5
<1>3. CASE ScanEof(p)
  <2>1. [db[p] EXCEPT !.idxoff = pos[p]] \in Handle
    BY <1>3, ProcType DEF ScanEof, Handle, Cells, IdxRec
  <2>. Handles(p, [db[p] EXCEPT !.idxoff = pos[p]])
    BY <1>3 DEF ScanEof
  <2>2. db' \in [Procs -> Handle]
    BY <2>1, HandlesType
  <2>3. Abs!Result(-1, NONE, NONE) \in Answers
    BY <1>3 DEF ScanEof, Abs!Result, Answers
  <2>4. ret' \in [Procs -> Answers]
    BY <1>3, <2>3 DEF ScanEof, Answer, TypeOK
  <2>5. TypeOK'
    BY <1>3, <2>2, <2>4 DEF ScanEof, TypeOK, Step, files, hist
  <2>6. CallOK'
    BY <1>3, StepCallOK DEF ScanEof
  <2> QED BY <2>5, <2>6
<1>4. CASE ScanData(p)
  <2>1. dat[db[p].datoff] \in DatRec
    BY <1>4, LenProperties, ElementOfSeq DEF ScanData, DataReadable, TypeOK
  <2>2. Abs!Result(0, db[p].idxbuf, dat[db[p].datoff].data) \in Answers
    BY <1>4, <2>1, ProcType DEF ScanData, Abs!Result, Answers, DatRec, Handle
  <2>3. ret' \in [Procs -> Answers]
    BY <1>4, <2>2 DEF ScanData, Answer, TypeOK
  <2>4. TypeOK'
    BY <1>4, <2>3 DEF ScanData, TypeOK, Step, files, hist
  <2>5. CallOK'
    BY <1>4, StepCallOK DEF ScanData
  <2> QED BY <2>4, <2>5
<1>5. CASE ScanUnlock(p)
  <2>1. FREE_OFF \in Regions
    BY <1>5, KeyedCall DEF ScanUnlock, Return, Regions
  <2> QED BY <1>5, <2>1, ReturnType DEF ScanUnlock
<1> QED BY <1>1, <1>2, <1>3, <1>4, <1>5 DEF ScanStep

LEMMA InvokeType ==
    ASSUME TypeOK, CallOK, NEW p \in Procs, NEW c \in Uses[p], Invoke(p, c)
    PROVE  TypeOK' /\ CallOK'
<1>1. c \in Abs!Calls
  BY ConstantsAssumption
<1>2. c.op \in {"fetch", "delete", "store", "nextrec"}
      /\ (c.op = "nextrec" => c = Abs!NextrecCall)
  BY <1>1, CallFields
<1>3. pc' = [pc EXCEPT ![p] = IF c.op = "nextrec" THEN "scan_lock" ELSE "lock_chain"]
  BY DEF Invoke, FirstPoint
<1>4. call' = [call EXCEPT ![p] = c]
  BY DEF Invoke
<1>5. scanning' \in [Procs -> BOOLEAN] /\ ncalls' \in [Procs -> Nat]
  BY DEF Invoke, TypeOK
<1>6. TypeOK'
  BY <1>1, <1>3, <1>4, <1>5 DEF Invoke, TypeOK, files, hist, Points, FindPoints, ScanPoints
<1>7. CallOK'
  BY <1>2, <1>3, <1>4 DEF TypeOK, CallOK, ScanPoints, KeyPoints, StoreOnlyPoints,
         FindPoints, DeletePoints, FreePoints, AppendPoints, StorePoints
<1> QED BY <1>6, <1>7

LEMMA RewindType ==
    ASSUME TypeOK, CallOK, NEW p \in Procs, Rewind(p)
    PROVE  TypeOK' /\ CallOK'
<1>1. [db[p] EXCEPT !.idxoff = 1] \in Handle
  BY ProcType DEF Handle
<1>2. db' \in [Procs -> Handle]
  BY <1>1, HandlesType DEF Rewind
<1>3. pos' \in [Procs -> Nat]
  BY AtType DEF Rewind
<1>4. TypeOK'
  BY <1>2, <1>3 DEF Rewind, TypeOK, files, hist
<1>5. CallOK'
  BY DEF Rewind, CallOK
<1> QED BY <1>4, <1>5

LEMMA EndType ==
    ASSUME TypeOK, CallOK, NEW p \in Procs, NEW point \in Ended, End(p, point)
    PROVE  TypeOK' /\ CallOK'
<1>1. TypeOK'
  BY DEF End, TypeOK, Points, files, proc, hist
<1>2. CallOK'
  BY DEF End, CallOK, Ended, Killed, ScanPoints, KeyPoints, StoreOnlyPoints,
         FindPoints, DeletePoints, FreePoints, AppendPoints, StorePoints
<1> QED BY <1>1, <1>2

LEMMA NextType ==
    ASSUME TypeOK, CallOK, [Next]_vars
    PROVE  TypeOK' /\ CallOK'
<1>1. CASE UNCHANGED vars
  BY <1>1 DEF vars, TypeOK, CallOK
<1>2. CASE Next
  <2> PICK p \in Procs : \/ \E c \in Uses[p] : Invoke(p, c)
                         \/ Rewind(p)
                         \/ Progress(p)
                         \/ Crash(p)
    BY <1>2 DEF Next
  <2>1. CASE \E c \in Uses[p] : Invoke(p, c)
    BY <2>1, InvokeType
  <2>2. CASE Rewind(p)
    BY <2>2, RewindType
  <2>3. CASE Progress(p)
    BY <2>3, FindType, DeleteType, FreeType, AppendType, StoreType, ScanType,
       EndType DEF Progress, Dump, Ended, Killed
  <2>4. CASE Crash(p)
    BY <2>4, EndType DEF Crash, Ended, Killed
  <2> QED BY <2>1, <2>2, <2>3, <2>4
<1> QED BY <1>1, <1>2

LEMMA InitType == Init => TypeOK /\ CallOK
<1> SUFFICES ASSUME Init PROVE TypeOK /\ CallOK
  OBVIOUS
<1>1. NewHandle \in Handle
  BY DEF NewHandle, Handle, Cells
<1>2. Abs!Pending \in Answers
  BY DEF Abs!Pending, Abs!Result, Answers
<1>3. idx \in Seq(IdxRec) /\ dat \in Seq(DatRec)
  BY EmptySeq DEF Init
<1>4. TypeOK
  BY <1>1, <1>2, <1>3 DEF Init, TypeOK, Abs!Init, Points
<1>5. CallOK
  BY DEF Init, CallOK, Abs!Init, ScanPoints, KeyPoints, StoreOnlyPoints,
         FindPoints, DeletePoints, FreePoints, AppendPoints, StorePoints
<1> QED BY <1>4, <1>5

\* The files, the handles and the calls of db.c keep their shape, and every
\* process is at a point of the code that belongs to its call.
THEOREM TypeCorrect == Spec => [](TypeOK /\ CallOK)
<1>1. Init => TypeOK /\ CallOK
  BY InitType
<1>2. (TypeOK /\ CallOK) /\ [Next]_vars => (TypeOK /\ CallOK)'
  BY NextType
<1> QED BY <1>1, <1>2, PTL DEF Spec

-----------------------------------------------------------------------------
\* The lock a process in call c holds on region r at a point of the code.

HeldAt(point, c, r) ==
    IF r \in Chains
      THEN IF point \in ChainHeld /\ r = Hash[c.key]
           THEN IF c.op = "fetch" THEN "read" ELSE "write" ELSE "none"
    ELSE IF r = FREE_OFF
      THEN IF point \in FreeHeld THEN "write"
           ELSE IF point \in ScanHeld THEN "read" ELSE "none"
    ELSE IF r = DAT_ALL
      THEN IF point \in DatHeld THEN "write" ELSE "none"
    ELSE IF point \in IdxHeld THEN "write" ELSE "none"

LockTable ==
    \A p \in Procs : \A r \in Regions : lock[p][r] = HeldAt(pc[p], call[p], r)

Exclusion ==
    \A p, q \in Procs : \A r \in Regions :
        p # q => Compatible(lock[p][r], lock[q][r])

LockOK == LockTable /\ Exclusion

LEMMA CompatibleSymmetric ==
    ASSUME NEW t, NEW u, Compatible(t, u)
    PROVE  Compatible(u, t)
BY DEF Compatible

\* A step within the call that touches no lock.
LEMMA KeepLocks ==
    ASSUME TypeOK, LockOK, NEW p \in Procs, NEW from, NEW to,
           Step(p, from, to), UNCHANGED lock,
           \A r \in Regions : HeldAt(to, call[p], r) = HeldAt(from, call[p], r)
    PROVE  LockOK'
<1>1. LockTable'
  <2> SUFFICES ASSUME NEW q \in Procs, NEW r \in Regions
               PROVE  lock'[q][r] = HeldAt(pc'[q], call'[q], r)
    BY DEF LockTable, HeldAt
  <2>1. lock'[q][r] = HeldAt(pc[q], call[q], r) /\ call'[q] = call[q]
    BY DEF LockOK, LockTable, Step
  <2>2. CASE q = p
    <3>1. pc[p] = from /\ pc'[p] = to
      BY DEF Step, TypeOK
    <3> QED BY <2>1, <2>2, <3>1
  <2>3. CASE q # p
    <3>1. pc'[q] = pc[q]
      BY <2>3 DEF Step, TypeOK
    <3> QED BY <2>1, <3>1
  <2> QED BY <2>2, <2>3
<1>2. Exclusion'
  BY DEF LockOK, Exclusion
<1> QED BY <1>1, <1>2 DEF LockOK

LEMMA TakeLock ==
    ASSUME TypeOK, LockOK, NEW p \in Procs, NEW from, NEW to,
           NEW r \in Regions, NEW t, Lock(p, from, r, t, to),
           \A s \in Regions : HeldAt(to, call[p], s) =
               IF s = r THEN t ELSE HeldAt(from, call[p], s)
    PROVE  LockOK'
<1>1. \A q \in Procs : \A s \in Regions :
         lock'[q][s] = IF q = p /\ s = r THEN t ELSE lock[q][s]
  <2>1. lock' = [lock EXCEPT ![p][r] = t]
    BY DEF Lock, Acquire
  <2> QED BY <2>1 DEF TypeOK
<1>2. LockTable'
  <2> SUFFICES ASSUME NEW q \in Procs, NEW s \in Regions
               PROVE  lock'[q][s] = HeldAt(pc'[q], call'[q], s)
    BY DEF LockTable, HeldAt
  <2>1. lock[q][s] = HeldAt(pc[q], call[q], s) /\ call'[q] = call[q]
    BY DEF LockOK, LockTable, Lock, Step
  <2>2. CASE q = p
    <3>1. pc[p] = from /\ pc'[p] = to
      BY DEF Lock, Step, TypeOK
    <3> QED BY <1>1, <2>1, <2>2, <3>1
  <2>3. CASE q # p
    <3>1. pc'[q] = pc[q]
      BY <2>3 DEF Lock, Step, TypeOK
    <3> QED BY <1>1, <2>1, <2>3, <3>1
  <2> QED BY <2>2, <2>3
<1>3. Exclusion'
  <2> SUFFICES ASSUME NEW q1 \in Procs, NEW q2 \in Procs, NEW s \in Regions, q1 # q2
               PROVE  Compatible(lock'[q1][s], lock'[q2][s])
    BY DEF Exclusion, Compatible
  <2>1. \A q \in Procs \ {p} : Compatible(t, lock[q][r])
    BY DEF Lock, Acquire
  <2>2. Compatible(lock[q1][s], lock[q2][s])
    BY DEF LockOK, Exclusion
  <2> QED BY <1>1, <2>1, <2>2, CompatibleSymmetric
<1> QED BY <1>2, <1>3 DEF LockOK

\* Locks dropped: every entry of the table stays or becomes "none".
LEMMA FewerLocks ==
    ASSUME LockOK,
           \A q \in Procs : \A s \in Regions :
              lock'[q][s] \in {lock[q][s], "none"}
    PROVE  Exclusion'
<1> SUFFICES ASSUME NEW q1 \in Procs, NEW q2 \in Procs, NEW s \in Regions, q1 # q2
             PROVE  Compatible(lock'[q1][s], lock'[q2][s])
  BY DEF Exclusion, Compatible
<1>1. Compatible(lock[q1][s], lock[q2][s])
  BY DEF LockOK, Exclusion
<1> QED BY <1>1 DEF Compatible

LEMMA DropLock ==
    ASSUME TypeOK, LockOK, NEW p \in Procs, NEW from, NEW to,
           NEW r \in Regions, Unlock(p, from, r, to),
           \A s \in Regions : HeldAt(to, call[p], s) =
               IF s = r THEN "none" ELSE HeldAt(from, call[p], s)
    PROVE  LockOK'
<1>1. \A q \in Procs : \A s \in Regions :
         lock'[q][s] = IF q = p /\ s = r THEN "none" ELSE lock[q][s]
  <2>1. lock' = [lock EXCEPT ![p][r] = "none"]
    BY DEF Unlock, Release
  <2> QED BY <2>1 DEF TypeOK
<1>2. LockTable'
  <2> SUFFICES ASSUME NEW q \in Procs, NEW s \in Regions
               PROVE  lock'[q][s] = HeldAt(pc'[q], call'[q], s)
    BY DEF LockTable, HeldAt
  <2>1. lock[q][s] = HeldAt(pc[q], call[q], s) /\ call'[q] = call[q]
    BY DEF LockOK, LockTable, Unlock, Step
  <2>2. CASE q = p
    <3>1. pc[p] = from /\ pc'[p] = to
      BY DEF Unlock, Step, TypeOK
    <3> QED BY <1>1, <2>1, <2>2, <3>1
  <2>3. CASE q # p
    <3>1. pc'[q] = pc[q]
      BY <2>3 DEF Unlock, Step, TypeOK
    <3> QED BY <1>1, <2>1, <2>3, <3>1
  <2> QED BY <2>2, <2>3
<1>3. Exclusion'
  BY <1>1, FewerLocks
<1> QED BY <1>2, <1>3 DEF LockOK

-----------------------------------------------------------------------------
\* The steps of a call and the locks

LEMMA ReturnLocks ==
    ASSUME TypeOK, LockOK, NEW p \in Procs, NEW from, NEW r \in Regions,
           Return(p, from, r),
           \A s \in Regions : s # r => HeldAt(from, call[p], s) = "none"
    PROVE  LockOK'
<1>1. \A q \in Procs : \A s \in Regions :
         lock'[q][s] = IF q = p /\ s = r THEN "none" ELSE lock[q][s]
  <2>1. lock' = [lock EXCEPT ![p][r] = "none"]
    BY DEF Return, Release
  <2> QED BY <2>1 DEF TypeOK
<1>2. LockTable'
  <2> SUFFICES ASSUME NEW q \in Procs, NEW s \in Regions
               PROVE  lock'[q][s] = HeldAt(pc'[q], call'[q], s)
    BY DEF LockTable, HeldAt
  <2>1. lock[q][s] = HeldAt(pc[q], call[q], s)
    BY DEF LockOK, LockTable
  <2>2. CASE q = p
    <3>1. pc[p] = from /\ pc'[p] = "idle"
      BY DEF Return, TypeOK
    <3>2. HeldAt("idle", call'[p], s) = "none"
      BY DEF HeldAt, ChainHeld, KeyPoints, StoreOnlyPoints, FreeHeld, ScanHeld,
             DatHeld, IdxHeld, FindPoints, DeletePoints, FreePoints, AppendPoints,
             StorePoints, ScanPoints
    <3> QED BY <1>1, <2>1, <2>2, <3>1, <3>2
  <2>3. CASE q # p
    <3>1. pc'[q] = pc[q] /\ call'[q] = call[q]
      BY <2>3 DEF Return, TypeOK
    <3> QED BY <1>1, <2>1, <2>3, <3>1
  <2> QED BY <2>2, <2>3
<1>3. Exclusion'
  BY <1>1, FewerLocks
<1> QED BY <1>2, <1>3 DEF LockOK

LEMMA FindLocks ==
    ASSUME TypeOK, CallOK, LockOK, NEW p \in Procs, FindStep(p)
    PROVE  LockOK'
<1> USE ConstantsAssumption
<1> USE DEF Points, FindPoints, DeletePoints, FreePoints, AppendPoints,
         StorePoints, ScanPoints, KeyPoints, StoreOnlyPoints,
         ChainHeld, FreeHeld, ScanHeld, DatHeld, IdxHeld
<1>1. CASE LockChain(p)
  <2>1. pc[p] = "lock_chain"
    BY <1>1 DEF LockChain, Lock, Step
  <2>2. ChainOff(p) \in Chains /\ ChainOff(p) \in Regions
    BY <2>1, KeyedCall DEF Regions
  <2>3. \A s \in Regions : HeldAt("read_chain", call[p], s) =
           IF s = ChainOff(p) THEN IF call[p].op = "fetch" THEN "read" ELSE "write"
           ELSE HeldAt("lock_chain", call[p], s)
    BY <2>2 DEF HeldAt, Regions, ChainOff
  <2> QED BY <1>1, <2>2, <2>3, TakeLock DEF LockChain
<1>2. CASE ReadChain(p)
  <2>1. \A r \in Regions : HeldAt("walk", call[p], r) = HeldAt("read_chain", call[p], r)
    BY DEF HeldAt
  <2> QED BY <1>2, <2>1, KeepLocks DEF ReadChain, files
<1>3. CASE WalkOn(p)
  <2>1. \A r \in Regions : HeldAt("walk", call[p], r) = HeldAt("walk", call[p], r)
    BY DEF HeldAt
  <2> QED BY <1>3, <2>1, KeepLocks DEF WalkOn, files
<1>4. CASE Found(p)
  <2>1. pc[p] = "walk" /\ call[p].op \in {"fetch", "delete", "store"}
    BY <1>4 DEF Found, Step, CallOK
  <2>2. AfterFound(call[p], idx[db[p].cur].datlen) \in
           {"readdat", "unlock_chain", "del_lock", "overwrite"}
    BY <2>1 DEF AfterFound
  <2>3. \A r \in Regions :
           HeldAt(AfterFound(call[p], idx[db[p].cur].datlen), call[p], r)
             = HeldAt("walk", call[p], r)
    BY <2>2 DEF HeldAt
  <2> QED BY <1>4, <2>3, KeepLocks DEF Found, files
<1>5. CASE NotFound(p)
  <2>1. \A r \in Regions : HeldAt("read_head", call[p], r) = HeldAt("walk", call[p], r)
    BY DEF HeldAt
  <2>2. \A r \in Regions : HeldAt("unlock_chain", call[p], r) = HeldAt("walk", call[p], r)
    BY DEF HeldAt
  <2> QED BY <1>5, <2>1, <2>2, KeepLocks DEF NotFound, files
<1>6. CASE FetchData(p)
  <2>1. \A r \in Regions : HeldAt("unlock_chain", call[p], r) = HeldAt("readdat", call[p], r)
    BY DEF HeldAt
  <2> QED BY <1>6, <2>1, KeepLocks DEF FetchData, files
<1>7. CASE UnlockChain(p)
  <2>1. ChainOff(p) \in Regions
    BY <1>7, KeyedCall DEF UnlockChain, Return, Regions
  <2>2. \A s \in Regions : s # ChainOff(p) => HeldAt("unlock_chain", call[p], s) = "none"
    BY DEF HeldAt, Regions, ChainOff
  <2> QED BY <1>7, <2>1, <2>2, ReturnLocks DEF UnlockChain
<1> QED BY <1>1, <1>2, <1>3, <1>4, <1>5, <1>6, <1>7 DEF FindStep

LEMMA DeleteLocks ==
    ASSUME TypeOK, CallOK, LockOK, NEW p \in Procs, DeleteStep(p)
    PROVE  LockOK'
<1> USE ConstantsAssumption
<1> USE DEF Points, FindPoints, DeletePoints, FreePoints, AppendPoints,
         StorePoints, ScanPoints, KeyPoints, StoreOnlyPoints,
         ChainHeld, FreeHeld, ScanHeld, DatHeld, IdxHeld
<1>1. CASE DelLock(p)
  <2>1. FREE_OFF \in Regions
    BY DEF Regions
  <2>2. \A s \in Regions : HeldAt("del_dat", call[p], s) =
           IF s = FREE_OFF THEN "write" ELSE HeldAt("del_lock", call[p], s)
    BY DEF HeldAt, Regions
  <2> QED BY <1>1, <2>1, <2>2, TakeLock DEF DelLock
<1>2. CASE DelWritedat(p)
  <2>1. \A r \in Regions : HeldAt("del_readfree", call[p], r) = HeldAt("del_dat", call[p], r)
    BY DEF HeldAt
  <2> QED BY <1>2, <2>1, KeepLocks DEF DelWritedat, files
<1>3. CASE DelReadfree(p)
  <2>1. \A r \in Regions : HeldAt("del_idx", call[p], r) = HeldAt("del_readfree", call[p], r)
    BY DEF HeldAt
  <2> QED BY <1>3, <2>1, KeepLocks DEF DelReadfree, files
<1>4. CASE DelWriteidx(p)
  <2>1. \A r \in Regions : HeldAt("del_setfree", call[p], r) = HeldAt("del_idx", call[p], r)
    BY DEF HeldAt
  <2> QED BY <1>4, <2>1, KeepLocks DEF DelWriteidx, files
<1>5. CASE DelSetfree(p)
  <2>1. \A r \in Regions : HeldAt("del_unlink", call[p], r) = HeldAt("del_setfree", call[p], r)
    BY DEF HeldAt
  <2> QED BY <1>5, <2>1, KeepLocks DEF DelSetfree, files
<1>6. CASE DelUnlink(p)
  <2>1. \A r \in Regions : HeldAt("del_unlock", call[p], r) = HeldAt("del_unlink", call[p], r)
    BY DEF HeldAt
  <2> QED BY <1>6, <2>1, KeepLocks DEF DelUnlink, files
<1>7. CASE DelUnlock(p)
  <2>1. FREE_OFF \in Regions
    BY DEF Regions
  <2>2. \A s \in Regions : HeldAt(IF call[p].op = "delete" THEN "unlock_chain" ELSE "reread_head", call[p], s) =
           IF s = FREE_OFF THEN "none" ELSE HeldAt("del_unlock", call[p], s)
    BY DEF HeldAt, Regions
  <2> QED BY <1>7, <2>1, <2>2, DropLock DEF DelUnlock
<1> QED BY <1>1, <1>2, <1>3, <1>4, <1>5, <1>6, <1>7 DEF DeleteStep

LEMMA FreeLocks ==
    ASSUME TypeOK, CallOK, LockOK, NEW p \in Procs, FreeStep(p)
    PROVE  LockOK'
<1> USE ConstantsAssumption
<1> USE DEF Points, FindPoints, DeletePoints, FreePoints, AppendPoints,
         StorePoints, ScanPoints, KeyPoints, StoreOnlyPoints,
         ChainHeld, FreeHeld, ScanHeld, DatHeld, IdxHeld
<1>1. CASE FreeLock(p)
  <2>1. FREE_OFF \in Regions
    BY DEF Regions
  <2>2. \A s \in Regions : HeldAt("ff_read", call[p], s) =
           IF s = FREE_OFF THEN "write" ELSE HeldAt("ff_lock", call[p], s)
    BY DEF HeldAt, Regions
  <2> QED BY <1>1, <2>1, <2>2, TakeLock DEF FreeLock
<1>2. CASE FreeRead(p)
  <2>1. \A r \in Regions : HeldAt("ff_walk", call[p], r) = HeldAt("ff_read", call[p], r)
    BY DEF HeldAt
  <2> QED BY <1>2, <2>1, KeepLocks DEF FreeRead, files
<1>3. CASE FreeWalkOn(p)
  <2>1. \A r \in Regions : HeldAt("ff_walk", call[p], r) = HeldAt("ff_walk", call[p], r)
    BY DEF HeldAt
  <2> QED BY <1>3, <2>1, KeepLocks DEF FreeWalkOn, files
<1>4. CASE FreeFound(p)
  <2>1. \A r \in Regions : HeldAt("ff_unlink", call[p], r) = HeldAt("ff_walk", call[p], r)
    BY DEF HeldAt
  <2> QED BY <1>4, <2>1, KeepLocks DEF FreeFound, files
<1>5. CASE FreeNone(p)
  <2>1. \A r \in Regions : HeldAt("ff_unlock", call[p], r) = HeldAt("ff_walk", call[p], r)
    BY DEF HeldAt
  <2> QED BY <1>5, <2>1, KeepLocks DEF FreeNone, files
<1>6. CASE FreeUnlink(p)
  <2>1. \A r \in Regions : HeldAt("ff_unlock", call[p], r) = HeldAt("ff_unlink", call[p], r)
    BY DEF HeldAt
  <2> QED BY <1>6, <2>1, KeepLocks DEF FreeUnlink, files
<1>7. CASE FreeUnlock(p)
  <2>1. FREE_OFF \in Regions
    BY DEF Regions
  <2>2. \A s \in Regions : HeldAt(IF db[p].cur = 0 THEN "dat_lock" ELSE "reuse_dat", call[p], s) =
           IF s = FREE_OFF THEN "none" ELSE HeldAt("ff_unlock", call[p], s)
    BY DEF HeldAt, Regions
  <2> QED BY <1>7, <2>1, <2>2, DropLock DEF FreeUnlock
<1> QED BY <1>1, <1>2, <1>3, <1>4, <1>5, <1>6, <1>7 DEF FreeStep

LEMMA AppendLocks ==
    ASSUME TypeOK, CallOK, LockOK, NEW p \in Procs, AppendStep(p)
    PROVE  LockOK'
<1> USE ConstantsAssumption
<1> USE DEF Points, FindPoints, DeletePoints, FreePoints, AppendPoints,
         StorePoints, ScanPoints, KeyPoints, StoreOnlyPoints,
         ChainHeld, FreeHeld, ScanHeld, DatHeld, IdxHeld
<1>1. CASE DatLock(p)
  <2>1. DAT_ALL \in Regions
    BY DEF Regions
  <2>2. \A s \in Regions : HeldAt("dat_seek", call[p], s) =
           IF s = DAT_ALL THEN "write" ELSE HeldAt("dat_lock", call[p], s)
    BY DEF HeldAt, Regions
  <2> QED BY <1>1, <2>1, <2>2, TakeLock DEF DatLock
<1>2. CASE DatSeek(p)
  <2>1. \A r \in Regions : HeldAt("dat_append", call[p], r) = HeldAt("dat_seek", call[p], r)
    BY DEF HeldAt
  <2> QED BY <1>2, <2>1, KeepLocks DEF DatSeek, files
<1>3. CASE DatAppend(p)
  <2>1. \A r \in Regions : HeldAt("dat_unlock", call[p], r) = HeldAt("dat_append", call[p], r)
    BY DEF HeldAt
  <2> QED BY <1>3, <2>1, KeepLocks DEF DatAppend, files
<1>4. CASE DatUnlock(p)
  <2>1. DAT_ALL \in Regions
    BY DEF Regions
  <2>2. \A s \in Regions : HeldAt("idx_lock", call[p], s) =
           IF s = DAT_ALL THEN "none" ELSE HeldAt("dat_unlock", call[p], s)
    BY DEF HeldAt, Regions
  <2> QED BY <1>4, <2>1, <2>2, DropLock DEF DatUnlock
<1>5. CASE IdxLock(p)
  <2>1. IDX_END \in Regions
    BY DEF Regions
  <2>2. \A s \in Regions : HeldAt("idx_seek", call[p], s) =
           IF s = IDX_END THEN "write" ELSE HeldAt("idx_lock", call[p], s)
    BY DEF HeldAt, Regions
  <2> QED BY <1>5, <2>1, <2>2, TakeLock DEF IdxLock
<1>6. CASE IdxSeek(p)
  <2>1. \A r \in Regions : HeldAt("idx_append", call[p], r) = HeldAt("idx_seek", call[p], r)
    BY DEF HeldAt
  <2> QED BY <1>6, <2>1, KeepLocks DEF IdxSeek, files
<1>7. CASE IdxAppend(p)
  <2>1. \A r \in Regions : HeldAt("idx_unlock", call[p], r) = HeldAt("idx_append", call[p], r)
    BY DEF HeldAt
  <2> QED BY <1>7, <2>1, KeepLocks DEF IdxAppend, files
<1>8. CASE IdxUnlock(p)
  <2>1. IDX_END \in Regions
    BY DEF Regions
  <2>2. \A s \in Regions : HeldAt("link", call[p], s) =
           IF s = IDX_END THEN "none" ELSE HeldAt("idx_unlock", call[p], s)
    BY DEF HeldAt, Regions
  <2> QED BY <1>8, <2>1, <2>2, DropLock DEF IdxUnlock
<1> QED BY <1>1, <1>2, <1>3, <1>4, <1>5, <1>6, <1>7, <1>8 DEF AppendStep

LEMMA StoreLocks ==
    ASSUME TypeOK, CallOK, LockOK, NEW p \in Procs, StoreStep(p)
    PROVE  LockOK'
<1> USE ConstantsAssumption
<1> USE DEF Points, FindPoints, DeletePoints, FreePoints, AppendPoints,
         StorePoints, ScanPoints, KeyPoints, StoreOnlyPoints,
         ChainHeld, FreeHeld, ScanHeld, DatHeld, IdxHeld
<1>1. CASE ReadHead(p)
  <2>1. \A r \in Regions : HeldAt("ff_lock", call[p], r) = HeldAt("read_head", call[p], r)
    BY DEF HeldAt
  <2>2. \A r \in Regions : HeldAt("dat_lock", call[p], r) = HeldAt("reread_head", call[p], r)
    BY DEF HeldAt
  <2> QED BY <1>1, <2>1, <2>2, KeepLocks DEF ReadHead, files
<1>2. CASE ReuseWritedat(p)
  <2>1. \A r \in Regions : HeldAt("reuse_idx", call[p], r) = HeldAt("reuse_dat", call[p], r)
    BY DEF HeldAt
  <2> QED BY <1>2, <2>1, KeepLocks DEF ReuseWritedat, files
<1>3. CASE ReuseWriteidx(p)
  <2>1. \A r \in Regions : HeldAt("link", call[p], r) = HeldAt("reuse_idx", call[p], r)
    BY DEF HeldAt
  <2> QED BY <1>3, <2>1, KeepLocks DEF ReuseWriteidx, files
<1>4. CASE Link(p)
  <2>1. \A r \in Regions : HeldAt("unlock_chain", call[p], r) = HeldAt("link", call[p], r)
    BY DEF HeldAt
  <2> QED BY <1>4, <2>1, KeepLocks DEF Link, files
<1>5. CASE Overwrite(p)
  <2>1. \A r \in Regions : HeldAt("unlock_chain", call[p], r) = HeldAt("overwrite", call[p], r)
    BY DEF HeldAt
  <2> QED BY <1>5, <2>1, KeepLocks DEF Overwrite, files
<1> QED BY <1>1, <1>2, <1>3, <1>4, <1>5 DEF StoreStep

LEMMA ScanLocks ==
    ASSUME TypeOK, CallOK, LockOK, NEW p \in Procs, ScanStep(p)
    PROVE  LockOK'
<1> USE ConstantsAssumption
<1> USE DEF Points, FindPoints, DeletePoints, FreePoints, AppendPoints,
         StorePoints, ScanPoints, KeyPoints, StoreOnlyPoints,
         ChainHeld, FreeHeld, ScanHeld, DatHeld, IdxHeld
<1>1. CASE ScanLock(p)
  <2>1. FREE_OFF \in Regions
    BY DEF Regions
  <2>2. \A s \in Regions : HeldAt("scan_read", call[p], s) =
           IF s = FREE_OFF THEN "read" ELSE HeldAt("scan_lock", call[p], s)
    BY DEF HeldAt, Regions
  <2> QED BY <1>1, <2>1, <2>2, TakeLock DEF ScanLock
<1>2. CASE ScanRead(p)
  <2>1. \A r \in Regions :
           HeldAt(IF idx[pos[p]].key = BLANK THEN "scan_read" ELSE "scan_dat", call[p], r)
             = HeldAt("scan_read", call[p], r)
    BY DEF HeldAt
  <2> QED BY <1>2, <2>1, KeepLocks DEF ScanRead, files
<1>3. CASE ScanEof(p)
  <2>1. \A r \in Regions : HeldAt("scan_unlock", call[p], r) = HeldAt("scan_read", call[p], r)
    BY DEF HeldAt
  <2> QED BY <1>3, <2>1, KeepLocks DEF ScanEof, files
<1>4. CASE ScanData(p)
  <2>1. \A r \in Regions : HeldAt("scan_unlock", call[p], r) = HeldAt("scan_dat", call[p], r)
    BY DEF HeldAt
  <2> QED BY <1>4, <2>1, KeepLocks DEF ScanData, files
<1>5. CASE ScanUnlock(p)
  <2>1. FREE_OFF \in Regions
    BY <1>5, KeyedCall DEF ScanUnlock, Return, Regions
  <2>2. \A s \in Regions : s # FREE_OFF => HeldAt("scan_unlock", call[p], s) = "none"
    BY DEF HeldAt, Regions, ChainOff
  <2> QED BY <1>5, <2>1, <2>2, ReturnLocks DEF ScanUnlock
<1> QED BY <1>1, <1>2, <1>3, <1>4, <1>5 DEF ScanStep

LEMMA InvokeLocks ==
    ASSUME TypeOK, CallOK, LockOK, NEW p \in Procs, NEW c \in Uses[p], Invoke(p, c)
    PROVE  LockOK'
<1>1. \A r \in Regions : /\ HeldAt("idle", call[p], r) = "none"
                         /\ HeldAt("scan_lock", c, r) = "none"
                         /\ HeldAt("lock_chain", c, r) = "none"
  BY DEF HeldAt, ChainHeld, KeyPoints, StoreOnlyPoints, FreeHeld, ScanHeld, DatHeld,
         IdxHeld, FindPoints, DeletePoints, FreePoints, AppendPoints, StorePoints,
         ScanPoints
<1>2. LockTable'
  <2> SUFFICES ASSUME NEW q \in Procs, NEW r \in Regions
               PROVE  lock'[q][r] = HeldAt(pc'[q], call'[q], r)
    BY DEF LockTable, HeldAt
  <2>1. lock'[q][r] = HeldAt(pc[q], call[q], r)
    BY DEF LockOK, LockTable, Invoke
  <2>2. CASE q = p
    <3>1. /\ pc[p] = "idle" /\ call'[p] = c
          /\ pc'[p] \in {"scan_lock", "lock_chain"}
      BY DEF Invoke, FirstPoint, TypeOK
    <3> QED BY <1>1, <2>1, <2>2, <3>1
  <2>3. CASE q # p
    <3>1. pc'[q] = pc[q] /\ call'[q] = call[q]
      BY <2>3 DEF Invoke, TypeOK
    <3> QED BY <2>1, <3>1
  <2> QED BY <2>2, <2>3
<1>3. Exclusion'
  BY DEF LockOK, Exclusion, Invoke
<1> QED BY <1>2, <1>3 DEF LockOK

LEMMA EndLocks ==
    ASSUME TypeOK, CallOK, LockOK, NEW p \in Procs, NEW point \in Ended, End(p, point)
    PROVE  LockOK'
<1>1. \A r \in Regions : HeldAt(point, call[p], r) = "none"
  BY DEF HeldAt, ChainHeld, KeyPoints, StoreOnlyPoints, FreeHeld, ScanHeld, DatHeld,
         IdxHeld, FindPoints, DeletePoints, FreePoints, AppendPoints, StorePoints,
         ScanPoints, Ended, Killed
<1>2. \A q \in Procs : \A r \in Regions :
         lock'[q][r] = IF q = p THEN "none" ELSE lock[q][r]
  BY DEF End, TypeOK
<1>3. LockTable'
  <2> SUFFICES ASSUME NEW q \in Procs, NEW r \in Regions
               PROVE  lock'[q][r] = HeldAt(pc'[q], call'[q], r)
    BY DEF LockTable, HeldAt
  <2>1. lock[q][r] = HeldAt(pc[q], call[q], r) /\ call'[q] = call[q]
    BY DEF LockOK, LockTable, End
  <2>2. CASE q = p
    <3>1. pc'[p] = point
      BY DEF End, TypeOK
    <3> QED BY <1>1, <1>2, <2>1, <2>2, <3>1
  <2>3. CASE q # p
    <3>1. pc'[q] = pc[q]
      BY <2>3 DEF End, TypeOK
    <3> QED BY <1>2, <2>1, <2>3, <3>1
  <2> QED BY <2>2, <2>3
<1>4. Exclusion'
  BY <1>2, FewerLocks
<1> QED BY <1>3, <1>4 DEF LockOK

LEMMA NextLocks ==
    ASSUME TypeOK, CallOK, LockOK, [Next]_vars
    PROVE  LockOK'
<1>1. CASE UNCHANGED vars
  BY <1>1 DEF vars, LockOK, LockTable, Exclusion, HeldAt
<1>2. CASE Next
  <2> PICK p \in Procs : \/ \E c \in Uses[p] : Invoke(p, c)
                         \/ Rewind(p)
                         \/ Progress(p)
                         \/ Crash(p)
    BY <1>2 DEF Next
  <2>1. CASE \E c \in Uses[p] : Invoke(p, c)
    BY <2>1, InvokeLocks
  <2>2. CASE Rewind(p)
    BY <2>2 DEF Rewind, LockOK, LockTable, Exclusion, HeldAt
  <2>3. CASE Progress(p)
    BY <2>3, FindLocks, DeleteLocks, FreeLocks, AppendLocks, StoreLocks, ScanLocks,
       EndLocks DEF Progress, Dump, Ended, Killed
  <2>4. CASE Crash(p)
    BY <2>4, EndLocks DEF Crash, Ended, Killed
  <2> QED BY <2>1, <2>2, <2>3, <2>4
<1> QED BY <1>1, <1>2

LEMMA InitLocks == Init => LockOK
<1> SUFFICES ASSUME Init PROVE LockOK
  OBVIOUS
<1>1. \A p \in Procs : \A r \in Regions : lock[p][r] = "none"
  BY DEF Init
<1>2. \A p \in Procs : \A r \in Regions : HeldAt(pc[p], call[p], r) = "none"
  BY DEF Init, HeldAt, ChainHeld, KeyPoints, StoreOnlyPoints, FreeHeld, ScanHeld,
         DatHeld, IdxHeld, FindPoints, DeletePoints, FreePoints, AppendPoints,
         StorePoints, ScanPoints
<1> QED BY <1>1, <1>2 DEF LockOK, LockTable, Exclusion, Compatible

\* The lock table decides who is in a critical section and who is not.
LEMMA LocksGuard ==
    ASSUME TypeOK, CallOK, LockOK
    PROVE  CriticalSections /\ NoLockKept
<1>1. ASSUME NEW p \in Procs, NEW q \in Procs, p # q
      PROVE  /\ (pc[p] \in ChainHeld /\ pc[q] \in ChainHeld /\ ChainOff(p) = ChainOff(q))
                   => (call[p].op = "fetch" /\ call[q].op = "fetch")
             /\ pc[p] \in FreeHeld => pc[q] \notin FreeHeld \cup ScanHeld
             /\ pc[p] \in DatHeld => pc[q] \notin DatHeld
             /\ pc[p] \in IdxHeld => pc[q] \notin IdxHeld
  <2>0. \A r \in Regions : Compatible(HeldAt(pc[p], call[p], r), HeldAt(pc[q], call[q], r))
    BY <1>1 DEF LockOK, LockTable, Exclusion
  <2>1. ASSUME pc[p] \in ChainHeld, pc[q] \in ChainHeld, ChainOff(p) = ChainOff(q)
        PROVE  call[p].op = "fetch" /\ call[q].op = "fetch"
    <3>1. ChainOff(p) \in Chains /\ ChainOff(p) \in Regions
      BY <2>1, KeyedCall DEF ChainHeld, Regions
    <3>2. Compatible(IF call[p].op = "fetch" THEN "read" ELSE "write",
                     IF call[q].op = "fetch" THEN "read" ELSE "write")
      BY <2>0, <2>1, <3>1 DEF HeldAt, ChainOff
    <3> QED BY <3>2 DEF Compatible
  <2>2. FREE_OFF \in Regions /\ DAT_ALL \in Regions /\ IDX_END \in Regions
    BY DEF Regions
  <2>3. /\ FREE_OFF \notin Chains /\ DAT_ALL \notin Chains /\ IDX_END \notin Chains
        /\ DAT_ALL # FREE_OFF /\ IDX_END # FREE_OFF /\ IDX_END # DAT_ALL
    BY ConstantsAssumption
  <2>4. pc[p] \in FreeHeld => pc[q] \notin FreeHeld \cup ScanHeld
    BY <2>0, <2>2, <2>3 DEF HeldAt, Compatible
  <2>5. pc[p] \in DatHeld => pc[q] \notin DatHeld
    BY <2>0, <2>2, <2>3 DEF HeldAt, Compatible
  <2>6. pc[p] \in IdxHeld => pc[q] \notin IdxHeld
    BY <2>0, <2>2, <2>3 DEF HeldAt, Compatible
  <2> QED BY <2>1, <2>4, <2>5, <2>6
<1>2. NoLockKept
  BY DEF NoLockKept, LockOK, LockTable, HeldAt, ChainHeld, KeyPoints, StoreOnlyPoints,
         FreeHeld, ScanHeld, DatHeld, IdxHeld, FindPoints, DeletePoints, FreePoints,
         AppendPoints, StorePoints, ScanPoints, Ended, Killed
<1> QED BY <1>1, <1>2 DEF CriticalSections

\* A chain being changed has no other user, the free list is never changed
\* under a scan or by two, and appends do not overtake each other.
THEOREM Exclusive == Spec => []CriticalSections
<1>1. Init => TypeOK /\ CallOK /\ LockOK
  BY InitType, InitLocks
<1>2. (TypeOK /\ CallOK /\ LockOK) /\ [Next]_vars => (TypeOK /\ CallOK /\ LockOK)'
  BY NextType, NextLocks
<1>3. TypeOK /\ CallOK /\ LockOK => CriticalSections
  BY LocksGuard
<1> QED BY <1>1, <1>2, <1>3, PTL DEF Spec

\* A process that is outside the library, or has ended, holds no lock.
THEOREM Released == Spec => []NoLockKept
<1>1. Init => TypeOK /\ CallOK /\ LockOK
  BY InitType, InitLocks
<1>2. (TypeOK /\ CallOK /\ LockOK) /\ [Next]_vars => (TypeOK /\ CallOK /\ LockOK)'
  BY NextType, NextLocks
<1>3. TypeOK /\ CallOK /\ LockOK => NoLockKept
  BY LocksGuard
<1> QED BY <1>1, <1>2, <1>3, PTL DEF Spec

-----------------------------------------------------------------------------
(***************************************************************************)
(* What the locks of db.c buy: the two files stay consistent.  An index    *)
(* record is never moved or resized, and it owns its data record alone.    *)
(***************************************************************************)

\* The inductive invariant: what a handle knows of the files at each point.

\* The handle describes the index record it is at.
Matches(p) ==
    LET n == db[p].idxoff
    IN /\ n \in DOMAIN idx
       /\ idx[n].keylen = db[p].keylen
       /\ idx[n].datoff = db[p].datoff
       /\ idx[n].datlen = db[p].datlen

\* The handle is at a data record no index record refers to yet.
Fresh(p) ==
    LET n == db[p].datoff
    IN /\ n \in DOMAIN dat
       /\ dat[n].len = db[p].datlen
       /\ \A m \in DOMAIN idx : idx[m].datoff # n

DeletingPoints == {"del_lock", "del_dat", "del_readfree", "del_idx"}
ReusePoints == {"ff_unlink", "reuse_dat", "reuse_idx"}
FreshPoints == {"dat_unlock", "idx_lock", "idx_seek", "idx_append"}

HasFreeRecord(p) ==
    pc[p] \in ReusePoints \/ (pc[p] = "ff_unlock" /\ db[p].cur # 0)

HandleOK(p) ==
    /\ pc[p] \in DeletingPoints => Matches(p)
    /\ pc[p] = "overwrite" => Matches(p) /\ db[p].datlen = DatLen[call[p].data]
    /\ HasFreeRecord(p) => /\ Matches(p)
                           /\ db[p].keylen = KeyLen[call[p].key]
                           /\ db[p].datlen = DatLen[call[p].data]
    /\ pc[p] = "dat_append" => db[p].datoff = Len(dat) + 1
    /\ pc[p] \in FreshPoints => Fresh(p)
    /\ pc[p] = "idx_append" => db[p].idxoff = Len(idx) + 1

FreshDistinct ==
    \A p, q \in Procs :
        (p # q /\ pc[p] \in FreshPoints /\ pc[q] \in FreshPoints) =>
            db[p].datoff # db[q].datoff

DataInv == DataOwned /\ FreshDistinct /\ \A p \in Procs : HandleOK(p)

-----------------------------------------------------------------------------
\* How a step changes the files

\* No record is added, moved or resized.
SameShape ==
    /\ Len(idx') = Len(idx) /\ Len(dat') = Len(dat)
    /\ \A n \in DOMAIN idx : /\ idx'[n].keylen = idx[n].keylen
                             /\ idx'[n].datoff = idx[n].datoff
                             /\ idx'[n].datlen = idx[n].datlen
    /\ \A n \in DOMAIN dat : dat'[n].len = dat[n].len

\* Only p moves.
Alone(p) ==
    \A q \in Procs : q # p =>
        pc'[q] = pc[q] /\ db'[q] = db[q] /\ call'[q] = call[q]

LEMMA Domains ==
    ASSUME TypeOK
    PROVE  /\ DOMAIN idx = 1 .. Len(idx) /\ Len(idx) \in Nat
           /\ DOMAIN dat = 1 .. Len(dat) /\ Len(dat) \in Nat
           /\ idx \in Seq(IdxRec) /\ dat \in Seq(DatRec)
BY LenProperties DEF TypeOK

LEMMA NextDomains ==
    ASSUME TypeOK'
    PROVE  /\ DOMAIN idx' = 1 .. Len(idx') /\ Len(idx') \in Nat
           /\ DOMAIN dat' = 1 .. Len(dat') /\ Len(dat') \in Nat
BY LenProperties DEF TypeOK

\* A step that keeps the shape of the files keeps the invariant if it keeps
\* what concerns the process that takes it.
LEMMA ShapeKept ==
    ASSUME TypeOK, TypeOK', DataInv, NEW p \in Procs, Alone(p), SameShape,
           HandleOK(p)',
           pc'[p] \in FreshPoints =>
               pc[p] \in FreshPoints /\ db'[p].datoff = db[p].datoff
    PROVE  DataInv' /\ RecordsKept
<1>0. /\ DOMAIN idx' = DOMAIN idx /\ DOMAIN dat' = DOMAIN dat
      /\ Len(idx') = Len(idx) /\ Len(dat') = Len(dat)
  BY Domains, NextDomains DEF SameShape
<1>1. DataOwned'
  BY <1>0 DEF DataInv, DataOwned, SameShape
<1>2. FreshDistinct'
  BY DEF DataInv, FreshDistinct, Alone
<1>3. ASSUME NEW q \in Procs
      PROVE  HandleOK(q)'
  <2>1. CASE q = p
    BY <2>1
  <2>2. CASE q # p
    <3>1. pc'[q] = pc[q] /\ db'[q] = db[q] /\ call'[q] = call[q]
      BY <2>2 DEF Alone
    <3>2. HandleOK(q)
      BY DEF DataInv
    <3>3. Matches(q) => Matches(q)'
      BY <1>0, <3>1 DEF Matches, SameShape
    <3>4. Fresh(q) => Fresh(q)'
      BY <1>0, <3>1 DEF Fresh, SameShape
    <3> QED BY <1>0, <3>1, <3>2, <3>3, <3>4 DEF HandleOK, HasFreeRecord
  <2> QED BY <2>1, <2>2
<1>4. RecordsKept
  BY <1>0 DEF RecordsKept, SameShape
<1> QED BY <1>1, <1>2, <1>3, <1>4 DEF DataInv

\* The files are not written.
LEMMA FilesUnchanged ==
    ASSUME TypeOK, idx' = idx, dat' = dat
    PROVE  SameShape
BY DEF SameShape

\* A chain pointer is written.
LEMMA WriteptrShape ==
    ASSUME TypeOK, NEW off \in Cells, NEW v \in Nat, Writeptr(off, v), dat' = dat
    PROVE  SameShape
<1>1. \A n \in DOMAIN idx : idx[n] \in IdxRec
  BY Domains, ElementOfSeq
<1>2. Len(idx') = Len(idx)
      /\ \A n \in DOMAIN idx : idx'[n] = [idx[n] EXCEPT !.ptr = idx'[n].ptr]
  BY WriteptrProperties
<1> QED BY <1>1, <1>2 DEF SameShape, IdxRec

\* A data record is overwritten with one of the same length.
LEMMA DatShape ==
    ASSUME TypeOK, TypeOK', NEW n \in DOMAIN dat, NEW rec \in DatRec, rec.len = dat[n].len,
           dat' = Put(dat, n, rec), idx' = idx
    PROVE  SameShape
<1>0. n \in 1 .. Len(dat) /\ Len(dat) \in Nat
  BY Domains
<1>a. n # Len(dat) + 1
  BY <1>0
<1>2. dat' = [dat EXCEPT ![n] = rec]
  BY <1>a DEF Put
<1>3. DOMAIN dat' = DOMAIN dat
  BY <1>2
<1>4. Len(dat') = Len(dat)
  BY <1>3, Domains, NextDomains
<1> QED BY <1>2, <1>4 DEF SameShape

\* An index record is overwritten with one of the same lengths and place.
LEMMA IdxShape ==
    ASSUME TypeOK, TypeOK', NEW n \in DOMAIN idx, NEW rec \in IdxRec,
           rec.keylen = idx[n].keylen, rec.datoff = idx[n].datoff,
           rec.datlen = idx[n].datlen,
           idx' = Put(idx, n, rec), dat' = dat
    PROVE  SameShape
<1>0. n \in 1 .. Len(idx) /\ Len(idx) \in Nat
  BY Domains
<1>a. n # Len(idx) + 1
  BY <1>0
<1>2. idx' = [idx EXCEPT ![n] = rec]
  BY <1>a DEF Put
<1>3. DOMAIN idx' = DOMAIN idx
  BY <1>2
<1>4. Len(idx') = Len(idx)
  BY <1>3, Domains, NextDomains
<1> QED BY <1>2, <1>4 DEF SameShape

\* What a step of p says of p and of the others.
LEMMA StepEffect ==
    ASSUME TypeOK, NEW p \in Procs, NEW from, NEW to, Step(p, from, to)
    PROVE  /\ pc[p] = from /\ pc'[p] = to /\ call' = call
           /\ db' = db => Alone(p)
           /\ \A h : Handles(p, h) => Alone(p) /\ db'[p] = h
BY DEF TypeOK, Step, Alone, Handles

\* At these points the invariant asks something of the handle.
Demanding == DeletingPoints \cup ReusePoints \cup FreshPoints
             \cup {"overwrite", "dat_append", "ff_unlock"}

LEMMA QuietStep ==
    ASSUME TypeOK, TypeOK', DataInv, NEW p \in Procs, Alone(p), SameShape,
           pc'[p] \notin Demanding
    PROVE  DataInv' /\ RecordsKept
<1>1. HandleOK(p)' /\ pc'[p] \notin FreshPoints
  BY DEF HandleOK, HasFreeRecord, Demanding, FreshPoints, DeletingPoints, ReusePoints
<1> QED BY <1>1, ShapeKept

\* What a handle knows of the files stays true while neither changes.
LEMMA Carried ==
    ASSUME TypeOK, TypeOK', NEW p \in Procs, SameShape,
           db'[p].datoff = db[p].datoff, db'[p].datlen = db[p].datlen
    PROVE  /\ Fresh(p) => Fresh(p)'
           /\ (/\ db'[p].idxoff = db[p].idxoff /\ db'[p].keylen = db[p].keylen
               /\ Matches(p)) => Matches(p)'
<1>1. DOMAIN idx' = DOMAIN idx /\ DOMAIN dat' = DOMAIN dat
  BY Domains, NextDomains DEF SameShape
<1> QED BY <1>1 DEF Fresh, Matches, SameShape

\* A step that takes or drops a lock.
LEMMA LockEffect ==
    ASSUME TypeOK, NEW p \in Procs, NEW from, NEW r, NEW t, NEW to,
           Lock(p, from, r, t, to) \/ Unlock(p, from, r, to)
    PROVE  /\ pc[p] = from /\ pc'[p] = to
           /\ Alone(p) /\ SameShape
           /\ db'[p] = db[p] /\ call'[p] = call[p]
<1>1. Step(p, from, to) /\ db' = db /\ idx' = idx /\ dat' = dat
  BY DEF Lock, Unlock, files
<1> QED BY <1>1, StepEffect, FilesUnchanged

LEMMA ReturnEffect ==
    ASSUME TypeOK, NEW p \in Procs, NEW from, NEW r, Return(p, from, r)
    PROVE  pc'[p] = "idle" /\ Alone(p) /\ SameShape
<1>1. db' = db /\ idx' = idx /\ dat' = dat
  BY DEF Return, files, proc
<1>2. /\ pc' = [pc EXCEPT ![p] = "idle"]
      /\ call' = [call EXCEPT ![p] = Abs!Idle]
  BY DEF Return
<1> QED BY <1>1, <1>2, FilesUnchanged DEF TypeOK, Alone

-----------------------------------------------------------------------------
\* _db_find_and_lock

LEMMA FoundData ==
    ASSUME TypeOK, CallOK, TypeOK', DataInv, NEW p \in Procs, Found(p)
    PROVE  DataInv' /\ RecordsKept
<1> DEFINE n == db[p].cur
           h == Readidx(p, n)
<1>1. n \in DOMAIN idx /\ h \in Handle /\ idx[n] \in IdxRec
  BY ReadidxType DEF Found
<1>2. Step(p, "walk", AfterFound(call[p], idx[n].datlen)) /\ Handles(p, h)
      /\ idx' = idx /\ dat' = dat
  BY DEF Found, files
<1>3. /\ pc[p] = "walk" /\ pc'[p] = AfterFound(call[p], idx[n].datlen)
      /\ call'[p] = call[p] /\ Alone(p) /\ db'[p] = h
  BY <1>1, <1>2, StepEffect
<1>4. SameShape
  BY <1>2, FilesUnchanged
<1>5. /\ h.idxoff = n /\ h.keylen = idx[n].keylen
      /\ h.datoff = idx[n].datoff /\ h.datlen = idx[n].datlen
  <2>1. db[p] \in Handle
    BY ProcType
  <2> QED BY <2>1 DEF Readidx, Handle
<1>6. Matches(p)'
  <2> HIDE DEF h
  <2> QED BY <1>1, <1>2, <1>3, <1>5 DEF Matches
<1>7. call[p].op \in {"fetch", "delete", "store"}
  BY <1>3 DEF CallOK, KeyPoints, FindPoints
<1>8. /\ pc'[p] \in {"readdat", "del_lock", "unlock_chain", "overwrite"}
      /\ pc'[p] = "overwrite" => DatLen[call[p].data] = idx[n].datlen
  BY <1>3, <1>7 DEF AfterFound
<1>9. HandleOK(p)' /\ pc'[p] \notin FreshPoints
  <2> HIDE DEF h
  <2> QED BY <1>3, <1>5, <1>6, <1>8 DEF HandleOK, HasFreeRecord, DeletingPoints, FreshPoints, ReusePoints
<1> QED BY <1>3, <1>4, <1>9, ShapeKept

LEMMA FindData ==
    ASSUME TypeOK, CallOK, TypeOK', DataInv, NEW p \in Procs, FindStep(p)
    PROVE  DataInv' /\ RecordsKept
<1>1. CASE LockChain(p)
  <2>1. pc'[p] = "read_chain" /\ Alone(p) /\ SameShape
    BY <1>1, LockEffect DEF LockChain
  <2> QED BY <2>1, QuietStep DEF Demanding, DeletingPoints, FreshPoints, ReusePoints
<1>2. CASE ReadChain(p)
  <2>1. Step(p, "read_chain", "walk") /\ idx' = idx /\ dat' = dat
    BY <1>2 DEF ReadChain, files
  <2>2. \E h : Handles(p, h)
    BY <1>2 DEF ReadChain
  <2>3. pc'[p] = "walk" /\ Alone(p)
    BY <2>1, <2>2, StepEffect
  <2> QED BY <2>1, <2>3, QuietStep, FilesUnchanged
          DEF Demanding, DeletingPoints, FreshPoints, ReusePoints
<1>3. CASE WalkOn(p)
  <2>1. Step(p, "walk", "walk") /\ idx' = idx /\ dat' = dat
    BY <1>3 DEF WalkOn, files
  <2>2. \E h : Handles(p, h)
    BY <1>3 DEF WalkOn
  <2>3. pc'[p] = "walk" /\ Alone(p)
    BY <2>1, <2>2, StepEffect
  <2> QED BY <2>1, <2>3, QuietStep, FilesUnchanged
          DEF Demanding, DeletingPoints, FreshPoints, ReusePoints
<1>4. CASE Found(p)
  BY <1>4, FoundData
<1>5. CASE NotFound(p)
  <2>1. /\ Step(p, "walk", "read_head") \/ Step(p, "walk", "unlock_chain")
        /\ idx' = idx /\ dat' = dat /\ db' = db
    BY <1>5 DEF NotFound, files
  <2>2. pc'[p] \in {"read_head", "unlock_chain"} /\ Alone(p)
    BY <2>1, StepEffect
  <2> QED BY <2>1, <2>2, QuietStep, FilesUnchanged
          DEF Demanding, DeletingPoints, FreshPoints, ReusePoints
<1>6. CASE FetchData(p)
  <2>1. Step(p, "readdat", "unlock_chain") /\ idx' = idx /\ dat' = dat /\ db' = db
    BY <1>6 DEF FetchData, files
  <2>2. pc'[p] = "unlock_chain" /\ Alone(p)
    BY <2>1, StepEffect
  <2> QED BY <2>1, <2>2, QuietStep, FilesUnchanged
          DEF Demanding, DeletingPoints, FreshPoints, ReusePoints
<1>7. CASE UnlockChain(p)
  <2>1. pc'[p] = "idle" /\ Alone(p) /\ SameShape
    BY <1>7, ReturnEffect DEF UnlockChain
  <2> QED BY <2>1, QuietStep DEF Demanding, DeletingPoints, FreshPoints, ReusePoints
<1> QED BY <1>1, <1>2, <1>3, <1>4, <1>5, <1>6, <1>7 DEF FindStep

-----------------------------------------------------------------------------
\* _db_dodelete

LEMMA DelWriteidxData ==
    ASSUME TypeOK, CallOK, TypeOK', DataInv, NEW p \in Procs, DelWriteidx(p)
    PROVE  DataInv' /\ RecordsKept
<1> DEFINE n == db[p].idxoff
           rec == [ptr |-> db[p].freeptr, key |-> BLANK, keylen |-> db[p].keylen,
                   datoff |-> db[p].datoff, datlen |-> db[p].datlen]
<1>1. /\ Step(p, "del_idx", "del_setfree") /\ idx' = Put(idx, n, rec) /\ dat' = dat
      /\ Handles(p, [db[p] EXCEPT !.ptrval = db[p].freeptr])
  BY DEF DelWriteidx
<1>2. pc[p] = "del_idx" /\ pc'[p] = "del_setfree" /\ Alone(p)
  <2> HIDE DEF rec
  <2> QED BY <1>1, StepEffect
<1>3. HandleOK(p)
  BY DEF DataInv
<1>4. Matches(p)
  BY <1>2, <1>3 DEF HandleOK, DeletingPoints
<1>5. rec \in IdxRec
  <2>1. db[p] \in Handle
    BY ProcType
  <2> QED BY <2>1 DEF Handle, IdxRec
<1>6. /\ n \in DOMAIN idx /\ rec.keylen = idx[n].keylen
      /\ rec.datoff = idx[n].datoff /\ rec.datlen = idx[n].datlen
  BY <1>4 DEF Matches
<1>7. SameShape
  <2> HIDE DEF rec, n
  <2> QED BY <1>1, <1>5, <1>6, IdxShape
<1> QED BY <1>2, <1>7, QuietStep DEF Demanding, DeletingPoints, FreshPoints, ReusePoints

\* A data record written where a handle that matches its index record says.
LEMMA OwnedDat ==
    ASSUME TypeOK, DataInv, NEW p \in Procs, Matches(p)
    PROVE  db[p].datoff \in DOMAIN dat /\ dat[db[p].datoff].len = db[p].datlen
BY DEF DataInv, DataOwned, Matches

LEMMA DelWritedatData ==
    ASSUME TypeOK, CallOK, TypeOK', DataInv, NEW p \in Procs, DelWritedat(p)
    PROVE  DataInv' /\ RecordsKept
<1> DEFINE rec == [len |-> db[p].datlen, data |-> BLANK]
<1>1. /\ Step(p, "del_dat", "del_readfree") /\ idx' = idx /\ db' = db
      /\ dat' = Put(dat, db[p].datoff, rec)
  BY DEF DelWritedat
<1>2. /\ pc[p] = "del_dat" /\ pc'[p] = "del_readfree" /\ Alone(p)
      /\ db'[p] = db[p]
  BY <1>1, StepEffect
<1>3. Matches(p)
  BY <1>2 DEF DataInv, HandleOK, DeletingPoints
<1>4. rec \in DatRec
  <2>1. db[p] \in Handle
    BY ProcType
  <2> QED BY <2>1 DEF Handle, DatRec
<1>5. SameShape
  <2>1. rec.len = db[p].datlen
    OBVIOUS
  <2> HIDE DEF rec
  <2> QED BY <1>1, <1>3, <1>4, <2>1, OwnedDat, DatShape
<1>6. Matches(p)'
  BY <1>2, <1>3, <1>5, Carried
<1>7. HandleOK(p)' /\ pc'[p] \notin FreshPoints
  BY <1>2, <1>6 DEF HandleOK, HasFreeRecord, FreshPoints, ReusePoints
<1> QED BY <1>2, <1>5, <1>7, ShapeKept

LEMMA DeleteData ==
    ASSUME TypeOK, CallOK, TypeOK', DataInv, NEW p \in Procs, DeleteStep(p)
    PROVE  DataInv' /\ RecordsKept
<1>1. CASE DelLock(p)
  <2>1. /\ pc[p] = "del_lock" /\ pc'[p] = "del_dat" /\ Alone(p) /\ SameShape
        /\ db'[p] = db[p]
    BY <1>1, LockEffect DEF DelLock
  <2>2. Matches(p)
    BY <2>1 DEF DataInv, HandleOK, DeletingPoints
  <2>3. Matches(p)'
    BY <2>1, <2>2, Carried
  <2>4. HandleOK(p)' /\ pc'[p] \notin FreshPoints
    BY <2>1, <2>3 DEF HandleOK, HasFreeRecord, FreshPoints, ReusePoints
  <2> QED BY <2>1, <2>4, ShapeKept
<1>2. CASE DelWritedat(p)
  BY <1>2, DelWritedatData
<1>3. CASE DelReadfree(p)
  <2> DEFINE h == [db[p] EXCEPT !.freeptr = Readptr(FREE_OFF), !.saveptr = db[p].ptrval]
  <2>0. /\ Step(p, "del_readfree", "del_idx") /\ Handles(p, h)
        /\ idx' = idx /\ dat' = dat
    BY <1>3 DEF DelReadfree, files
  <2>1. pc[p] = "del_readfree" /\ pc'[p] = "del_idx" /\ Alone(p) /\ db'[p] = h
    <3> HIDE DEF h
    <3> QED BY <2>0, StepEffect
  <2>2. /\ h.idxoff = db[p].idxoff /\ h.keylen = db[p].keylen
        /\ h.datoff = db[p].datoff /\ h.datlen = db[p].datlen
    <3>1. db[p] \in Handle
      BY ProcType
    <3> QED BY <3>1 DEF Handle
  <2>3. SameShape
    BY <2>0, FilesUnchanged
  <2>4. Matches(p)
    BY <2>1 DEF DataInv, HandleOK, DeletingPoints
  <2>5. Matches(p)'
    <3> HIDE DEF h
    <3> QED BY <2>1, <2>2, <2>3, <2>4, Carried
  <2>6. HandleOK(p)' /\ pc'[p] \notin FreshPoints
    <3> HIDE DEF h
    <3> QED BY <2>1, <2>5 DEF HandleOK, HasFreeRecord, FreshPoints, ReusePoints
  <2> QED BY <2>1, <2>3, <2>6, ShapeKept
<1>4. CASE DelWriteidx(p)
  BY <1>4, DelWriteidxData
<1>5. CASE DelSetfree(p)
  <2>1. /\ Step(p, "del_setfree", "del_unlink") /\ dat' = dat /\ db' = db
        /\ Writeptr(FREE_OFF, db[p].idxoff)
    BY <1>5 DEF DelSetfree
  <2>2. FREE_OFF \in Cells /\ db[p].idxoff \in Nat
    BY ProcType DEF Cells, Handle
  <2>3. SameShape
    BY <2>1, <2>2, WriteptrShape
  <2>4. pc[p] = "del_setfree" /\ pc'[p] = "del_unlink" /\ Alone(p) /\ db'[p] = db[p]
    BY <2>1, StepEffect
  <2> QED BY <2>3, <2>4, QuietStep DEF Demanding, DeletingPoints, FreshPoints, ReusePoints
<1>6. CASE DelUnlink(p)
  <2>1. /\ Step(p, "del_unlink", "del_unlock") /\ dat' = dat /\ db' = db
        /\ Writeptr(db[p].ptroff, db[p].saveptr)
    BY <1>6 DEF DelUnlink
  <2>2. db[p].ptroff \in Cells /\ db[p].saveptr \in Nat
    BY ProcType DEF Cells, Handle
  <2>3. SameShape
    BY <2>1, <2>2, WriteptrShape
  <2>4. pc[p] = "del_unlink" /\ pc'[p] = "del_unlock" /\ Alone(p) /\ db'[p] = db[p]
    BY <2>1, StepEffect
  <2> QED BY <2>3, <2>4, QuietStep DEF Demanding, DeletingPoints, FreshPoints, ReusePoints
<1>7. CASE DelUnlock(p)
  <2>1. pc'[p] \in {"unlock_chain", "reread_head"} /\ Alone(p) /\ SameShape
    BY <1>7, LockEffect DEF DelUnlock
  <2> QED BY <2>1, QuietStep DEF Demanding, DeletingPoints, FreshPoints, ReusePoints
<1> QED BY <1>1, <1>2, <1>3, <1>4, <1>5, <1>6, <1>7 DEF DeleteStep

-----------------------------------------------------------------------------
\* _db_findfree

LEMMA FreeFoundData ==
    ASSUME TypeOK, CallOK, TypeOK', DataInv, NEW p \in Procs, FreeFound(p)
    PROVE  DataInv' /\ RecordsKept
<1> DEFINE n == db[p].cur
           h == Readidx(p, n)
<1>1. /\ Step(p, "ff_walk", "ff_unlink") /\ Handles(p, h)
      /\ idx' = idx /\ dat' = dat
      /\ n \in DOMAIN idx /\ Fits(p, n)
  BY DEF FreeFound, files
<1>2. /\ pc'[p] = "ff_unlink" /\ call'[p] = call[p] /\ Alone(p) /\ db'[p] = h
  <2> HIDE DEF h
  <2> QED BY <1>1, StepEffect
<1>3. SameShape
  BY <1>1, FilesUnchanged
<1>4. /\ h.idxoff = n /\ h.keylen = idx[n].keylen
      /\ h.datoff = idx[n].datoff /\ h.datlen = idx[n].datlen
  <2>1. db[p] \in Handle
    BY ProcType
  <2> QED BY <2>1 DEF Readidx, Handle
<1>5. Matches(p)'
  <2> HIDE DEF h
  <2> QED BY <1>1, <1>2, <1>4 DEF Matches
<1>6. HandleOK(p)' /\ pc'[p] \notin FreshPoints
  <2> HIDE DEF h
  <2> QED BY <1>1, <1>2, <1>4, <1>5
          DEF HandleOK, HasFreeRecord, DeletingPoints, FreshPoints, Fits
<1> QED BY <1>2, <1>3, <1>6, ShapeKept

LEMMA FreeData ==
    ASSUME TypeOK, CallOK, TypeOK', DataInv, NEW p \in Procs, FreeStep(p)
    PROVE  DataInv' /\ RecordsKept
<1>1. CASE FreeLock(p)
  <2>1. pc'[p] \in {"ff_read"} /\ Alone(p) /\ SameShape
    BY <1>1, LockEffect DEF FreeLock
  <2> QED BY <2>1, QuietStep DEF Demanding, DeletingPoints, FreshPoints, ReusePoints
<1>2. CASE FreeRead(p)
  <2>1. Step(p, "ff_read", "ff_walk") /\ idx' = idx /\ dat' = dat
    BY <1>2 DEF FreeRead, files
  <2>2. \E h : Handles(p, h)
    BY <1>2 DEF FreeRead
  <2>3. pc'[p] = "ff_walk" /\ Alone(p)
    BY <2>1, <2>2, StepEffect
  <2> QED BY <2>1, <2>3, QuietStep, FilesUnchanged
          DEF Demanding, DeletingPoints, FreshPoints, ReusePoints
<1>3. CASE FreeWalkOn(p)
  <2>1. Step(p, "ff_walk", "ff_walk") /\ idx' = idx /\ dat' = dat
    BY <1>3 DEF FreeWalkOn, files
  <2>2. \E h : Handles(p, h)
    BY <1>3 DEF FreeWalkOn
  <2>3. pc'[p] = "ff_walk" /\ Alone(p)
    BY <2>1, <2>2, StepEffect
  <2> QED BY <2>1, <2>3, QuietStep, FilesUnchanged
          DEF Demanding, DeletingPoints, FreshPoints, ReusePoints
<1>4. CASE FreeFound(p)
  BY <1>4, FreeFoundData
<1>5. CASE FreeNone(p)
  <2>1. /\ Step(p, "ff_walk", "ff_unlock") /\ db[p].cur = 0
        /\ idx' = idx /\ dat' = dat /\ db' = db
    BY <1>5 DEF FreeNone, files
  <2>2. pc'[p] = "ff_unlock" /\ Alone(p) /\ db'[p].cur = 0
    BY <2>1, StepEffect
  <2>3. HandleOK(p)' /\ pc'[p] \notin FreshPoints
    BY <2>2 DEF HandleOK, HasFreeRecord, DeletingPoints, FreshPoints, ReusePoints
  <2> QED BY <2>1, <2>2, <2>3, ShapeKept, FilesUnchanged
<1>6. CASE FreeUnlink(p)
  <2>1. /\ Step(p, "ff_unlink", "ff_unlock") /\ dat' = dat /\ db' = db
        /\ Writeptr(db[p].saveoffset, db[p].ptrval)
    BY <1>6 DEF FreeUnlink
  <2>2. db[p].saveoffset \in Cells /\ db[p].ptrval \in Nat
    BY ProcType DEF Cells, Handle
  <2>3. SameShape
    BY <2>1, <2>2, WriteptrShape
  <2>4. /\ pc[p] = "ff_unlink" /\ pc'[p] = "ff_unlock" /\ Alone(p)
        /\ db'[p] = db[p] /\ call'[p] = call[p]
    BY <2>1, StepEffect
  <2>5. /\ Matches(p) /\ db[p].keylen = KeyLen[call[p].key]
        /\ db[p].datlen = DatLen[call[p].data]
    BY <2>4 DEF DataInv, HandleOK, HasFreeRecord, ReusePoints
  <2>6. Matches(p)'
    BY <2>3, <2>4, <2>5, Carried
  <2>7. HandleOK(p)' /\ pc'[p] \notin FreshPoints
    BY <2>4, <2>5, <2>6 DEF HandleOK, HasFreeRecord, DeletingPoints, FreshPoints
  <2> QED BY <2>3, <2>4, <2>7, ShapeKept
<1>7. CASE FreeUnlock(p)
  <2> DEFINE to == IF db[p].cur = 0 THEN "dat_lock" ELSE "reuse_dat"
  <2>0. Unlock(p, "ff_unlock", FREE_OFF, to)
    BY <1>7 DEF FreeUnlock
  <2>1. /\ pc[p] = "ff_unlock" /\ Alone(p) /\ SameShape /\ pc'[p] = to
        /\ db'[p] = db[p] /\ call'[p] = call[p]
    <3> HIDE DEF to
    <3> QED BY <2>0, LockEffect
  <2>2. CASE db[p].cur = 0
    BY <2>1, <2>2, QuietStep DEF Demanding, DeletingPoints, FreshPoints, ReusePoints
  <2>3. CASE db[p].cur # 0
    <3>1. /\ Matches(p) /\ db[p].keylen = KeyLen[call[p].key]
          /\ db[p].datlen = DatLen[call[p].data]
      BY <2>1, <2>3 DEF DataInv, HandleOK, HasFreeRecord
    <3>2. Matches(p)'
      BY <2>1, <3>1, Carried
    <3>3. HandleOK(p)' /\ pc'[p] \notin FreshPoints
      BY <2>1, <2>3, <3>1, <3>2
         DEF HandleOK, HasFreeRecord, DeletingPoints, FreshPoints
    <3> QED BY <2>1, <3>3, ShapeKept
  <2> QED BY <2>2, <2>3
<1> QED BY <1>1, <1>2, <1>3, <1>4, <1>5, <1>6, <1>7 DEF FreeStep

-----------------------------------------------------------------------------
\* The rest of db_store

LEMMA ReuseWritedatData ==
    ASSUME TypeOK, CallOK, TypeOK', DataInv, NEW p \in Procs, ReuseWritedat(p)
    PROVE  DataInv' /\ RecordsKept
<1> DEFINE len == DatLen[call[p].data]
           rec == [len |-> len, data |-> call[p].data]
           h == [db[p] EXCEPT !.datlen = len]
<1>1. /\ Step(p, "reuse_dat", "reuse_idx") /\ idx' = idx
      /\ dat' = Put(dat, db[p].datoff, rec) /\ Handles(p, h)
  BY DEF ReuseWritedat, WritedatAt
<1>2. /\ pc[p] = "reuse_dat" /\ pc'[p] = "reuse_idx" /\ Alone(p)
      /\ db'[p] = h /\ call'[p] = call[p]
  <2> HIDE DEF h, rec
  <2> QED BY <1>1, StepEffect
<1>3. Matches(p) /\ db[p].keylen = KeyLen[call[p].key] /\ db[p].datlen = len
  BY <1>2 DEF DataInv, HandleOK, HasFreeRecord, ReusePoints
<1>4. h = db[p]
  <2>1. db[p] \in Handle
    BY ProcType
  <2> QED BY <1>3, <2>1 DEF Handle
<1>5. rec \in DatRec /\ rec.len = db[p].datlen
  <2>1. call[p].data \in Data /\ len \in Nat
    BY <1>2, StoreCallData DEF StoreOnlyPoints, StorePoints
  <2> QED BY <1>3, <2>1 DEF DatRec
<1>6. SameShape
  <2> HIDE DEF rec, len, h
  <2> QED BY <1>1, <1>3, <1>5, OwnedDat, DatShape
<1>7. Matches(p)'
  <2> HIDE DEF h
  <2> QED BY <1>2, <1>3, <1>4, <1>6, Carried
<1>8. HandleOK(p)' /\ pc'[p] \notin FreshPoints
  <2> HIDE DEF h
  <2> QED BY <1>2, <1>3, <1>4, <1>7
          DEF HandleOK, HasFreeRecord, DeletingPoints, FreshPoints
<1> QED BY <1>2, <1>6, <1>8, ShapeKept

LEMMA OverwriteData ==
    ASSUME TypeOK, CallOK, TypeOK', DataInv, NEW p \in Procs, Overwrite(p)
    PROVE  DataInv' /\ RecordsKept
<1> DEFINE len == DatLen[call[p].data]
           rec == [len |-> len, data |-> call[p].data]
           h == [db[p] EXCEPT !.datlen = len]
<1>1. /\ Step(p, "overwrite", "unlock_chain") /\ idx' = idx
      /\ dat' = Put(dat, db[p].datoff, rec) /\ Handles(p, h)
  BY DEF Overwrite, WritedatAt
<1>2. pc[p] = "overwrite" /\ pc'[p] = "unlock_chain" /\ Alone(p)
  <2> HIDE DEF h, rec
  <2> QED BY <1>1, StepEffect
<1>3. Matches(p) /\ db[p].datlen = len
  BY <1>2 DEF DataInv, HandleOK
<1>4. rec \in DatRec /\ rec.len = db[p].datlen
  <2>1. call[p].data \in Data /\ len \in Nat
    BY <1>2, StoreCallData DEF StoreOnlyPoints, StorePoints
  <2> QED BY <1>3, <2>1 DEF DatRec
<1>5. SameShape
  <2> HIDE DEF rec, len, h
  <2> QED BY <1>1, <1>3, <1>4, OwnedDat, DatShape
<1> QED BY <1>2, <1>5, QuietStep DEF Demanding, DeletingPoints, FreshPoints, ReusePoints

\* The index record of a store, as its type and its three fixed fields.
LEMMA NewIdxFields ==
    ASSUME TypeOK, CallOK, NEW p \in Procs, pc[p] \in StoreOnlyPoints
    PROVE  /\ NewIdx(p) \in IdxRec
           /\ NewIdx(p).keylen = KeyLen[call[p].key]
           /\ NewIdx(p).datoff = db[p].datoff
           /\ NewIdx(p).datlen = db[p].datlen
<1>1. db[p] \in Handle
  BY ProcType
<1>2. call[p].key \in Keys /\ KeyLen[call[p].key] \in Nat
  BY StoreCallData
<1> QED BY <1>1, <1>2 DEF NewIdx, IdxRec, Handle

LEMMA ReuseWriteidxData ==
    ASSUME TypeOK, CallOK, TypeOK', DataInv, NEW p \in Procs, ReuseWriteidx(p)
    PROVE  DataInv' /\ RecordsKept
<1>1. /\ Step(p, "reuse_idx", "link") /\ dat' = dat
      /\ idx' = Put(idx, db[p].idxoff, NewIdx(p))
      /\ \E h : Handles(p, h)
  BY DEF ReuseWriteidx
<1>2. pc[p] = "reuse_idx" /\ pc'[p] = "link" /\ Alone(p)
  BY <1>1, StepEffect
<1>3. Matches(p) /\ db[p].keylen = KeyLen[call[p].key]
  BY <1>2 DEF DataInv, HandleOK, HasFreeRecord, ReusePoints
<1>4. /\ NewIdx(p) \in IdxRec
      /\ NewIdx(p).keylen = KeyLen[call[p].key]
      /\ NewIdx(p).datoff = db[p].datoff /\ NewIdx(p).datlen = db[p].datlen
  BY <1>2, NewIdxFields DEF StoreOnlyPoints, StorePoints
<1>5. SameShape
  BY <1>1, <1>3, <1>4, IdxShape DEF Matches
<1> QED BY <1>2, <1>5, QuietStep DEF Demanding, DeletingPoints, FreshPoints, ReusePoints

LEMMA StoreData ==
    ASSUME TypeOK, CallOK, TypeOK', DataInv, NEW p \in Procs, StoreStep(p)
    PROVE  DataInv' /\ RecordsKept
<1>1. CASE ReadHead(p)
  <2>1. /\ Step(p, "read_head", "ff_lock") \/ Step(p, "reread_head", "dat_lock")
        /\ idx' = idx /\ dat' = dat /\ \E h : Handles(p, h)
    BY <1>1 DEF ReadHead, files
  <2>2. pc'[p] \in {"ff_lock", "dat_lock"} /\ Alone(p)
    BY <2>1, StepEffect
  <2> QED BY <2>1, <2>2, QuietStep, FilesUnchanged
          DEF Demanding, DeletingPoints, FreshPoints, ReusePoints
<1>2. CASE ReuseWritedat(p)
  BY <1>2, ReuseWritedatData
<1>3. CASE ReuseWriteidx(p)
  BY <1>3, ReuseWriteidxData
<1>4. CASE Link(p)
  <2>1. /\ Step(p, "link", "unlock_chain") /\ dat' = dat /\ db' = db
        /\ Writeptr(ChainOff(p), db[p].idxoff)
    BY <1>4 DEF Link
  <2>2. pc'[p] = "unlock_chain" /\ Alone(p) /\ pc[p] = "link"
    BY <2>1, StepEffect
  <2>3. ChainOff(p) \in Cells /\ db[p].idxoff \in Nat
    <3>1. pc[p] \in KeyPoints
      BY <2>2 DEF KeyPoints, StoreOnlyPoints, StorePoints
    <3>2. ChainOff(p) \in Chains
      BY <3>1, KeyedCall
    <3> QED BY <3>2, ProcType DEF Cells, Handle
  <2>4. SameShape
    BY <2>1, <2>3, WriteptrShape
  <2> QED BY <2>2, <2>4, QuietStep DEF Demanding, DeletingPoints, FreshPoints, ReusePoints
<1>5. CASE Overwrite(p)
  BY <1>5, OverwriteData
<1> QED BY <1>1, <1>2, <1>3, <1>4, <1>5 DEF StoreStep

-----------------------------------------------------------------------------
\* The two appends of db_store

\* What an append leaves: the old records, and the new one at the end.
LEMMA Appended ==
    ASSUME NEW S, NEW file \in Seq(S), NEW rec \in S
    PROVE  /\ Len(Put(file, Len(file) + 1, rec)) = Len(file) + 1
           /\ DOMAIN Put(file, Len(file) + 1, rec) = 1 .. Len(file) + 1
           /\ \A i \in DOMAIN file : Put(file, Len(file) + 1, rec)[i] = file[i]
           /\ Put(file, Len(file) + 1, rec)[Len(file) + 1] = rec
<1>1. Put(file, Len(file) + 1, rec) = Append(file, rec)
  BY DEF Put
<1>2. DOMAIN file = 1 .. Len(file) /\ Len(file) \in Nat
  BY LenProperties
<1>3. /\ Append(file, rec) \in Seq(S)
      /\ Len(Append(file, rec)) = Len(file) + 1
      /\ \A i \in 1 .. Len(file) : Append(file, rec)[i] = file[i]
      /\ Append(file, rec)[Len(file) + 1] = rec
  BY <1>2, AppendProperties
<1>4. DOMAIN Append(file, rec) = 1 .. Len(file) + 1
  BY <1>3, LenProperties
<1> QED BY <1>1, <1>2, <1>3, <1>4

LEMMA DatAppendData ==
    ASSUME TypeOK, CallOK, TypeOK', CriticalSections, DataInv,
           NEW p \in Procs, DatAppend(p)
    PROVE  DataInv' /\ RecordsKept
<1> DEFINE rec == [len |-> db[p].datlen, data |-> call[p].data]
           n == Len(dat) + 1
<1>1. /\ Step(p, "dat_append", "dat_unlock") /\ idx' = idx /\ db' = db
      /\ dat' = Put(dat, db[p].datoff, rec)
  BY DEF DatAppend
<1>2. /\ pc[p] = "dat_append" /\ pc'[p] = "dat_unlock" /\ Alone(p)
      /\ db'[p] = db[p]
  BY <1>1, StepEffect
<1>3. db[p].datoff = n
  BY <1>2 DEF DataInv, HandleOK
<1>4. rec \in DatRec
  <2>1. db[p] \in Handle
    BY ProcType
  <2>2. call[p].data \in Data
    BY <1>2, StoreCallData DEF StoreOnlyPoints, AppendPoints
  <2> QED BY <2>1, <2>2 DEF Handle, DatRec
<1>5. /\ DOMAIN dat' = 1 .. n /\ dat'[n] = rec
      /\ \A i \in DOMAIN dat : dat'[i] = dat[i]
  <2>1. dat \in Seq(DatRec)
    BY Domains
  <2>2. dat' = Put(dat, n, rec)
    BY <1>1, <1>3
  <2> HIDE DEF rec
  <2> QED BY <1>4, <2>1, <2>2, Appended
<1>6. DOMAIN dat = 1 .. Len(dat) /\ Len(dat) \in Nat
  BY Domains
<1>7. DOMAIN dat \subseteq DOMAIN dat' /\ n \in DOMAIN dat' /\ n \notin DOMAIN dat
  BY <1>5, <1>6
<1>8. DataOwned
  BY DEF DataInv
<1>9. DataOwned'
  BY <1>1, <1>5, <1>7, <1>8 DEF DataOwned
<1>10. \A q \in Procs : q # p /\ pc[q] \in FreshPoints => Fresh(q)
  BY DEF DataInv, HandleOK
<1>11. FreshDistinct'
  <2> SUFFICES ASSUME NEW q \in Procs, NEW r \in Procs, q # r,
                      pc'[q] \in FreshPoints, pc'[r] \in FreshPoints
               PROVE  db'[q].datoff # db'[r].datoff
    BY DEF FreshDistinct
  <2>1. \A s \in {q, r} \ {p} : pc[s] \in FreshPoints /\ db[s].datoff # n
    BY <1>2, <1>7, <1>10 DEF Alone, Fresh
  <2>2. q # p /\ r # p => db[q].datoff # db[r].datoff
    BY <2>1 DEF DataInv, FreshDistinct
  <2> QED BY <1>1, <1>3, <2>1, <2>2
<1>12. HandleOK(p)'
  <2>1. Fresh(p)'
    BY <1>1, <1>2, <1>3, <1>5, <1>7, <1>8 DEF Fresh, DataOwned
  <2> QED BY <1>2, <2>1 DEF HandleOK, HasFreeRecord, DeletingPoints, ReusePoints
<1>13. ASSUME NEW q \in Procs, q # p
       PROVE  HandleOK(q)'
  <2>1. pc'[q] = pc[q] /\ db'[q] = db[q] /\ call'[q] = call[q]
    BY <1>2, <1>13 DEF Alone
  <2>2. HandleOK(q)
    BY DEF DataInv
  <2>3. pc[q] # "dat_append"
    BY <1>2, <1>13 DEF CriticalSections, DatHeld
  <2>4. Matches(q) => Matches(q)'
    BY <1>1, <2>1 DEF Matches
  <2>5. Fresh(q) => Fresh(q)'
    BY <1>1, <1>5, <1>7, <2>1 DEF Fresh
  <2>6. Len(idx') = Len(idx)
    BY <1>1
  <2> QED BY <2>1, <2>2, <2>3, <2>4, <2>5, <2>6 DEF HandleOK, HasFreeRecord
<1> QED BY <1>1, <1>9, <1>11, <1>12, <1>13 DEF DataInv, RecordsKept

\* What an append to the index does to its records.
LEMMA IdxAppended ==
    ASSUME TypeOK, CallOK, DataInv, NEW p \in Procs, IdxAppend(p)
    PROVE  /\ DOMAIN idx' = DOMAIN idx \cup {Len(idx) + 1}
           /\ Len(idx) + 1 \notin DOMAIN idx
           /\ idx'[Len(idx) + 1].datoff = db[p].datoff
           /\ idx'[Len(idx) + 1].datlen = db[p].datlen
           /\ \A i \in DOMAIN idx : idx'[i] = idx[i]
<1> DEFINE n == Len(idx) + 1
<1>1. /\ Step(p, "idx_append", "idx_unlock") /\ db' = db
      /\ idx' = Put(idx, db[p].idxoff, NewIdx(p))
  BY DEF IdxAppend
<1>2. pc[p] = "idx_append"
  BY <1>1, StepEffect
<1>3. db[p].idxoff = n
  BY <1>2 DEF DataInv, HandleOK
<1>4. NewIdx(p) \in IdxRec /\ NewIdx(p).datoff = db[p].datoff
      /\ NewIdx(p).datlen = db[p].datlen
  BY <1>2, NewIdxFields DEF StoreOnlyPoints, AppendPoints
<1>5. /\ DOMAIN idx' = 1 .. n /\ idx'[n] = NewIdx(p)
      /\ \A i \in DOMAIN idx : idx'[i] = idx[i]
  <2>1. idx \in Seq(IdxRec)
    BY Domains
  <2>2. idx' = Put(idx, n, NewIdx(p))
    BY <1>1, <1>3
  <2> QED BY <1>4, <2>1, <2>2, Appended
<1>6. DOMAIN idx = 1 .. Len(idx) /\ Len(idx) \in Nat
  BY Domains
<1>7. 1 .. n = (1 .. Len(idx)) \cup {n} /\ n \notin 1 .. Len(idx)
  BY <1>6
<1> QED BY <1>4, <1>5, <1>6, <1>7

LEMMA IdxAppendData ==
    ASSUME TypeOK, CallOK, TypeOK', CriticalSections, DataInv,
           NEW p \in Procs, IdxAppend(p)
    PROVE  DataInv' /\ RecordsKept
<1> DEFINE n == Len(idx) + 1
<1>1. Step(p, "idx_append", "idx_unlock") /\ dat' = dat /\ db' = db
  BY DEF IdxAppend
<1>2. pc[p] = "idx_append" /\ pc'[p] = "idx_unlock" /\ Alone(p)
  BY <1>1, StepEffect
<1>3. /\ DOMAIN idx' = DOMAIN idx \cup {n} /\ n \notin DOMAIN idx
      /\ idx'[n].datoff = db[p].datoff /\ idx'[n].datlen = db[p].datlen
      /\ \A i \in DOMAIN idx : idx'[i] = idx[i]
  BY IdxAppended
<1> HIDE DEF n
<1>4. Fresh(p)
  BY <1>2 DEF DataInv, HandleOK, FreshPoints
<1>5. DataOwned
  BY DEF DataInv
<1>6. DataOwned'
  BY <1>1, <1>3, <1>4, <1>5 DEF DataOwned, Fresh
<1>7. FreshDistinct'
  BY <1>2 DEF DataInv, FreshDistinct, Alone, FreshPoints
<1>8. HandleOK(p)'
  BY <1>2 DEF HandleOK, HasFreeRecord, DeletingPoints, ReusePoints, FreshPoints
<1>9. ASSUME NEW q \in Procs, q # p
      PROVE  HandleOK(q)'
  <2>1. pc'[q] = pc[q] /\ db'[q] = db[q] /\ call'[q] = call[q]
    BY <1>2, <1>9 DEF Alone
  <2>2. HandleOK(q)
    BY DEF DataInv
  <2>3. pc[q] # "idx_append"
    BY <1>2, <1>9 DEF CriticalSections, IdxHeld
  <2>4. Matches(q) => Matches(q)'
    BY <1>3, <2>1 DEF Matches
  <2>5. pc[q] \in FreshPoints /\ Fresh(q) => Fresh(q)'
    <3>1. pc[q] \in FreshPoints => db[q].datoff # db[p].datoff
      BY <1>2, <1>9 DEF DataInv, FreshDistinct, FreshPoints
    <3> QED BY <1>1, <1>3, <2>1, <3>1 DEF Fresh
  <2>6. dat' = dat
    BY <1>1
  <2> QED BY <2>1, <2>2, <2>3, <2>4, <2>5, <2>6 DEF HandleOK, HasFreeRecord
<1> QED BY <1>3, <1>6, <1>7, <1>8, <1>9 DEF DataInv, RecordsKept

LEMMA AppendData ==
    ASSUME TypeOK, CallOK, TypeOK', CriticalSections, DataInv,
           NEW p \in Procs, AppendStep(p)
    PROVE  DataInv' /\ RecordsKept
<1>1. CASE DatLock(p)
  <2>1. pc'[p] \in {"dat_seek"} /\ Alone(p) /\ SameShape
    BY <1>1, LockEffect DEF DatLock
  <2> QED BY <2>1, QuietStep DEF Demanding, DeletingPoints, FreshPoints, ReusePoints
<1>2. CASE DatSeek(p)
  <2> DEFINE h == [db[p] EXCEPT !.datoff = Len(dat) + 1, !.datlen = DatLen[call[p].data]]
  <2>1. Step(p, "dat_seek", "dat_append") /\ Handles(p, h) /\ idx' = idx /\ dat' = dat
    BY <1>2 DEF DatSeek, files
  <2>2. h.datoff = Len(dat) + 1
    <3>1. db[p] \in Handle
      BY ProcType
    <3> QED BY <3>1 DEF Handle
  <2> HIDE DEF h
  <2>3. pc'[p] = "dat_append" /\ Alone(p) /\ db'[p] = h
    BY <2>1, StepEffect
  <2>4. HandleOK(p)' /\ pc'[p] \notin FreshPoints
    BY <2>1, <2>2, <2>3
       DEF HandleOK, HasFreeRecord, DeletingPoints, ReusePoints, FreshPoints
  <2> QED BY <2>1, <2>3, <2>4, ShapeKept, FilesUnchanged
<1>3. CASE DatAppend(p)
  BY <1>3, DatAppendData
<1>4. CASE DatUnlock(p)
  <2>1. /\ pc[p] = "dat_unlock" /\ pc'[p] = "idx_lock" /\ Alone(p) /\ SameShape
        /\ db'[p] = db[p]
    BY <1>4, LockEffect DEF DatUnlock
  <2>2. Fresh(p)
    BY <2>1 DEF DataInv, HandleOK, FreshPoints
  <2>3. Fresh(p)'
    BY <2>1, <2>2, Carried
  <2>4. HandleOK(p)'
    BY <2>1, <2>3 DEF HandleOK, HasFreeRecord, DeletingPoints, ReusePoints
  <2> QED BY <2>1, <2>4, ShapeKept DEF FreshPoints
<1>5. CASE IdxLock(p)
  <2>1. /\ pc[p] = "idx_lock" /\ pc'[p] = "idx_seek" /\ Alone(p) /\ SameShape
        /\ db'[p] = db[p]
    BY <1>5, LockEffect DEF IdxLock
  <2>2. Fresh(p)
    BY <2>1 DEF DataInv, HandleOK, FreshPoints
  <2>3. Fresh(p)'
    BY <2>1, <2>2, Carried
  <2>4. HandleOK(p)'
    BY <2>1, <2>3 DEF HandleOK, HasFreeRecord, DeletingPoints, ReusePoints
  <2> QED BY <2>1, <2>4, ShapeKept DEF FreshPoints
<1>6. CASE IdxSeek(p)
  <2> DEFINE h == [db[p] EXCEPT !.idxoff = Len(idx) + 1, !.ptrval = db[p].chainptr]
  <2>1. Step(p, "idx_seek", "idx_append") /\ Handles(p, h) /\ idx' = idx /\ dat' = dat
    BY <1>6 DEF IdxSeek, files
  <2>2. /\ h.idxoff = Len(idx) + 1
        /\ h.datoff = db[p].datoff /\ h.datlen = db[p].datlen
    <3>1. db[p] \in Handle
      BY ProcType
    <3> QED BY <3>1 DEF Handle
  <2> HIDE DEF h
  <2>3. pc[p] = "idx_seek" /\ pc'[p] = "idx_append" /\ Alone(p) /\ db'[p] = h
    BY <2>1, StepEffect
  <2>4. SameShape
    BY <2>1, FilesUnchanged
  <2>5. Fresh(p)
    BY <2>3 DEF DataInv, HandleOK, FreshPoints
  <2>6. Fresh(p)'
    BY <2>2, <2>3, <2>4, <2>5, Carried
  <2>7. HandleOK(p)'
    BY <2>1, <2>2, <2>3, <2>6 DEF HandleOK, HasFreeRecord, DeletingPoints, ReusePoints
  <2> QED BY <2>2, <2>3, <2>4, <2>7, ShapeKept DEF FreshPoints
<1>7. CASE IdxAppend(p)
  BY <1>7, IdxAppendData
<1>8. CASE IdxUnlock(p)
  <2>1. pc'[p] \in {"link"} /\ Alone(p) /\ SameShape
    BY <1>8, LockEffect DEF IdxUnlock
  <2> QED BY <2>1, QuietStep DEF Demanding, DeletingPoints, FreshPoints, ReusePoints
<1> QED BY <1>1, <1>2, <1>3, <1>4, <1>5, <1>6, <1>7, <1>8 DEF AppendStep

-----------------------------------------------------------------------------
\* db_nextrec

LEMMA ScanFiles ==
    ASSUME TypeOK, CallOK, TypeOK', DataInv, NEW p \in Procs, ScanStep(p)
    PROVE  DataInv' /\ RecordsKept
<1>1. CASE ScanLock(p)
  <2>1. pc'[p] \in {"scan_read"} /\ Alone(p) /\ SameShape
    BY <1>1, LockEffect DEF ScanLock
  <2> QED BY <2>1, QuietStep DEF Demanding, DeletingPoints, FreshPoints, ReusePoints
<1>2. CASE ScanRead(p)
  <2>1. /\ \E to \in {"scan_read", "scan_dat"} : Step(p, "scan_read", to)
        /\ idx' = idx /\ dat' = dat /\ \E h : Handles(p, h)
    BY <1>2 DEF ScanRead, files
  <2>2. pc'[p] \in {"scan_read", "scan_dat"} /\ Alone(p)
    BY <2>1, StepEffect
  <2> QED BY <2>1, <2>2, QuietStep, FilesUnchanged
          DEF Demanding, DeletingPoints, FreshPoints, ReusePoints
<1>3. CASE ScanEof(p)
  <2>1. Step(p, "scan_read", "scan_unlock") /\ idx' = idx /\ dat' = dat
    BY <1>3 DEF ScanEof, files
  <2>2. \E h : Handles(p, h)
    BY <1>3 DEF ScanEof
  <2>3. pc'[p] = "scan_unlock" /\ Alone(p)
    BY <2>1, <2>2, StepEffect
  <2> QED BY <2>1, <2>3, QuietStep, FilesUnchanged
          DEF Demanding, DeletingPoints, FreshPoints, ReusePoints
<1>4. CASE ScanData(p)
  <2>1. Step(p, "scan_dat", "scan_unlock") /\ idx' = idx /\ dat' = dat /\ db' = db
    BY <1>4 DEF ScanData, files
  <2>2. pc'[p] = "scan_unlock" /\ Alone(p)
    BY <2>1, StepEffect
  <2> QED BY <2>1, <2>2, QuietStep, FilesUnchanged
          DEF Demanding, DeletingPoints, FreshPoints, ReusePoints
<1>5. CASE ScanUnlock(p)
  <2>1. pc'[p] = "idle" /\ Alone(p) /\ SameShape
    BY <1>5, ReturnEffect DEF ScanUnlock
  <2> QED BY <2>1, QuietStep DEF Demanding, DeletingPoints, FreshPoints, ReusePoints
<1> QED BY <1>1, <1>2, <1>3, <1>4, <1>5 DEF ScanStep

-----------------------------------------------------------------------------
\* The specification

\* A process outside any call, or the end of one.
LEMMA QuietCall ==
    ASSUME TypeOK, CallOK, TypeOK', DataInv, NEW p \in Procs,
           (\E c \in Uses[p] : Invoke(p, c)) \/ Rewind(p) \/ Dump(p) \/ Crash(p)
    PROVE  DataInv' /\ RecordsKept
<1>1. idx' = idx /\ dat' = dat
  BY DEF Invoke, Rewind, Dump, Crash, End, files
<1>2. CASE Rewind(p)
  <2>1. /\ pc[p] = "idle" /\ pc' = pc /\ call' = call
        /\ Handles(p, [db[p] EXCEPT !.idxoff = 1])
    BY <1>2 DEF Rewind
  <2>2. Alone(p)
    BY <2>1 DEF Alone, Handles, TypeOK
  <2> QED BY <1>1, <2>1, <2>2, QuietStep, FilesUnchanged
          DEF Demanding, DeletingPoints, FreshPoints, ReusePoints
<1>3. CASE \E c \in Uses[p] : Invoke(p, c)
  <2>1. PICK c \in Uses[p] : Invoke(p, c)
    BY <1>3
  <2>2. /\ pc' = [pc EXCEPT ![p] = FirstPoint(c)] /\ db' = db
        /\ call' = [call EXCEPT ![p] = c]
    BY <2>1 DEF Invoke
  <2>3. Alone(p) /\ pc'[p] = FirstPoint(c)
    BY <2>2 DEF Alone, TypeOK
  <2>4. pc'[p] \notin Demanding
    BY <2>3 DEF FirstPoint, Demanding, DeletingPoints, FreshPoints, ReusePoints
  <2> QED BY <1>1, <2>3, <2>4, QuietStep, FilesUnchanged
<1>4. CASE Dump(p) \/ Crash(p)
  <2>1. PICK point \in Ended : End(p, point)
    BY <1>4 DEF Dump, Crash, Ended, Killed
  <2>2. pc' = [pc EXCEPT ![p] = point] /\ db' = db /\ call' = call
    BY <2>1 DEF End, proc
  <2>3. Alone(p) /\ pc'[p] \in Ended
    BY <2>2 DEF Alone, TypeOK
  <2> QED BY <1>1, <2>3, QuietStep, FilesUnchanged
          DEF Ended, Killed, Demanding, DeletingPoints, FreshPoints, ReusePoints
<1> QED BY <1>2, <1>3, <1>4

LEMMA NextData ==
    ASSUME TypeOK, CallOK, TypeOK', CriticalSections, DataInv, [Next]_vars
    PROVE  DataInv' /\ (RecordsKept \/ UNCHANGED vars)
<1>1. CASE UNCHANGED vars
  BY <1>1 DEF vars, DataInv, DataOwned, FreshDistinct, HandleOK, HasFreeRecord,
              Matches, Fresh
<1>2. CASE Next
  <2> PICK p \in Procs : \/ \E c \in Uses[p] : Invoke(p, c)
                         \/ Rewind(p)
                         \/ Progress(p)
                         \/ Crash(p)
    BY <1>2 DEF Next
  <2> QED BY QuietCall, FindData, DeleteData, FreeData, AppendData, StoreData,
             ScanFiles DEF Progress
<1> QED BY <1>1, <1>2

LEMMA InitData == Init => DataInv
BY DEF Init, DataInv, DataOwned, FreshDistinct, HandleOK, HasFreeRecord,
       DeletingPoints, ReusePoints, FreshPoints

\* What a step keeps: the types, the locks and the files.
DbInv == TypeOK /\ CallOK /\ LockOK /\ DataInv

LEMMA DbInvariant == Spec => []DbInv
<1>1. Init => DbInv
  BY InitType, InitLocks, InitData DEF DbInv
<1>2. DbInv /\ [Next]_vars => DbInv'
  BY NextType, NextLocks, NextData, LocksGuard DEF DbInv
<1> QED BY <1>1, <1>2, PTL DEF Spec

\* No two index records share a data record, and each data record has the
\* length its index record gives, with any number of concurrent writers.
THEOREM Owned == Spec => []DataOwned
<1>1. DbInv => DataOwned
  BY DEF DbInv, DataInv
<1> QED BY <1>1, DbInvariant, PTL

\* No step of any writer moves or resizes an index record.
THEOREM Stay == Spec => RecordsStay
<1>1. DbInv /\ DbInv' /\ [Next]_vars => [RecordsKept]_vars
  BY NextData, LocksGuard DEF DbInv
<1> QED BY <1>1, DbInvariant, PTL DEF Spec, RecordsStay

-----------------------------------------------------------------------------
(***************************************************************************)
(* The linked lists of the index file: every record is on the list it      *)
(* belongs to, once, whoever links and unlinks around it.                  *)
(***************************************************************************)

\* Lists

\* Cell h heads a list of the records S when nxt leads from it through all of
\* them, and through each once.
IsList(h, S, nxt) ==
    /\ nxt[h] \in S \cup {0}
    /\ \A n \in S : nxt[n] \in S \cup {0}
    /\ \A n \in S : \E m \in {h} \cup S : nxt[m] = n
    /\ \A m, n \in {h} \cup S : nxt[m] = nxt[n] /\ nxt[m] # 0 => m = n
    /\ \E rank \in [S -> Nat] : \A n \in S : nxt[n] # 0 => rank[n] < rank[nxt[n]]

LEMMA LeastExists ==
  ASSUME NEW S \in SUBSET Nat, S # {}
  PROVE  \E x \in S : \A y \in S : x <= y
<1>. DEFINE R == OpToRel(<, Nat)
<1>1. IsWellFoundedOn(R, Nat)
  BY NatLessThanWellFounded
<1>2. \A x, y \in Nat : <<y, x>> \in R <=> y < x
  BY DEF OpToRel
<1>. HIDE DEF R
<1>3. PICK x \in S : \A y \in S : ~ (<<y, x>> \in R)
  BY <1>1, WFMin
<1>4. \A y \in S : x \in Nat /\ y \in Nat /\ ~(y < x)
  BY <1>2, <1>3
<1>5. \A y \in S : x <= y
  BY <1>4
<1>. QED
  BY <1>5

\* A list depends on its own pointers only.
LEMMA ListFrame ==
  ASSUME NEW h, NEW S, NEW nxt, NEW nxt2, IsList(h, S, nxt),
         \A m \in {h} \cup S : nxt2[m] = nxt[m]
  PROVE  IsList(h, S, nxt2)
<1>1. /\ nxt2[h] \in S \cup {0}
      /\ \A n \in S : nxt2[n] \in S \cup {0}
      /\ \A n \in S : \E m \in {h} \cup S : nxt2[m] = n
      /\ \A m, n \in {h} \cup S : nxt2[m] = nxt2[n] /\ nxt2[m] # 0 => m = n
  BY DEF IsList
<1>2. \E rank \in [S -> Nat] : \A n \in S : nxt2[n] # 0 => rank[n] < rank[nxt2[n]]
  <2>1. PICK rank \in [S -> Nat] : \A n \in S : nxt[n] # 0 => rank[n] < rank[nxt[n]]
    BY DEF IsList
  <2>. QED
    BY <2>1
<1>. QED
  BY <1>1, <1>2 DEF IsList

\* No record leads to itself, nor do two to the same.
LEMMA ListApart ==
  ASSUME NEW h, NEW S \in SUBSET Nat, NEW nxt, 0 \notin S, IsList(h, S, nxt)
  PROVE  \A n \in S : nxt[n] # n
<1>1. PICK rank \in [S -> Nat] : \A n \in S : nxt[n] # 0 => rank[n] < rank[nxt[n]]
  BY DEF IsList
<1>. SUFFICES ASSUME NEW n \in S, nxt[n] = n PROVE FALSE
  OBVIOUS
<1>2. rank[n] < rank[n]
  BY <1>1
<1>3. rank[n] \in Nat
  BY <1>1
<1>. QED
  BY <1>2, <1>3

\* Record n is taken out: what led to it leads on to what it led to.
LEMMA ListRemove ==
  ASSUME NEW h, NEW S \in SUBSET Nat, h \notin S, 0 \notin S,
         NEW nxt, NEW nxt2, IsList(h, S, nxt),
         NEW m \in {h} \cup S, NEW n \in S, nxt[m] = n, nxt2[m] = nxt[n],
         \A x \in ({h} \cup S) \ {m, n} : nxt2[x] = nxt[x]
  PROVE  IsList(h, S \ {n}, nxt2)
<1>1. m # n /\ nxt[n] # n /\ h # n /\ n # 0
  BY ListApart
<1>2. \A x \in ({h} \cup S) \ {n} : x # m => nxt[x] # n
  BY DEF IsList
<1>3. \A x \in ({h} \cup S) \ {n} : nxt2[x] = IF x = m THEN nxt[n] ELSE nxt[x]
  OBVIOUS
<1>4. nxt[n] \in (S \ {n}) \cup {0}
  BY <1>1 DEF IsList
<1>5. nxt2[h] \in (S \ {n}) \cup {0} /\ \A x \in S \ {n} : nxt2[x] \in (S \ {n}) \cup {0}
  BY <1>1, <1>2, <1>3, <1>4 DEF IsList
<1>6. ASSUME NEW y \in S \ {n} PROVE \E x \in {h} \cup (S \ {n}) : nxt2[x] = y
  <2>1. PICK x \in {h} \cup S : nxt[x] = y
    BY DEF IsList
  <2>2. CASE x = n
    BY <1>1, <1>3, <2>1, <2>2
  <2>3. CASE x # n
    BY <1>1, <1>3, <2>1, <2>3
  <2>. QED
    BY <2>2, <2>3
<1>7. \A x, y \in {h} \cup (S \ {n}) : nxt2[x] = nxt2[y] /\ nxt2[x] # 0 => x = y
  <2>. SUFFICES ASSUME NEW x \in {h} \cup (S \ {n}), NEW y \in {h} \cup (S \ {n}),
                       nxt2[x] = nxt2[y], nxt2[x] # 0
                PROVE  x = y
    OBVIOUS
  <2>1. \A u, v \in {h} \cup S : nxt[u] = nxt[v] /\ nxt[u] # 0 => u = v
    BY DEF IsList
  <2>2. x \in ({h} \cup S) \ {n} /\ y \in ({h} \cup S) \ {n} /\ n \in {h} \cup S
    BY <1>1
  <2>. QED
    BY <1>3, <2>1, <2>2
<1>8. \E rank \in [S \ {n} -> Nat] : \A x \in S \ {n} : nxt2[x] # 0 => rank[x] < rank[nxt2[x]]
  <2>1. PICK rank \in [S -> Nat] : \A x \in S : nxt[x] # 0 => rank[x] < rank[nxt[x]]
    BY DEF IsList
  <2>. DEFINE r == [x \in S \ {n} |-> rank[x]]
  <2>2. r \in [S \ {n} -> Nat] /\ \A x \in S \ {n} : r[x] = rank[x]
    BY <2>1
  <2>. HIDE DEF r
  <2>3. ASSUME NEW x \in S \ {n}, nxt2[x] # 0 PROVE r[x] < r[nxt2[x]]
    <3>1. nxt2[x] \in S \ {n}
      BY <1>5, <2>3
    <3>2. CASE x = m
      <4>1. nxt2[x] = nxt[n] /\ rank[m] < rank[n] /\ rank[n] < rank[nxt[n]]
        BY <1>1, <1>3, <2>1, <2>3, <3>2
      <4>2. rank[m] \in Nat /\ rank[n] \in Nat /\ rank[nxt[n]] \in Nat
        BY <2>1, <3>1, <3>2, <4>1
      <4>3. rank[m] < rank[nxt[n]]
        BY <4>1, <4>2
      <4>. QED
        BY <2>2, <3>1, <3>2, <4>1, <4>3
    <3>3. CASE x # m
      BY <1>3, <2>1, <2>2, <2>3, <3>1, <3>3
    <3>. QED
      BY <3>2, <3>3
  <2>. QED
    BY <2>2, <2>3
<1>. QED
  BY <1>5, <1>6, <1>7, <1>8 DEF IsList

\* Record n, which leads to the first one, is put before it.
LEMMA ListPush ==
  ASSUME NEW h, NEW S \in SUBSET Nat, h \notin S, 0 \notin S,
         NEW nxt, NEW nxt2, IsList(h, S, nxt),
         NEW n \in Nat, n \notin S, n # 0, n # h,
         nxt2[h] = n, nxt2[n] = nxt[h], \A x \in S : nxt2[x] = nxt[x]
  PROVE  IsList(h, S \cup {n}, nxt2)
<1>1. nxt2[h] \in (S \cup {n}) \cup {0} /\ \A x \in S \cup {n} : nxt2[x] \in (S \cup {n}) \cup {0}
  BY DEF IsList
<1>2. ASSUME NEW y \in S \cup {n} PROVE \E x \in {h} \cup (S \cup {n}) : nxt2[x] = y
  <2>1. CASE y = n
    BY <2>1
  <2>2. CASE y # n
    <3>1. PICK x \in {h} \cup S : nxt[x] = y
      BY <1>2, <2>2 DEF IsList
    <3>2. CASE x = h
      BY <3>1, <3>2
    <3>3. CASE x # h
      BY <3>1, <3>3
    <3>. QED
      BY <3>2, <3>3
  <2>. QED
    BY <2>1, <2>2
<1>3. \A x, y \in {h} \cup (S \cup {n}) : nxt2[x] = nxt2[y] /\ nxt2[x] # 0 => x = y
  <2>1. \A x \in S : nxt2[x] # n /\ (nxt2[x] = nxt[h] /\ nxt2[x] # 0 => FALSE)
    BY DEF IsList
  <2>2. nxt[h] # n
    BY DEF IsList
  <2>3. \A x, y \in S : nxt2[x] = nxt2[y] /\ nxt2[x] # 0 => x = y
    BY DEF IsList
  <2>. QED
    BY <2>1, <2>2, <2>3
<1>4. \E rank \in [S \cup {n} -> Nat] : \A x \in S \cup {n} : nxt2[x] # 0 => rank[x] < rank[nxt2[x]]
  <2>1. PICK rank \in [S -> Nat] : \A x \in S : nxt[x] # 0 => rank[x] < rank[nxt[x]]
    BY DEF IsList
  <2>. DEFINE r == [x \in S \cup {n} |-> IF x = n THEN 0 ELSE rank[x] + 1]
  <2>2. r \in [S \cup {n} -> Nat] /\ r[n] = 0 /\ \A x \in S : r[x] = rank[x] + 1 /\ rank[x] \in Nat
    BY <2>1
  <2>. HIDE DEF r
  <2>3. ASSUME NEW x \in S \cup {n}, nxt2[x] # 0 PROVE r[x] < r[nxt2[x]]
    <3>1. nxt2[x] \in S
      BY <1>3, <2>3 DEF IsList
    <3>2. CASE x = n
      <4>1. r[n] = 0 /\ r[nxt2[x]] = rank[nxt2[x]] + 1 /\ rank[nxt2[x]] \in Nat
        BY <2>2, <3>1
      <4>. QED
        BY <3>2, <4>1
    <3>3. CASE x # n
      <4>1. x \in S /\ nxt2[x] = nxt[x]
        BY <3>3
      <4>2. rank[x] < rank[nxt2[x]]
        BY <2>1, <2>3, <4>1
      <4>3. /\ r[x] = rank[x] + 1 /\ rank[x] \in Nat
            /\ r[nxt2[x]] = rank[nxt2[x]] + 1 /\ rank[nxt2[x]] \in Nat
        BY <2>2, <3>1, <4>1
      <4>. QED
        BY <4>2, <4>3
    <3>. QED
      BY <3>2, <3>3
  <2>. QED
    BY <2>2, <2>3
<1>. QED
  BY <1>1, <1>2, <1>3, <1>4 DEF IsList

\* What contains the first record, and with a record the next one, contains
\* the list: the first record that it did not contain would be led to by one
\* that it does.
LEMMA ListWithin ==
  ASSUME NEW h, NEW S, 0 \notin S, NEW nxt, IsList(h, S, nxt),
         NEW V, nxt[h] \in V \cup {0}, \A n \in S \cap V : nxt[n] \in V \cup {0}
  PROVE  S \subseteq V
<1>1. PICK rank \in [S -> Nat] : \A n \in S : nxt[n] # 0 => rank[n] < rank[nxt[n]]
  BY DEF IsList
<1>. SUFFICES ASSUME NEW w \in S \ V PROVE FALSE
  OBVIOUS
<1>. DEFINE Ranks == {rank[n] : n \in S \ V}
<1>2. Ranks \in SUBSET Nat /\ Ranks # {}
  BY <1>1
<1>3. PICK n \in S \ V : \A x \in S \ V : rank[n] <= rank[x]
  <2>. HIDE DEF Ranks
  <2>1. PICK k \in Ranks : \A y \in Ranks : k <= y
    BY <1>2, LeastExists
  <2>2. PICK n \in S \ V : k = rank[n]
    BY <2>1 DEF Ranks
  <2>3. \A x \in S \ V : rank[x] \in Ranks
    BY DEF Ranks
  <2>. QED
    BY <2>1, <2>2, <2>3
<1>4. PICK m \in {h} \cup S : nxt[m] = n
  BY DEF IsList
<1>5. m # h /\ m \in S /\ m \notin V
  BY <1>3, <1>4
<1>6. rank[m] < rank[n] /\ rank[n] <= rank[m] /\ rank[m] \in Nat /\ rank[n] \in Nat
  BY <1>1, <1>3, <1>4, <1>5
<1>. QED
  BY <1>6

\* The same of any such set, for the lemmas that choose theirs later.
LEMMA ListWithinAny ==
  ASSUME NEW h, NEW S, 0 \notin S, NEW nxt, IsList(h, S, nxt)
  PROVE  \A V : nxt[h] \in V \cup {0} /\ (\A n \in S \cap V : nxt[n] \in V \cup {0}) => S \subseteq V
BY ListWithin

-----------------------------------------------------------------------------
\* Reach

Further(s) == s \cup ({idx[n].ptr : n \in s} \ {0})

\* The sets of records that Reach goes through exist,
LEMMA WalkExists ==
  ASSUME NEW off, Len(idx) \in Nat
  PROVE  \E r : r = [i \in 0 .. Len(idx) |-> IF i = 0 THEN {Readptr(off)} \ {0}
                                             ELSE r[i - 1] \cup ({idx[n].ptr : n \in r[i - 1]} \ {0})]
<1>. DEFINE B == {Readptr(off)} \ {0}
            F(s) == s \cup ({idx[n].ptr : n \in s} \ {0})
            P(k) == \E r : r = [i \in 0 .. k |-> IF i = 0 THEN B ELSE F(r[i - 1])]
            Bad == {k \in 0 .. Len(idx) : ~P(k)}
<1>1. SUFFICES P(Len(idx))
  OBVIOUS
<1>. HIDE DEF B, F
<1>2. P(0)
  <2>. DEFINE r == [i \in 0 .. 0 |-> B]
  <2>1. r = [i \in 0 .. 0 |-> IF i = 0 THEN B ELSE F(r[i - 1])]
    <3>1. \A i \in 0 .. 0 : i = 0
      OBVIOUS
    <3>. QED
      BY <3>1
  <2>. QED
    BY <2>1
<1>3. ASSUME NEW k \in 1 .. Len(idx), P(k - 1) PROVE P(k)
  <2>1. PICK r : r = [i \in 0 .. k - 1 |-> IF i = 0 THEN B ELSE F(r[i - 1])]
    BY <1>3
  <2>2. \A i \in 0 .. k - 1 : r[i] = IF i = 0 THEN B ELSE F(r[i - 1])
    <3>. DEFINE e == [i \in 0 .. k - 1 |-> IF i = 0 THEN B ELSE F(r[i - 1])]
    <3>1. \A i \in 0 .. k - 1 : e[i] = IF i = 0 THEN B ELSE F(r[i - 1])
      OBVIOUS
    <3>2. r = e
      BY <2>1
    <3>. HIDE DEF e
    <3>. QED
      BY <3>1, <3>2
  <2>. HIDE DEF P
  <2>. DEFINE q == [i \in 0 .. k |-> IF i = k THEN F(r[k - 1]) ELSE r[i]]
  <2>3. \A i \in 0 .. k : q[i] = IF i = k THEN F(r[k - 1]) ELSE r[i]
    OBVIOUS
  <2>4. q = [i \in 0 .. k |-> q[i]]
    OBVIOUS
  <2>. HIDE DEF q
  <2>5. ASSUME NEW i \in 0 .. k PROVE q[i] = IF i = 0 THEN B ELSE F(q[i - 1])
    <3>1. CASE i = k
      <4>1. k # 0 /\ k - 1 \in 0 .. k /\ k - 1 # k /\ k \in 0 .. k
        BY <1>3
      <4>. QED
        BY <2>3, <3>1, <4>1
    <3>2. CASE i # k
      <4>1. i \in 0 .. k - 1 /\ (i # 0 => i - 1 \in 0 .. k /\ i - 1 # k)
        BY <1>3, <3>2
      <4>. QED
        BY <2>2, <2>3, <3>2, <4>1
    <3>. QED
      BY <3>1, <3>2
  <2>6. q = [i \in 0 .. k |-> IF i = 0 THEN B ELSE F(q[i - 1])]
    BY <2>4, <2>5
  <2>. QED
    BY <2>6 DEF P
<1>. HIDE DEF P
<1>4. Bad = {}
  <2>. SUFFICES ASSUME Bad # {} PROVE FALSE
    OBVIOUS
  <2>1. Bad \in SUBSET Nat
    OBVIOUS
  <2>2. PICK k \in Bad : \A y \in Bad : k <= y
    BY <2>1, LeastExists
  <2>3. k \in 1 .. Len(idx) /\ k - 1 \in 0 .. Len(idx) /\ ~(k <= k - 1)
    BY <1>2, <2>2
  <2>4. P(k - 1)
    BY <2>2, <2>3
  <2>. QED
    BY <1>3, <2>2, <2>3, <2>4
<1>. QED
  BY <1>4

\* and each is the one before it with what it leads to.
LEMMA ReachSteps ==
  ASSUME NEW off, Len(idx) \in Nat
  PROVE  \E r : /\ Reach(off) = r[Len(idx)] /\ r[0] = {Readptr(off)} \ {0}
                /\ \A i \in 1 .. Len(idx) : r[i] = Further(r[i - 1])
<1>. DEFINE P(q) == q = [i \in 0 .. Len(idx) |->
                            IF i = 0 THEN {Readptr(off)} \ {0}
                            ELSE q[i - 1] \cup ({idx[n].ptr : n \in q[i - 1]} \ {0})]
<1>1. Reach(off) = (CHOOSE q : P(q))[Len(idx)]
  BY DEF Reach
<1>2. \E q : P(q)
  BY WalkExists
<1>. HIDE DEF P
<1>3. PICK r : P(r) /\ Reach(off) = r[Len(idx)]
  BY <1>1, <1>2
<1>. DEFINE e == [i \in 0 .. Len(idx) |-> IF i = 0 THEN {Readptr(off)} \ {0}
                                          ELSE r[i - 1] \cup ({idx[n].ptr : n \in r[i - 1]} \ {0})]
<1>4. r = e
  BY <1>3 DEF P
<1>5. e[0] = {Readptr(off)} \ {0} /\ \A i \in 1 .. Len(idx) : e[i] = Further(r[i - 1])
  <2>1. \A i \in 1 .. Len(idx) : i # 0 /\ i \in 0 .. Len(idx)
    OBVIOUS
  <2>2. 0 \in 0 .. Len(idx)
    OBVIOUS
  <2>. QED
    BY <2>1, <2>2 DEF Further
<1>. HIDE DEF e
<1>. QED
  BY <1>3, <1>4, <1>5

\* What contains the first record, and with a record the next one, contains
\* all that is reached.
LEMMA ReachWithin ==
  ASSUME Len(idx) \in Nat, NEW off, NEW V, Readptr(off) \in V \cup {0},
         \A n \in V : idx[n].ptr \in V \cup {0}
  PROVE  Reach(off) \subseteq V
<1>1. PICK r : /\ Reach(off) = r[Len(idx)] /\ r[0] = {Readptr(off)} \ {0}
               /\ \A i \in 1 .. Len(idx) : r[i] = Further(r[i - 1])
  BY ReachSteps
<1>. DEFINE Bad == {i \in 0 .. Len(idx) : ~(r[i] \subseteq V)}
<1>2. Bad = {}
  <2>. SUFFICES ASSUME Bad # {} PROVE FALSE
    OBVIOUS
  <2>1. Bad \in SUBSET Nat
    OBVIOUS
  <2>2. PICK k \in Bad : \A y \in Bad : k <= y
    BY <2>1, LeastExists
  <2>3. r[0] \subseteq V
    BY <1>1
  <2>4. k \in 1 .. Len(idx) /\ k - 1 \in 0 .. Len(idx) /\ ~(k <= k - 1)
    BY <2>2, <2>3
  <2>5. r[k - 1] \subseteq V
    BY <2>2, <2>4
  <2>6. r[k] \subseteq V
    BY <1>1, <2>4, <2>5 DEF Further
  <2>. QED
    BY <2>2, <2>6
<1>3. Len(idx) \in 0 .. Len(idx)
  OBVIOUS
<1>. QED
  BY <1>1, <1>2, <1>3

\* From its head the whole of a list is reached and nothing else: as long as
\* a record is missing, every step adds one.
LEMMA ReachList ==
  ASSUME Len(idx) \in Nat, NEW h, h \notin Nat, NEW S \in SUBSET (1 .. Len(idx)), NEW nxt,
         IsList(h, S, nxt), \A m \in {h} \cup S : nxt[m] = Readptr(m)
  PROVE  Reach(h) = S
<1>1. S \in SUBSET Nat /\ 0 \notin S /\ \A n \in S : idx[n].ptr = nxt[n]
  BY DEF Readptr
<1>2. \A n \in S : idx[n].ptr \in S \cup {0}
  BY <1>1 DEF IsList
<1>3. Reach(h) \subseteq S
  <2>1. Readptr(h) \in S \cup {0}
    BY DEF IsList
  <2>. QED
    BY <1>2, <2>1, ReachWithin
<1>4. PICK r : /\ Reach(h) = r[Len(idx)] /\ r[0] = {Readptr(h)} \ {0}
               /\ \A i \in 1 .. Len(idx) : r[i] = Further(r[i - 1])
  BY ReachSteps
<1>5. IsFiniteSet(S) /\ Cardinality(S) \in Nat /\ Cardinality(S) <= Len(idx)
  <2>1. IsFiniteSet(1 .. Len(idx)) /\ Cardinality(1 .. Len(idx)) = Len(idx)
    <3>1. Cardinality(1 .. Len(idx)) = IF 1 > Len(idx) THEN 0 ELSE Len(idx) - 1 + 1
      BY FS_Interval
    <3>2. (IF 1 > Len(idx) THEN 0 ELSE Len(idx) - 1 + 1) = Len(idx)
      OBVIOUS
    <3>3. IsFiniteSet(1 .. Len(idx))
      BY FS_Interval
    <3>. QED
      BY <3>1, <3>2, <3>3
  <2>2. IsFiniteSet(S) /\ Cardinality(S) <= Cardinality(1 .. Len(idx))
    BY <2>1, FS_Subset
  <2>. QED
    BY <2>1, <2>2, FS_CardinalityType
<1>6. \A V : nxt[h] \in V \cup {0} /\ (\A n \in S \cap V : nxt[n] \in V \cup {0}) => S \subseteq V
  <2>1. 0 \notin S /\ IsList(h, S, nxt)
    BY <1>1
  <2>. QED
    BY ONLY <2>1, ListWithinAny, Zenon
<1>. DEFINE P(i) == S \subseteq r[i] \/ (r[i] \subseteq S /\ Cardinality(r[i]) >= i + 1)
            Bad == {i \in 0 .. Len(idx) : ~P(i)}
<1>7. P(0)
  <2>1. CASE nxt[h] = 0
    <3>1. S \subseteq {}
      <4>1. nxt[h] \in {} \cup {0} /\ \A n \in S \cap {} : nxt[n] \in {} \cup {0}
        BY <2>1
      <4>. QED
        BY <1>6, <4>1
    <3>. QED
      BY <3>1
  <2>2. CASE nxt[h] # 0
    <3>1. r[0] = {nxt[h]} /\ nxt[h] \in S
      BY <1>4, <2>2 DEF IsList
    <3>2. Cardinality(r[0]) = 1
      BY <3>1, FS_Singleton
    <3>. QED
      BY <3>1, <3>2
  <2>. QED
    BY <2>1, <2>2
<1>8. ASSUME NEW i \in 1 .. Len(idx), P(i - 1) PROVE P(i)
  <2>1. r[i] = Further(r[i - 1]) /\ r[i - 1] \subseteq r[i]
    BY <1>4 DEF Further
  <2>2. CASE S \subseteq r[i - 1]
    BY <2>1, <2>2
  <2>3. CASE ~(S \subseteq r[i - 1])
    <3>1. r[i - 1] \subseteq S /\ Cardinality(r[i - 1]) >= (i - 1) + 1
      BY <1>8, <2>3
    <3>2. r[i] \subseteq S
      BY <1>2, <2>1, <3>1 DEF Further
    <3>3. nxt[h] \in r[i - 1] \cup {0}
      <4>1. r[0] \subseteq r[i - 1]
        <5>. DEFINE Less == {j \in 0 .. i - 1 : ~(r[0] \subseteq r[j])}
        <5>. SUFFICES ASSUME Less # {} PROVE FALSE
          <6>1. i - 1 \in 0 .. i - 1
            OBVIOUS
          <6>. QED
            BY <6>1
        <5>1. Less \in SUBSET Nat
          OBVIOUS
        <5>2. PICK k \in Less : \A y \in Less : k <= y
          BY <5>1, LeastExists
        <5>3. k \in 1 .. Len(idx) /\ k - 1 \in 0 .. i - 1 /\ ~(k <= k - 1)
          BY <5>2
        <5>4. r[0] \subseteq r[k - 1]
          BY <5>2, <5>3
        <5>5. r[k - 1] \subseteq r[k]
          BY <1>4, <5>3 DEF Further
        <5>. QED
          BY <5>2, <5>4, <5>5
      <4>. QED
        BY <1>4, <4>1
    <3>4. PICK n \in S \cap r[i - 1] : nxt[n] \notin r[i - 1] \cup {0}
      <4>. DEFINE V == r[i - 1]
      <4>1. nxt[h] \in V \cup {0} /\ ~(S \subseteq V)
        BY <2>3, <3>3
      <4>. HIDE DEF V
      <4>2. ASSUME \A n \in S \cap V : nxt[n] \in V \cup {0} PROVE FALSE
        <5>1. S \subseteq V
          BY <1>6, <4>1, <4>2
        <5>. QED
          BY <4>1, <5>1
      <4>. QED
        BY <4>2 DEF V
    <3>5. nxt[n] \in r[i] /\ nxt[n] \notin r[i - 1]
      BY <1>1, <2>1, <3>4 DEF Further
    <3>6. IsFiniteSet(r[i]) /\ Cardinality(r[i]) \in Nat /\ IsFiniteSet(r[i - 1]) /\ Cardinality(r[i - 1]) \in Nat
      <4>1. r[i] \in SUBSET S /\ r[i - 1] \in SUBSET S
        BY <3>1, <3>2
      <4>2. IsFiniteSet(r[i]) /\ IsFiniteSet(r[i - 1])
        BY <1>5, <4>1, FS_Subset
      <4>. QED
        BY <4>2, FS_CardinalityType
    <3>7. Cardinality(r[i - 1] \cup {nxt[n]}) = Cardinality(r[i - 1]) + 1
      <4>. DEFINE V == r[i - 1]
                  y == nxt[n]
      <4>1. IsFiniteSet(V) /\ y \notin V
        BY <3>5, <3>6
      <4>. HIDE DEF V, y
      <4>2. Cardinality(V \cup {y}) = Cardinality(V) + 1
        BY <4>1, FS_AddElement
      <4>. QED
        BY <4>2 DEF V, y
    <3>8. Cardinality(r[i - 1] \cup {nxt[n]}) <= Cardinality(r[i])
      <4>1. r[i - 1] \cup {nxt[n]} \in SUBSET r[i]
        BY <2>1, <3>5
      <4>. QED
        BY <3>6, <4>1, FS_Subset
    <3>9. Cardinality(r[i]) >= i + 1
      BY <3>1, <3>6, <3>7, <3>8
    <3>. QED
      BY <3>2, <3>9
  <2>. QED
    BY <2>2, <2>3
<1>. HIDE DEF P
<1>9. Bad = {}
  <2>. SUFFICES ASSUME Bad # {} PROVE FALSE
    OBVIOUS
  <2>1. Bad \in SUBSET Nat
    OBVIOUS
  <2>2. PICK k \in Bad : \A y \in Bad : k <= y
    BY <2>1, LeastExists
  <2>3. k \in 1 .. Len(idx) /\ k - 1 \in 0 .. Len(idx) /\ ~(k <= k - 1)
    BY <1>7, <2>2
  <2>4. P(k - 1)
    BY <2>2, <2>3
  <2>. QED
    BY <1>8, <2>2, <2>3, <2>4
<1>10. P(Len(idx))
  <2>1. Len(idx) \in 0 .. Len(idx)
    OBVIOUS
  <2>. QED
    BY <1>9, <2>1
<1>11. S \subseteq r[Len(idx)]
  <2>. SUFFICES ASSUME r[Len(idx)] \subseteq S, Cardinality(r[Len(idx)]) >= Len(idx) + 1 PROVE FALSE
    BY <1>10 DEF P
  <2>1. Cardinality(r[Len(idx)]) <= Cardinality(S) /\ Cardinality(r[Len(idx)]) \in Nat
    BY <1>5, FS_Subset, FS_CardinalityType
  <2>. QED
    BY <1>5, <2>1
<1>12. S \subseteq Reach(h)
  BY <1>4, <1>11
<1>. QED
  BY <1>3, <1>12, Zenon

\* A list is not circular.
LEMMA ReachAhead ==
  ASSUME Len(idx) \in Nat, NEW h, NEW S \in SUBSET (1 .. Len(idx)), NEW nxt, IsList(h, S, nxt),
         \A m \in S : nxt[m] = Readptr(m), NEW n \in S
  PROVE  n \notin Reach(n)
<1>1. PICK rank \in [S -> Nat] : \A x \in S : nxt[x] # 0 => rank[x] < rank[nxt[x]]
  BY DEF IsList
<1>. DEFINE V == {x \in S : rank[n] < rank[x]}
<1>2. \A x \in S : /\ nxt[x] \in S \cup {0} /\ x \in Nat /\ x # 0 /\ rank[x] \in Nat
                   /\ Readptr(x) = nxt[x] /\ idx[x].ptr = nxt[x]
  BY <1>1 DEF IsList, Readptr
<1>3. Readptr(n) \in V \cup {0}
  BY <1>1, <1>2
<1>4. ASSUME NEW x \in V PROVE idx[x].ptr \in V \cup {0}
  <2>1. x \in S /\ rank[n] < rank[x] /\ idx[x].ptr = nxt[x] /\ nxt[x] \in S \cup {0}
    BY <1>2
  <2>2. CASE nxt[x] # 0
    <3>1. rank[x] < rank[nxt[x]] /\ rank[n] \in Nat /\ rank[x] \in Nat /\ rank[nxt[x]] \in Nat
      BY <1>1, <1>2, <2>1, <2>2
    <3>2. rank[n] < rank[nxt[x]]
      BY <2>1, <3>1
    <3>. QED
      BY <2>1, <2>2, <3>2
  <2>. QED
    BY <2>1, <2>2
<1>5. n \notin V
  BY <1>2
<1>. HIDE DEF V
<1>. QED
  BY <1>3, <1>4, <1>5, ReachWithin
-----------------------------------------------------------------------------
\* The inductive invariant

Heads == Chains \cup {FREE_OFF}
Records == 1 .. Len(idx)

\* A process that has blanked the record it deletes, and not yet unlinked it;
\* one that has written a record and not yet linked it; one that has taken a
\* record off the free list and not yet filled it.
Unlinking == {p \in Procs : pc[p] \in {"del_setfree", "del_unlink"}}
Unlinked(p) == pc[p] \in {"idx_unlock", "link"}
Took(p) == pc[p] \in {"reuse_dat", "reuse_idx"} \/ (pc[p] = "ff_unlock" /\ db[p].cur # 0)
OffLists(p) == Took(p) \/ pc[p] = "del_setfree"

\* The records of chain c, and those of the free list.  Some are gone: they are
\* on no list any more, because of a process that was killed.
Members(c, gone) ==
    {n \in Records \ gone : /\ idx[n].key # BLANK /\ Hash[idx[n].key] = c
                            /\ \A p \in Procs : Unlinked(p) => db[p].idxoff # n}
FreeMembers(gone) ==
    {n \in Records \ gone : /\ idx[n].key = BLANK
                            /\ \A p \in Procs : OffLists(p) => db[p].idxoff # n}

\* What is left of a chain in which a process was cut ends where the file has a
\* pointer to the record it had blanked: 0 stands for f, the pointer in the file.
Leads(c, v, f) == f = v \/ (v = 0 /\ c \in CutChains)
StrayCell(m) == \/ m \in Chains /\ m \in CutChains
                \/ m \in Records /\ idx[m].key # BLANK /\ Hash[idx[m].key] \in CutChains

\* nxt is the pointers in the file, save that a pointer that leads to a record
\* that is blank already leads on to the next one.
Links(nxt) ==
    /\ nxt \in [Cells -> Nat]
    /\ \A p \in Unlinking : /\ Leads(ChainOff(p), nxt[db[p].ptroff], db[p].saveptr)
                            /\ Readptr(db[p].ptroff) = db[p].idxoff
    /\ \A m \in Heads \cup Records :
          \/ nxt[m] = Readptr(m)
          \/ \E p \in Unlinking : db[p].ptroff = m
          \/ nxt[m] = 0 /\ StrayCell(m)

\* What a walk of the chain has passed: every record before the one it is at.
Walked(p, c, nxt, gone) ==
    \E V \in SUBSET Members(c, gone) :
        /\ db[p].ptroff \in {c} \cup V
        /\ nxt[c] \in V \cup {db[p].cur}
        /\ \A n \in V : nxt[n] \in V \cup {db[p].cur} /\ idx[n].key # call[p].key
OnPath(p, c, nxt, gone) == nxt[db[p].ptroff] = db[p].cur /\ Walked(p, c, nxt, gone)

\* The walk has passed the end of what is left of its chain.
Astray(p, c, gone) == c \in CutChains /\ \A m \in Members(c, gone) : idx[m].key # call[p].key

KeyGonePoints == {"del_setfree", "del_unlink", "del_unlock"} \cup FreePoints
                 \cup AppendPoints \cup (StorePoints \ {"overwrite"})
HeadKnown == FreePoints \cup AppendPoints \cup {"reuse_dat", "reuse_idx", "link"}

\* What process p knows of its chain c at each point of the code,
ChainKnown(p, c, nxt, gone) ==
    LET cells == {c} \cup Members(c, gone)
        n == db[p].idxoff
    IN  /\ pc[p] = "walk" => OnPath(p, c, nxt, gone) \/ Astray(p, c, gone)
        /\ pc[p] \in DeletingPoints =>
              /\ db[p].ptroff \in cells /\ nxt[db[p].ptroff] = n
              /\ n \in Members(c, gone) /\ idx[n].key = call[p].key
              /\ Leads(c, nxt[n], db[p].ptrval)
        /\ pc[p] = "del_idx" => db[p].saveptr = db[p].ptrval
        /\ pc[p] \in {"del_setfree", "del_unlink"} => db[p].ptroff \in cells
        /\ pc[p] \in KeyGonePoints => \A m \in Members(c, gone) : idx[m].key # call[p].key
        /\ pc[p] \in HeadKnown => Leads(c, nxt[c], db[p].chainptr)
        /\ Unlinked(p) => n \in Records \ gone /\ idx[n].key = call[p].key /\ nxt[n] = nxt[c]

\* and of the free list.
FreeKnown(p, nxt, gone) ==
    LET cells == {FREE_OFF} \cup FreeMembers(gone)
        n == db[p].idxoff
    IN  /\ pc[p] = "del_idx" => db[p].freeptr = nxt[FREE_OFF]
        /\ pc[p] = "del_setfree" =>
              n \in Records \ gone /\ idx[n].key = BLANK /\ nxt[n] = nxt[FREE_OFF]
        /\ pc[p] = "del_unlink" => n \in FreeMembers(gone)
        /\ pc[p] = "ff_walk" => db[p].saveoffset \in cells /\ nxt[db[p].saveoffset] = db[p].cur
        /\ pc[p] = "ff_unlink" =>
              /\ db[p].saveoffset \in cells /\ nxt[db[p].saveoffset] = n
              /\ n \in FreeMembers(gone) /\ db[p].cur = n /\ nxt[n] = db[p].ptrval

\* Two processes never have the same blank record off all lists.
OffListsOK(gone) ==
    /\ \A p \in Procs : OffLists(p) => db[p].idxoff \in Records \ gone /\ idx[db[p].idxoff].key = BLANK
    /\ \A p, q \in Procs : p # q /\ OffLists(p) /\ OffLists(q) => db[p].idxoff # db[q].idxoff

KeyOnce(gone) ==
    \A c \in Chains : \A m, n \in Members(c, gone) : idx[m].key = idx[n].key => m = n

ListInv(nxt, gone) ==
    /\ Links(nxt)
    /\ \A c \in Chains : IsList(c, Members(c, gone), nxt)
    /\ IsList(FREE_OFF, FreeMembers(gone), nxt)
    /\ KeyOnce(gone) /\ OffListsOK(gone)
    /\ gone \subseteq Records
    /\ \A p \in Procs : FreeKnown(p, nxt, gone)
    /\ \A p \in Procs, c \in Chains : c = ChainOff(p) => ChainKnown(p, c, nxt, gone)

-----------------------------------------------------------------------------
\* What other processes do

LEMMA Sets ==
  ASSUME TypeOK
  PROVE  /\ Records = DOMAIN idx /\ Records \subseteq Nat /\ 0 \notin Records /\ Len(idx) \in Nat
         /\ \A gone, c : Members(c, gone) \subseteq Records
         /\ \A gone : FreeMembers(gone) \subseteq Records
         /\ \A gone, c, d : c # d => Members(c, gone) \cap Members(d, gone) = {}
         /\ \A gone, c : Members(c, gone) \cap FreeMembers(gone) = {}
         /\ \A c \in Chains : c \notin Nat /\ c # FREE_OFF
         /\ FREE_OFF \notin Nat
<1>1. DOMAIN idx = 1 .. Len(idx) /\ Len(idx) \in Nat
  BY Domains
<1>2. Records = DOMAIN idx /\ Records \subseteq Nat /\ 0 \notin Records
  BY <1>1 DEF Records
<1>3. /\ \A c \in Chains : c \notin Nat /\ c # FREE_OFF
      /\ FREE_OFF \notin Nat
  BY ConstantsAssumption
<1>4. /\ \A gone, c : Members(c, gone) \subseteq Records
      /\ \A gone : FreeMembers(gone) \subseteq Records
      /\ \A gone, c, d : c # d => Members(c, gone) \cap Members(d, gone) = {}
      /\ \A gone, c : Members(c, gone) \cap FreeMembers(gone) = {}
  BY DEF Members, FreeMembers
<1>. QED
  BY <1>1, <1>2, <1>3, <1>4

LEMMA InvParts ==
  ASSUME NEW nxt, NEW gone, ListInv(nxt, gone)
  PROVE  /\ Links(nxt) /\ KeyOnce(gone) /\ OffListsOK(gone) /\ gone \subseteq Records
         /\ \A c \in Chains : IsList(c, Members(c, gone), nxt)
         /\ IsList(FREE_OFF, FreeMembers(gone), nxt)
         /\ \A p \in Procs : FreeKnown(p, nxt, gone)
         /\ \A p \in Procs, c \in Chains : c = ChainOff(p) => ChainKnown(p, c, nxt, gone)
BY DEF ListInv

\* A process in a call with a key has a chain.
LEMMA HasChain ==
  ASSUME TypeOK, CallOK, NEW p \in Procs, pc[p] \in KeyPoints
  PROVE  ChainOff(p) \in Chains /\ call[p].key \in Keys
<1>1. call[p].key \in Keys
  BY KeyedCall
<1>. QED
  BY <1>1, ConstantsAssumption DEF ChainOff

\* A writer has its chain for itself, and the free list.
LEMMA ChainApart ==
  ASSUME TypeOK, CallOK, LockOK, NEW p \in Procs, NEW q \in Procs, p # q,
         pc[p] \in ChainHeld, call[p].op # "fetch", pc[q] \in ChainHeld
  PROVE  ChainOff(q) # ChainOff(p)
BY LocksGuard DEF CriticalSections

LEMMA FreeApart ==
  ASSUME TypeOK, CallOK, LockOK, NEW p \in Procs, NEW q \in Procs, p # q, pc[p] \in FreeHeld
  PROVE  pc[q] \notin FreeHeld
BY LocksGuard DEF CriticalSections

\* A step that leaves a list, or a record that is on no list, alone.
SameChain(c, nxt, nxt2, gone, gone2) ==
    /\ Members(c, gone2)' = Members(c, gone)
    /\ \A m \in {c} \cup Members(c, gone) : nxt2[m] = nxt[m]
    /\ \A n \in Members(c, gone) : idx'[n].key = idx[n].key
SameFree(nxt, nxt2, gone, gone2) ==
    /\ FreeMembers(gone2)' = FreeMembers(gone)
    /\ \A m \in {FREE_OFF} \cup FreeMembers(gone) : nxt2[m] = nxt[m]
SameRecord(n, nxt, nxt2, gone2) ==
    n \in Records /\ n \in Records' \ gone2 /\ idx'[n].key = idx[n].key /\ nxt2[n] = nxt[n]

\* What a process knows stays so when its chain, and if it has the free list
\* that, are left alone by another.
LEMMA ChainKnownKept ==
  ASSUME NEW q \in Procs, NEW c \in Chains, NEW nxt, NEW nxt2, NEW gone, NEW gone2,
         ChainKnown(q, c, nxt, gone), CutChains \subseteq CutChains',
         pc'[q] = pc[q], db'[q] = db[q], call'[q] = call[q],
         pc[q] \in ChainHeld => SameChain(c, nxt, nxt2, gone, gone2),
         Unlinked(q) => SameRecord(db[q].idxoff, nxt, nxt2, gone2)
  PROVE  ChainKnown(q, c, nxt2, gone2)'
<1>1. CASE pc[q] \notin ChainHeld
  <2>1. /\ pc[q] \notin {"walk", "del_idx"} \cup {"del_setfree", "del_unlink"} \cup DeletingPoints
        /\ pc[q] \notin KeyGonePoints /\ pc[q] \notin HeadKnown
        /\ pc[q] \notin {"idx_unlock", "link"}
    BY <1>1 DEF ChainHeld, KeyPoints, StoreOnlyPoints, FindPoints, DeletePoints, FreePoints, AppendPoints,
                StorePoints, DeletingPoints, KeyGonePoints, HeadKnown
  <2>. QED
    BY <2>1 DEF ChainKnown, Unlinked
<1>2. CASE pc[q] \in ChainHeld
  <2>1. /\ Members(c, gone2)' = Members(c, gone)
        /\ \A m \in {c} \cup Members(c, gone) : nxt2[m] = nxt[m]
        /\ \A n \in Members(c, gone) : idx'[n].key = idx[n].key
    BY <1>2 DEF SameChain
  <2>2. /\ pc[q] \in DeletingPoints =>
              /\ db[q].ptroff \in {c} \cup Members(c, gone) /\ nxt[db[q].ptroff] = db[q].idxoff
              /\ db[q].idxoff \in Members(c, gone) /\ idx[db[q].idxoff].key = call[q].key
              /\ Leads(c, nxt[db[q].idxoff], db[q].ptrval)
        /\ pc[q] = "del_idx" => db[q].saveptr = db[q].ptrval
        /\ pc[q] \in {"del_setfree", "del_unlink"} => db[q].ptroff \in {c} \cup Members(c, gone)
        /\ pc[q] \in KeyGonePoints => \A m \in Members(c, gone) : idx[m].key # call[q].key
        /\ pc[q] \in HeadKnown => Leads(c, nxt[c], db[q].chainptr)
    BY DEF ChainKnown
  <2>3. \A v, f : Leads(c, v, f) => Leads(c, v, f)'
    BY DEF Leads
  <2>4. pc[q] = "walk" => OnPath(q, c, nxt2, gone2)' \/ Astray(q, c, gone2)'
    <3>. SUFFICES ASSUME pc[q] = "walk" PROVE OnPath(q, c, nxt2, gone2)' \/ Astray(q, c, gone2)'
      OBVIOUS
    <3>1. OnPath(q, c, nxt, gone) \/ Astray(q, c, gone)
      BY DEF ChainKnown
    <3>2. CASE Astray(q, c, gone)
      BY <2>1, <3>2 DEF Astray
    <3>3. CASE OnPath(q, c, nxt, gone)
      <4>1. nxt[db[q].ptroff] = db[q].cur
        BY <3>3 DEF OnPath
      <4>2. PICK V \in SUBSET Members(c, gone) :
                /\ db[q].ptroff \in {c} \cup V
                /\ nxt[c] \in V \cup {db[q].cur}
                /\ \A n \in V : nxt[n] \in V \cup {db[q].cur} /\ idx[n].key # call[q].key
        BY <3>3 DEF OnPath, Walked
      <4>3. /\ V \in SUBSET Members(c, gone2)'
            /\ db[q].ptroff \in {c} \cup V
            /\ nxt2[c] \in V \cup {db[q].cur}
            /\ \A n \in V : nxt2[n] \in V \cup {db[q].cur} /\ idx'[n].key # call[q].key
        BY <2>1, <4>2
      <4>4. nxt2[db[q].ptroff] = db[q].cur
        BY <2>1, <4>1, <4>2
      <4>. QED
        BY <4>3, <4>4 DEF OnPath, Walked
    <3>. QED
      BY <3>1, <3>2, <3>3
  <2>5. Unlinked(q) => /\ db[q].idxoff \in Records' \ gone2 /\ idx'[db[q].idxoff].key = call[q].key
                       /\ nxt2[db[q].idxoff] = nxt2[c]
    BY <2>1 DEF ChainKnown, SameRecord
  <2>6. Unlinked(q)' <=> Unlinked(q)
    BY DEF Unlinked
  <2>7. pc[q] \in DeletingPoints =>
              /\ db[q].ptroff \in {c} \cup Members(c, gone) /\ nxt2[db[q].ptroff] = db[q].idxoff
              /\ db[q].idxoff \in Members(c, gone) /\ idx'[db[q].idxoff].key = call[q].key
              /\ Leads(c, nxt2[db[q].idxoff], db[q].ptrval)'
    BY <2>1, <2>2, <2>3
  <2>8. pc[q] \in KeyGonePoints => \A m \in Members(c, gone) : idx'[m].key # call[q].key
    BY <2>1, <2>2
  <2>9. pc[q] \in HeadKnown => Leads(c, nxt2[c], db[q].chainptr)'
    BY <2>1, <2>2, <2>3
  <2>. QED
    BY <2>1, <2>2, <2>4, <2>5, <2>6, <2>7, <2>8, <2>9 DEF ChainKnown, Leads
<1>. QED
  BY <1>1, <1>2

LEMMA FreeKnownKept ==
  ASSUME NEW q \in Procs, NEW nxt, NEW nxt2, NEW gone, NEW gone2, FreeKnown(q, nxt, gone),
         pc'[q] = pc[q], db'[q] = db[q],
         pc[q] \in FreeHeld => SameFree(nxt, nxt2, gone, gone2),
         pc[q] = "del_setfree" => SameRecord(db[q].idxoff, nxt, nxt2, gone2)
  PROVE  FreeKnown(q, nxt2, gone2)'
<1>1. CASE pc[q] \notin FreeHeld
  <2>1. pc[q] \notin {"del_idx", "del_setfree", "del_unlink", "ff_walk", "ff_unlink"}
    BY <1>1 DEF FreeHeld, DeletePoints, FreePoints
  <2>. QED
    BY <2>1 DEF FreeKnown
<1>2. CASE pc[q] \in FreeHeld
  <2>1. /\ FreeMembers(gone2)' = FreeMembers(gone)
        /\ \A m \in {FREE_OFF} \cup FreeMembers(gone) : nxt2[m] = nxt[m]
    BY <1>2 DEF SameFree
  <2>2. pc[q] = "del_idx" => db[q].freeptr = nxt2[FREE_OFF]
    BY <2>1 DEF FreeKnown
  <2>3. pc[q] = "del_setfree" => /\ db[q].idxoff \in Records' \ gone2 /\ idx'[db[q].idxoff].key = BLANK
                                 /\ nxt2[db[q].idxoff] = nxt2[FREE_OFF]
    BY <2>1 DEF FreeKnown, SameRecord
  <2>4. pc[q] = "ff_walk" => /\ db[q].saveoffset \in {FREE_OFF} \cup FreeMembers(gone)
                             /\ nxt2[db[q].saveoffset] = db[q].cur
    BY <2>1 DEF FreeKnown
  <2>5. pc[q] = "ff_unlink" =>
              /\ db[q].saveoffset \in {FREE_OFF} \cup FreeMembers(gone)
              /\ nxt2[db[q].saveoffset] = db[q].idxoff
              /\ db[q].idxoff \in FreeMembers(gone) /\ db[q].cur = db[q].idxoff
              /\ nxt2[db[q].idxoff] = db[q].ptrval
    BY <2>1 DEF FreeKnown
  <2>6. pc[q] = "del_unlink" => db[q].idxoff \in FreeMembers(gone)
    BY DEF FreeKnown
  <2>. QED
    BY <2>1, <2>2, <2>3, <2>4, <2>5, <2>6 DEF FreeKnown
<1>. QED
  BY <1>1, <1>2

-----------------------------------------------------------------------------
\* Steps that change no list

\* A step of a process that lives on cuts no chain.
LEMMA CutsSame ==
  ASSUME NEW p \in Procs, Alone(p), pc[p] # "cut", pc'[p] # "cut"
  PROVE  Cut' = Cut /\ CutChains' = CutChains
<1>1. Cut' = Cut /\ \A q \in Cut : call'[q] = call[q]
  BY DEF Alone, Cut
<1>. QED
  BY <1>1 DEF CutChains

\* What p has in its hands, off the lists, stays as it is, and no pointer is
\* written.
Quiet(p) ==
    /\ Alone(p) /\ head' = head /\ idx' = idx
    /\ pc[p] \notin {"del_setfree", "del_unlink"} /\ pc'[p] \notin {"del_setfree", "del_unlink"}
    /\ pc[p] # "cut" /\ pc'[p] # "cut"
    /\ Unlinked(p)' <=> Unlinked(p)
    /\ Took(p)' <=> Took(p)
    /\ Unlinked(p) \/ Took(p) => db'[p].idxoff = db[p].idxoff

LEMMA QuietSets ==
  ASSUME NEW p \in Procs, Quiet(p)
  PROVE  /\ Records' = Records /\ Unlinking' = Unlinking /\ CutChains' = CutChains
         /\ \A gone, c : Members(c, gone)' = Members(c, gone)
         /\ \A gone : FreeMembers(gone)' = FreeMembers(gone)
         /\ \A gone : OffListsOK(gone) => OffListsOK(gone)'
<1>1. /\ Alone(p) /\ head' = head /\ idx' = idx
      /\ pc[p] \notin {"del_setfree", "del_unlink"} /\ pc'[p] \notin {"del_setfree", "del_unlink"}
      /\ Unlinked(p)' <=> Unlinked(p)
      /\ Took(p)' <=> Took(p)
      /\ Unlinked(p) \/ Took(p) => db'[p].idxoff = db[p].idxoff
  BY DEF Quiet
<1>2. \A q \in Procs : q # p => pc'[q] = pc[q] /\ db'[q] = db[q]
  BY <1>1 DEF Alone
<1>3. Records' = Records /\ CutChains' = CutChains
  BY <1>1, CutsSame DEF Records, Quiet
<1>4. Unlinking' = Unlinking
  BY <1>1, <1>2 DEF Unlinking
<1>5. \A q \in Procs : (Unlinked(q)' <=> Unlinked(q)) /\ (Unlinked(q) => db'[q].idxoff = db[q].idxoff)
  BY <1>1, <1>2 DEF Unlinked
<1>6. \A q \in Procs : (OffLists(q)' <=> OffLists(q)) /\ (OffLists(q) => db'[q].idxoff = db[q].idxoff)
  BY <1>1, <1>2 DEF OffLists, Took
<1>7. \A gone, c : Members(c, gone)' = Members(c, gone)
  BY <1>1, <1>3, <1>5 DEF Members
<1>8. \A gone : FreeMembers(gone)' = FreeMembers(gone)
  BY <1>1, <1>3, <1>6 DEF FreeMembers
<1>9. ASSUME NEW gone PROVE OffListsOK(gone) => OffListsOK(gone)'
  <2>. SUFFICES ASSUME OffListsOK(gone) PROVE OffListsOK(gone)'
    OBVIOUS
  <2>1. \A q \in Procs : OffLists(q)' =>
            db'[q].idxoff \in Records' \ gone /\ idx'[db'[q].idxoff].key = BLANK
    BY <1>1, <1>3, <1>6 DEF OffListsOK
  <2>2. \A q, r \in Procs : q # r /\ OffLists(q)' /\ OffLists(r)' => db'[q].idxoff # db'[r].idxoff
    BY <1>6 DEF OffListsOK
  <2>. QED
    BY <2>1, <2>2 DEF OffListsOK
<1>. QED
  BY <1>3, <1>4, <1>7, <1>8, <1>9

\* Such a step keeps the invariant if it keeps what p itself knows.
LEMMA QuietLists ==
  ASSUME NEW nxt, NEW gone, ListInv(nxt, gone), NEW p \in Procs, Quiet(p), FreeKnown(p, nxt, gone)',
         \A c \in Chains : c = ChainOff(p)' => ChainKnown(p, c, nxt, gone)'
  PROVE  ListInv(nxt, gone)'
<1>1. /\ Records' = Records /\ Unlinking' = Unlinking /\ CutChains' = CutChains
      /\ \A c : Members(c, gone)' = Members(c, gone)
      /\ FreeMembers(gone)' = FreeMembers(gone)
      /\ OffListsOK(gone)'
  BY QuietSets, InvParts
<1>2. Alone(p) /\ head' = head /\ idx' = idx /\ p \notin Unlinking
  BY DEF Quiet, Unlinking
<1>3. \A q \in Procs : q # p => pc'[q] = pc[q] /\ db'[q] = db[q] /\ call'[q] = call[q]
  BY <1>2 DEF Alone
<1>4. Links(nxt)'
  <2>1. /\ nxt \in [Cells -> Nat]
        /\ \A q \in Unlinking : /\ Leads(ChainOff(q), nxt[db[q].ptroff], db[q].saveptr)
                                /\ Readptr(db[q].ptroff) = db[q].idxoff
        /\ \A m \in Heads \cup Records :
              \/ nxt[m] = Readptr(m)
              \/ \E q \in Unlinking : db[q].ptroff = m
              \/ nxt[m] = 0 /\ StrayCell(m)
    BY InvParts DEF Links
  <2>2. \A q \in Unlinking : db'[q] = db[q] /\ ChainOff(q)' = ChainOff(q)
    BY <1>2, <1>3 DEF Unlinking, ChainOff
  <2>3. /\ \A m : Readptr(m)' = Readptr(m) /\ (StrayCell(m)' <=> StrayCell(m))
        /\ \A c, v, g : Leads(c, v, g)' <=> Leads(c, v, g)
    BY <1>1, <1>2 DEF Readptr, StrayCell, Leads
  <2>. QED
    BY <1>1, <2>1, <2>2, <2>3 DEF Links, Heads
<1>5. /\ \A c \in Chains : IsList(c, Members(c, gone), nxt)'
      /\ IsList(FREE_OFF, FreeMembers(gone), nxt)'
  BY <1>1, InvParts DEF IsList
<1>6. KeyOnce(gone)'
  BY <1>1, <1>2, InvParts DEF KeyOnce
<1>7. /\ \A c \in Chains : SameChain(c, nxt, nxt, gone, gone)
      /\ SameFree(nxt, nxt, gone, gone)
      /\ \A n \in Records \ gone : SameRecord(n, nxt, nxt, gone)
  BY <1>1, <1>2 DEF SameChain, SameFree, SameRecord
<1>8. \A q \in Procs : FreeKnown(q, nxt, gone)'
  <2>. SUFFICES ASSUME NEW q \in Procs, q # p PROVE FreeKnown(q, nxt, gone)'
    OBVIOUS
  <2>1. FreeKnown(q, nxt, gone) /\ pc'[q] = pc[q] /\ db'[q] = db[q]
    BY <1>3, InvParts
  <2>2. pc[q] = "del_setfree" => db[q].idxoff \in Records \ gone
    BY <2>1 DEF FreeKnown
  <2>. QED
    BY <1>7, <2>1, <2>2, FreeKnownKept
<1>9. \A q \in Procs, c \in Chains : c = ChainOff(q)' => ChainKnown(q, c, nxt, gone)'
  <2>. SUFFICES ASSUME NEW q \in Procs, q # p, NEW c \in Chains, c = ChainOff(q)'
                PROVE  ChainKnown(q, c, nxt, gone)'
    OBVIOUS
  <2>1. pc'[q] = pc[q] /\ db'[q] = db[q] /\ call'[q] = call[q]
    BY <1>3
  <2>2. ChainKnown(q, c, nxt, gone)
    BY <2>1, InvParts DEF ChainOff
  <2>3. Unlinked(q) => db[q].idxoff \in Records \ gone
    BY <2>2 DEF ChainKnown
  <2>. QED
    BY <1>1, <1>7, <2>1, <2>2, <2>3, ChainKnownKept
<1>. QED
  BY <1>1, <1>4, <1>5, <1>6, <1>8, <1>9, InvParts DEF ListInv

-----------------------------------------------------------------------------
\* What a process finds in the files

\* No pointer of the free list, and none of the process's own chain, is on
\* the way of a deletion by another.
LEMMA FreePointers ==
  ASSUME TypeOK, CallOK, NEW nxt, NEW gone, ListInv(nxt, gone)
  PROVE  \A m \in {FREE_OFF} \cup FreeMembers(gone) : nxt[m] = Readptr(m)
<1>1. \A m \in Heads \cup Records :
          \/ nxt[m] = Readptr(m)
          \/ \E q \in Unlinking : db[q].ptroff = m
          \/ nxt[m] = 0 /\ StrayCell(m)
  BY InvParts DEF Links
<1>2. ASSUME NEW q \in Unlinking PROVE db[q].ptroff \notin {FREE_OFF} \cup FreeMembers(gone)
  <2>1. q \in Procs /\ pc[q] \in {"del_setfree", "del_unlink"} /\ pc[q] \in KeyPoints
    BY DEF Unlinking, KeyPoints, DeletePoints
  <2>2. ChainOff(q) \in Chains
    BY <2>1, HasChain
  <2>3. db[q].ptroff \in {ChainOff(q)} \cup Members(ChainOff(q), gone)
    BY <2>1, <2>2, InvParts DEF ChainKnown
  <2>. QED
    BY <2>2, <2>3, Sets
<1>3. ASSUME NEW m \in {FREE_OFF} \cup FreeMembers(gone) PROVE ~StrayCell(m)
  BY <1>3, Sets DEF StrayCell, FreeMembers
<1>. QED
  BY <1>1, <1>2, <1>3, Sets DEF Heads

LEMMA OwnPointers ==
  ASSUME TypeOK, CallOK, LockOK, NEW nxt, NEW gone, ListInv(nxt, gone),
         NEW p \in Procs, pc[p] \in ChainHeld, p \notin Unlinking
  PROVE  /\ ChainOff(p) \in Chains
         /\ \A m \in {ChainOff(p)} \cup Members(ChainOff(p), gone) :
               Leads(ChainOff(p), nxt[m], Readptr(m))
<1>1. \A m \in Heads \cup Records :
          \/ nxt[m] = Readptr(m)
          \/ \E q \in Unlinking : db[q].ptroff = m
          \/ nxt[m] = 0 /\ StrayCell(m)
  BY InvParts DEF Links
<1>2. ChainOff(p) \in Chains
  BY HasChain DEF ChainHeld
<1>3. ASSUME NEW q \in Unlinking PROVE db[q].ptroff \notin {ChainOff(p)} \cup Members(ChainOff(p), gone)
  <2>1. /\ q \in Procs /\ q # p /\ pc[q] \in {"del_setfree", "del_unlink"}
        /\ pc[q] \in KeyPoints /\ pc[q] \in ChainHeld /\ pc[q] \in DeletePoints
    BY DEF Unlinking, KeyPoints, DeletePoints, ChainHeld
  <2>2. ChainOff(q) \in Chains /\ call[q].op # "fetch"
    BY <2>1, HasChain DEF CallOK
  <2>3. db[q].ptroff \in {ChainOff(q)} \cup Members(ChainOff(q), gone)
    BY <2>1, <2>2, InvParts DEF ChainKnown
  <2>4. ChainOff(p) # ChainOff(q)
    BY <2>1, <2>2, ChainApart
  <2>. QED
    BY <1>2, <2>2, <2>3, <2>4, Sets
<1>4. ASSUME NEW m \in {ChainOff(p)} \cup Members(ChainOff(p), gone), StrayCell(m)
      PROVE  ChainOff(p) \in CutChains
  BY <1>2, <1>4, Sets DEF StrayCell, Members
<1>. QED
  BY <1>1, <1>2, <1>3, <1>4, Sets DEF Heads, Leads

\* Where process p knows nothing of the lists.
Ignorant == {"idle", "lock_chain", "read_chain", "readdat", "unlock_chain", "overwrite"}
            \cup ScanPoints \cup Ended

LEMMA NothingKnown ==
  ASSUME NEW p \in Procs, NEW nxt, NEW gone, pc'[p] \in Ignorant
  PROVE  FreeKnown(p, nxt, gone)' /\ \A c : ChainKnown(p, c, nxt, gone)'
<1>1. /\ pc'[p] \notin {"walk", "del_idx", "del_setfree", "del_unlink", "ff_walk", "ff_unlink"}
      /\ pc'[p] \notin {"idx_unlock", "link"} /\ pc'[p] \notin DeletingPoints
      /\ pc'[p] \notin KeyGonePoints /\ pc'[p] \notin HeadKnown
  BY DEF Ignorant, ScanPoints, Ended, Killed, DeletingPoints, KeyGonePoints, HeadKnown, FreePoints,
         AppendPoints, StorePoints
<1>. QED
  BY <1>1 DEF FreeKnown, ChainKnown, Unlinked

\* A process goes on to such a point, with nothing in its hands.
LEMMA ForgetLists ==
  ASSUME NEW nxt, NEW gone, ListInv(nxt, gone), NEW p \in Procs, Quiet(p), pc'[p] \in Ignorant
  PROVE  ListInv(nxt, gone)'
BY NothingKnown, QuietLists

\* What db_store knows when it has looked its key up.
LEMMA StoreKnows ==
  ASSUME NEW nxt, NEW gone, NEW p \in Procs, Quiet(p), NEW c \in Chains, ChainKnown(p, c, nxt, gone),
         call'[p] = call[p], pc'[p] \in StorePoints \cup FreePoints \cup AppendPoints,
         pc'[p] # "overwrite",
         \A m \in Members(c, gone) : idx[m].key # call[p].key,
         pc'[p] \in HeadKnown => Leads(c, nxt[c], db'[p].chainptr)
  PROVE  ChainKnown(p, c, nxt, gone)'
<1>1. /\ Members(c, gone)' = Members(c, gone) /\ Records' = Records /\ idx' = idx
      /\ CutChains' = CutChains
  BY QuietSets DEF Quiet
<1>2. /\ pc'[p] \notin {"walk", "del_idx", "del_setfree", "del_unlink"}
      /\ pc'[p] \notin DeletingPoints
  BY DEF DeletingPoints, FreePoints, AppendPoints, StorePoints
<1>3. Unlinked(p)' => /\ db'[p].idxoff \in Records' \ gone /\ idx'[db'[p].idxoff].key = call'[p].key
                      /\ nxt[db'[p].idxoff] = nxt[c]
  BY <1>1 DEF ChainKnown, Quiet
<1>. QED
  BY <1>1, <1>2, <1>3 DEF ChainKnown, Leads

-----------------------------------------------------------------------------
\* The steps that change no list, by function of db.c

\* A step that does not come from, nor lead to, a point where something is
\* off the lists.
Marked == {"del_setfree", "del_unlink", "idx_unlock", "link", "reuse_dat", "reuse_idx", "ff_unlock"}

LEMMA PlainStep ==
  ASSUME NEW p \in Procs, Alone(p), head' = head, idx' = idx,
         pc[p] \notin Marked \cup {"cut"}, pc'[p] \notin Marked \cup {"cut"}
  PROVE  Quiet(p)
BY DEF Marked, Quiet, Unlinked, Took

\* So does one that takes or drops a lock within a deletion or a store.
LEMMA SameStep ==
  ASSUME NEW p \in Procs, Alone(p), head' = head, idx' = idx, db'[p] = db[p],
         \/ pc[p] = "idx_unlock" /\ pc'[p] = "link"
         \/ pc[p] = "ff_unlock" /\ pc'[p] = IF db[p].cur = 0 THEN "dat_lock" ELSE "reuse_dat"
         \/ pc[p] = "ff_walk" /\ pc'[p] = "ff_unlock" /\ db[p].cur = 0
  PROVE  Quiet(p)
BY DEF Quiet, Unlinked, Took

LEMMA ReadChainLists ==
  ASSUME TypeOK, CallOK, LockOK, NEW nxt, NEW gone, ListInv(nxt, gone), NEW p \in Procs, ReadChain(p)
  PROVE  ListInv(nxt, gone)'
<1>. DEFINE h == [db[p] EXCEPT !.ptroff = ChainOff(p), !.cur = Readptr(ChainOff(p))]
<1>1. Step(p, "read_chain", "walk") /\ Handles(p, h) /\ head' = head /\ idx' = idx
  BY DEF ReadChain, files
<1>2. /\ pc[p] = "read_chain" /\ pc'[p] = "walk" /\ call' = call /\ Alone(p)
      /\ db'[p] = h /\ db[p] \in Handle
  BY <1>1, StepEffect, ProcType
<1>3. db'[p].ptroff = ChainOff(p) /\ db'[p].cur = Readptr(ChainOff(p))
  BY <1>2 DEF Handle
<1>4. Quiet(p)
  BY <1>1, <1>2, PlainStep DEF Marked
<1>5. FreeKnown(p, nxt, gone)'
  BY <1>2 DEF FreeKnown
<1>6. ASSUME NEW c \in Chains, c = ChainOff(p)' PROVE ChainKnown(p, c, nxt, gone)'
  <2>1. c = ChainOff(p) /\ Leads(c, nxt[c], Readptr(c)) /\ Members(c, gone)' = Members(c, gone)
    BY <1>2, <1>4, <1>6, QuietSets, OwnPointers DEF ChainOff, ChainHeld, KeyPoints, FindPoints, Unlinking
  <2>0. PICK V : V = {}
    OBVIOUS
  <2>2. ASSUME nxt[c] = Readptr(c) PROVE OnPath(p, c, nxt, gone)'
    <3>1. /\ V \in SUBSET Members(c, gone)'
          /\ db'[p].ptroff \in {c} \cup V
          /\ nxt[c] \in V \cup {db'[p].cur}
          /\ \A n \in V : nxt[n] \in V \cup {db'[p].cur} /\ idx'[n].key # call'[p].key
      BY <1>3, <2>0, <2>1, <2>2
    <3>2. nxt[db'[p].ptroff] = db'[p].cur
      BY <1>3, <2>1, <2>2
    <3>. QED
      BY <3>1, <3>2 DEF OnPath, Walked
  <2>3. ASSUME nxt[c] # Readptr(c) PROVE Astray(p, c, gone)'
    <3>1. nxt[c] = 0 /\ c \in CutChains /\ c \in CutChains'
      BY <1>4, <2>1, <2>3, QuietSets DEF Leads
    <3>2. IsList(c, Members(c, gone), nxt) /\ Members(c, gone) \in SUBSET Nat /\ 0 \notin Members(c, gone)
      BY InvParts, Sets
    <3>3. nxt[c] \in V \cup {0} /\ \A n \in Members(c, gone) \cap V : nxt[n] \in V \cup {0}
      BY <2>0, <3>1
    <3>4. Members(c, gone) \subseteq V
      BY <3>2, <3>3, ListWithin
    <3>. QED
      BY <2>0, <2>1, <3>1, <3>4 DEF Astray
  <2>4. OnPath(p, c, nxt, gone)' \/ Astray(p, c, gone)'
    BY <2>2, <2>3
  <2>. QED
    BY <1>2, <2>4 DEF ChainKnown, Unlinked, DeletingPoints, KeyGonePoints, HeadKnown,
                      FreePoints, AppendPoints, StorePoints
<1>. QED
  BY <1>4, <1>5, <1>6, QuietLists

\* Where a walk of the chain is, and what it has passed.
LEMMA WalkAt ==
  ASSUME TypeOK, CallOK, LockOK, NEW nxt, NEW gone, ListInv(nxt, gone), NEW p \in Procs, pc[p] = "walk",
         ~Astray(p, ChainOff(p), gone)
  PROVE  LET c == ChainOff(p) IN
         /\ c \in Chains /\ call[p].key \in Keys
         /\ db[p].ptroff \in {c} \cup Members(c, gone) /\ nxt[db[p].ptroff] = db[p].cur
         /\ db[p].cur \in Members(c, gone) \cup {0}
         /\ db[p].cur # 0 => Leads(c, nxt[db[p].cur], idx[db[p].cur].ptr)
         /\ Walked(p, c, nxt, gone)
<1>. DEFINE c == ChainOff(p)
<1>1. pc[p] \in KeyPoints /\ pc[p] \in ChainHeld /\ p \notin Unlinking
  BY DEF KeyPoints, FindPoints, ChainHeld, Unlinking
<1>2. c \in Chains /\ call[p].key \in Keys
  BY <1>1, HasChain
<1>3. ChainKnown(p, c, nxt, gone) /\ IsList(c, Members(c, gone), nxt)
  BY <1>2, InvParts
<1>4. nxt[db[p].ptroff] = db[p].cur /\ Walked(p, c, nxt, gone)
  BY <1>3 DEF ChainKnown, OnPath
<1>5. db[p].ptroff \in {c} \cup Members(c, gone)
  BY <1>4 DEF Walked
<1>6. db[p].cur \in Members(c, gone) \cup {0}
  BY <1>3, <1>4, <1>5 DEF IsList
<1>7. db[p].cur # 0 => Leads(c, nxt[db[p].cur], idx[db[p].cur].ptr)
  <2>. SUFFICES ASSUME db[p].cur # 0 PROVE Leads(c, nxt[db[p].cur], idx[db[p].cur].ptr)
    OBVIOUS
  <2>1. Readptr(db[p].cur) = idx[db[p].cur].ptr
    BY <1>6, Sets DEF Readptr
  <2>2. Leads(c, nxt[db[p].cur], Readptr(db[p].cur))
    BY <1>1, <1>6, OwnPointers
  <2>. QED
    BY <2>1, <2>2
<1>. QED
  BY <1>2, <1>4, <1>5, <1>6, <1>7

LEMMA WalkOnLists ==
  ASSUME TypeOK, CallOK, LockOK, NEW nxt, NEW gone, ListInv(nxt, gone), NEW p \in Procs, WalkOn(p)
  PROVE  ListInv(nxt, gone)'
<1>. DEFINE h == [Readidx(p, db[p].cur) EXCEPT !.ptroff = db[p].cur, !.cur = idx[db[p].cur].ptr]
<1>1. /\ Step(p, "walk", "walk") /\ Handles(p, h) /\ head' = head /\ idx' = idx
      /\ db[p].cur \in DOMAIN idx /\ idx[db[p].cur].key # call[p].key
  BY DEF WalkOn, files
<1>2. /\ pc[p] = "walk" /\ pc'[p] = "walk" /\ call' = call /\ Alone(p)
      /\ db'[p] = h /\ Readidx(p, db[p].cur) \in Handle
  BY <1>1, StepEffect, ReadidxType
<1>3. db'[p].ptroff = db[p].cur /\ db'[p].cur = idx[db[p].cur].ptr
  BY <1>2 DEF Handle
<1>4. Quiet(p)
  BY <1>1, <1>2, PlainStep DEF Marked
<1>5. FreeKnown(p, nxt, gone)'
  BY <1>2 DEF FreeKnown
<1>6. ASSUME NEW c \in Chains, c = ChainOff(p)' PROVE ChainKnown(p, c, nxt, gone)'
  <2>1. c = ChainOff(p) /\ Members(c, gone)' = Members(c, gone) /\ CutChains' = CutChains
    BY <1>2, <1>4, <1>6, QuietSets DEF ChainOff
  <2>2. CASE Astray(p, c, gone)
    <3>1. Astray(p, c, gone)'
      BY <1>1, <1>2, <2>1, <2>2 DEF Astray
    <3>. QED
      BY <1>2, <3>1 DEF ChainKnown, Unlinked, DeletingPoints, KeyGonePoints, HeadKnown,
                        FreePoints, AppendPoints, StorePoints
  <2>3. CASE ~Astray(p, c, gone)
    <3>1. /\ db[p].cur \in Members(c, gone) /\ Leads(c, nxt[db[p].cur], idx[db[p].cur].ptr)
          /\ Walked(p, c, nxt, gone)
      BY <1>1, <1>2, <2>1, <2>3, WalkAt, Sets
    <3>2. PICK V \in SUBSET Members(c, gone) :
              /\ db[p].ptroff \in {c} \cup V
              /\ nxt[c] \in V \cup {db[p].cur}
              /\ \A n \in V : nxt[n] \in V \cup {db[p].cur} /\ idx[n].key # call[p].key
      BY <3>1 DEF Walked
    <3>3. PICK W : W = V \cup {db[p].cur}
      OBVIOUS
    <3>4. CASE nxt[db[p].cur] = idx[db[p].cur].ptr
      <4>1. /\ W \in SUBSET Members(c, gone)'
            /\ db'[p].ptroff \in {c} \cup W
            /\ nxt[c] \in W \cup {db'[p].cur}
            /\ \A n \in W : nxt[n] \in W \cup {db'[p].cur} /\ idx'[n].key # call'[p].key
        BY <1>1, <1>2, <1>3, <2>1, <3>1, <3>2, <3>3, <3>4
      <4>2. Walked(p, c, nxt, gone)' /\ nxt[db'[p].ptroff] = db'[p].cur
        BY <1>3, <3>4, <4>1 DEF Walked
      <4>. QED
        BY <1>2, <4>2 DEF ChainKnown, OnPath, Unlinked, DeletingPoints, KeyGonePoints, HeadKnown,
                          FreePoints, AppendPoints, StorePoints
    <3>5. CASE nxt[db[p].cur] # idx[db[p].cur].ptr
      <4>1. nxt[db[p].cur] = 0 /\ c \in CutChains
        BY <3>1, <3>5 DEF Leads
      <4>2. W \in SUBSET Members(c, gone) /\ nxt[c] \in W \cup {0} /\ \A n \in W : nxt[n] \in W \cup {0}
        BY <3>1, <3>2, <3>3, <4>1
      <4>3. IsList(c, Members(c, gone), nxt) /\ Members(c, gone) \in SUBSET Nat /\ 0 \notin Members(c, gone)
        BY InvParts, Sets
      <4>4. Members(c, gone) \subseteq W
        BY <4>2, <4>3, ListWithin
      <4>5. Astray(p, c, gone)'
        BY <1>1, <1>2, <2>1, <3>2, <3>3, <4>1, <4>4 DEF Astray
      <4>. QED
        BY <1>2, <4>5 DEF ChainKnown, Unlinked, DeletingPoints, KeyGonePoints, HeadKnown,
                          FreePoints, AppendPoints, StorePoints
    <3>. QED
      BY <3>4, <3>5
  <2>. QED
    BY <2>2, <2>3
<1>. QED
  BY <1>4, <1>5, <1>6, QuietLists

\* What a walk finds with its key is on what is left of the chain.
FoundOnPath(gone) ==
    \A p \in Procs : pc[p] = "walk" /\ db[p].cur \in DOMAIN idx /\ idx[db[p].cur].key = call[p].key =>
                        ~Astray(p, ChainOff(p), gone)

LEMMA FoundLists ==
  ASSUME TypeOK, CallOK, LockOK, NEW nxt, NEW gone, ListInv(nxt, gone), NEW p \in Procs, Found(p),
         FoundOnPath(gone)
  PROVE  ListInv(nxt, gone)'
<1>. DEFINE to == AfterFound(call[p], idx[db[p].cur].datlen)
<1>1. /\ Step(p, "walk", to) /\ Handles(p, Readidx(p, db[p].cur)) /\ head' = head /\ idx' = idx
      /\ db[p].cur \in DOMAIN idx /\ idx[db[p].cur].key = call[p].key
  BY DEF Found, files
<1>2. /\ pc[p] = "walk" /\ pc'[p] = to /\ call' = call /\ Alone(p)
      /\ db'[p] = Readidx(p, db[p].cur) /\ db[p] \in Handle
  BY <1>1, StepEffect, ProcType
<1>3. /\ db'[p].ptroff = db[p].ptroff /\ db'[p].idxoff = db[p].cur
      /\ db'[p].ptrval = idx[db[p].cur].ptr
  BY <1>2 DEF Handle, Readidx
<1>4. call[p].op \in {"fetch", "delete", "store"}
  BY <1>2 DEF CallOK, KeyPoints, FindPoints
<1>5. to \in {"readdat", "unlock_chain", "overwrite", "del_lock"}
  BY <1>4 DEF AfterFound
<1>. HIDE DEF to
<1>6. Quiet(p)
  BY <1>1, <1>2, <1>5, PlainStep DEF Marked
<1>7. CASE to # "del_lock"
  BY <1>2, <1>5, <1>6, <1>7, ForgetLists DEF Ignorant
<1>8. CASE to = "del_lock"
  <2>1. FreeKnown(p, nxt, gone)'
    BY <1>2, <1>8 DEF FreeKnown
  <2>2. ASSUME NEW c \in Chains, c = ChainOff(p)' PROVE ChainKnown(p, c, nxt, gone)'
    <3>1. c = ChainOff(p) /\ Members(c, gone)' = Members(c, gone)
      BY <1>2, <1>6, <2>2, QuietSets DEF ChainOff
    <3>2. /\ db[p].ptroff \in {c} \cup Members(c, gone) /\ nxt[db[p].ptroff] = db[p].cur
          /\ db[p].cur \in Members(c, gone) /\ Leads(c, nxt[db[p].cur], idx[db[p].cur].ptr)
          /\ CutChains' = CutChains
      BY <1>1, <1>2, <1>6, <3>1, QuietSets, WalkAt, Sets DEF FoundOnPath
    <3>3. /\ db'[p].ptroff \in {c} \cup Members(c, gone)' /\ nxt[db'[p].ptroff] = db'[p].idxoff
          /\ db'[p].idxoff \in Members(c, gone)' /\ idx'[db'[p].idxoff].key = call'[p].key
          /\ Leads(c, nxt[db[p].idxoff], db[p].ptrval)'
      BY <1>1, <1>2, <1>3, <3>1, <3>2 DEF Leads
    <3>. QED
      BY <1>2, <1>8, <3>3 DEF ChainKnown, Leads, Unlinked, KeyGonePoints, HeadKnown,
                              FreePoints, AppendPoints, StorePoints
  <2>. QED
    BY <1>6, <2>1, <2>2, QuietLists
<1>. QED
  BY <1>7, <1>8

\* The chain has been walked to its end: the key is not on it.
LEMMA NotFoundLists ==
  ASSUME TypeOK, CallOK, LockOK, NEW nxt, NEW gone, ListInv(nxt, gone), NEW p \in Procs, NotFound(p)
  PROVE  ListInv(nxt, gone)'
<1>1. PICK to \in {"read_head", "unlock_chain"} : Step(p, "walk", to)
  BY DEF NotFound
<1>2. db[p].cur = 0 /\ db' = db /\ head' = head /\ idx' = idx
  BY DEF NotFound, files
<1>3. pc[p] = "walk" /\ pc'[p] = to /\ call' = call /\ Alone(p)
  BY <1>1, <1>2, StepEffect
<1>4. Quiet(p)
  BY <1>2, <1>3, PlainStep DEF Marked
<1>5. CASE to = "unlock_chain"
  BY <1>3, <1>4, <1>5, ForgetLists DEF Ignorant
<1>6. CASE to = "read_head"
  <2>1. FreeKnown(p, nxt, gone)'
    BY <1>3, <1>6 DEF FreeKnown
  <2>2. ASSUME NEW c \in Chains, c = ChainOff(p)' PROVE ChainKnown(p, c, nxt, gone)'
    <3>0. c = ChainOff(p)
      BY <1>3, <2>2 DEF ChainOff
    <3>1. CASE Astray(p, c, gone)
      <4>1. \A m \in Members(c, gone) : idx[m].key # call[p].key
        BY <3>1 DEF Astray
      <4>2. ChainKnown(p, c, nxt, gone)
        BY <3>0, InvParts
      <4>. QED
        BY <1>3, <1>4, <1>6, <4>1, <4>2, StoreKnows DEF StorePoints, HeadKnown, FreePoints, AppendPoints
    <3>. SUFFICES ASSUME ~Astray(p, c, gone) PROVE ChainKnown(p, c, nxt, gone)'
      BY <3>1
    <3>2. PICK V \in SUBSET Members(c, gone) :
              /\ nxt[c] \in V \cup {0}
              /\ \A n \in V : nxt[n] \in V \cup {0} /\ idx[n].key # call[p].key
      BY <1>2, <1>3, <3>0, WalkAt DEF Walked
    <3>3. IsList(c, Members(c, gone), nxt) /\ Members(c, gone) \in SUBSET Nat /\ 0 \notin Members(c, gone)
      BY InvParts, Sets
    <3>4. Members(c, gone) \subseteq V
      BY <3>2, <3>3, ListWithin
    <3>5. \A m \in Members(c, gone) : idx[m].key # call[p].key
      BY <3>2, <3>4
    <3>6. ChainKnown(p, c, nxt, gone)
      BY <3>0, InvParts
    <3>. QED
      BY <1>3, <1>4, <1>6, <3>5, <3>6, StoreKnows DEF StorePoints, HeadKnown, FreePoints, AppendPoints
  <2>. QED
    BY <1>4, <2>1, <2>2, QuietLists
<1>. QED
  BY <1>5, <1>6

LEMMA FindLists ==
  ASSUME TypeOK, CallOK, LockOK, NEW nxt, NEW gone, ListInv(nxt, gone), NEW p \in Procs, FindStep(p),
         FoundOnPath(gone)
  PROVE  ListInv(nxt, gone)'
<1>1. CASE LockChain(p)
  <2>1. PICK t : Lock(p, "lock_chain", ChainOff(p), t, "read_chain")
    BY <1>1 DEF LockChain
  <2>2. pc[p] = "lock_chain" /\ pc'[p] = "read_chain" /\ Alone(p)
    BY <2>1, LockEffect
  <2>3. head' = head /\ idx' = idx
    BY <2>1 DEF Lock, files
  <2>. QED
    BY <2>2, <2>3, PlainStep, ForgetLists DEF Marked, Ignorant
<1>2. CASE FetchData(p)
  <2>1. Step(p, "readdat", "unlock_chain") /\ db' = db /\ head' = head /\ idx' = idx
    BY <1>2 DEF FetchData, files
  <2>2. pc[p] = "readdat" /\ pc'[p] = "unlock_chain" /\ Alone(p)
    BY <2>1, StepEffect
  <2>. QED
    BY <2>1, <2>2, PlainStep, ForgetLists DEF Marked, Ignorant
<1>3. CASE UnlockChain(p)
  <2>1. Return(p, "unlock_chain", ChainOff(p))
    BY <1>3 DEF UnlockChain
  <2>2. pc[p] = "unlock_chain" /\ pc'[p] = "idle" /\ Alone(p) /\ head' = head /\ idx' = idx
    BY <2>1, ReturnEffect DEF Return, files
  <2>. QED
    BY <2>2, PlainStep, ForgetLists DEF Marked, Ignorant
<1>. QED
  BY <1>1, <1>2, <1>3, ReadChainLists, WalkOnLists, FoundLists, NotFoundLists DEF FindStep

\* A step within a deletion that keeps where the record is.
LEMMA DeletingKept ==
  ASSUME NEW nxt, NEW gone, NEW p \in Procs, Quiet(p), NEW c \in Chains, ChainKnown(p, c, nxt, gone),
         call'[p] = call[p], pc[p] \in DeletingPoints, pc'[p] \in DeletingPoints,
         db'[p].ptroff = db[p].ptroff, db'[p].idxoff = db[p].idxoff, db'[p].ptrval = db[p].ptrval,
         pc'[p] = "del_idx" => db'[p].saveptr = db[p].ptrval
  PROVE  ChainKnown(p, c, nxt, gone)'
<1>1. Members(c, gone)' = Members(c, gone) /\ idx' = idx /\ CutChains' = CutChains
  BY QuietSets DEF Quiet
<1>2. /\ pc'[p] # "walk" /\ pc'[p] \notin {"del_setfree", "del_unlink"} /\ pc'[p] \notin KeyGonePoints
      /\ pc'[p] \notin HeadKnown /\ pc'[p] \notin {"idx_unlock", "link"}
  BY DEF DeletingPoints, KeyGonePoints, HeadKnown, FreePoints, AppendPoints, StorePoints
<1>. QED
  BY <1>1, <1>2 DEF ChainKnown, Leads, Unlinked

LEMMA DelReadfreeLists ==
  ASSUME TypeOK, CallOK, LockOK, NEW nxt, NEW gone, ListInv(nxt, gone), NEW p \in Procs, DelReadfree(p)
  PROVE  ListInv(nxt, gone)'
<1>. DEFINE h == [db[p] EXCEPT !.freeptr = Readptr(FREE_OFF), !.saveptr = db[p].ptrval]
<1>1. Step(p, "del_readfree", "del_idx") /\ Handles(p, h) /\ head' = head /\ idx' = idx
  BY DEF DelReadfree, files
<1>2. /\ pc[p] = "del_readfree" /\ pc'[p] = "del_idx" /\ call' = call /\ Alone(p)
      /\ db'[p] = h /\ db[p] \in Handle
  BY <1>1, StepEffect, ProcType
<1>3. /\ db'[p].freeptr = Readptr(FREE_OFF) /\ db'[p].saveptr = db[p].ptrval
      /\ db'[p].ptroff = db[p].ptroff /\ db'[p].idxoff = db[p].idxoff /\ db'[p].ptrval = db[p].ptrval
  BY <1>2 DEF Handle
<1>4. Quiet(p)
  BY <1>1, <1>2, PlainStep DEF Marked
<1>5. FreeKnown(p, nxt, gone)'
  <2>1. db'[p].freeptr = nxt[FREE_OFF]
    BY <1>3, FreePointers
  <2>. QED
    BY <1>2, <2>1 DEF FreeKnown
<1>6. ASSUME NEW c \in Chains, c = ChainOff(p)' PROVE ChainKnown(p, c, nxt, gone)'
  <2>1. ChainKnown(p, c, nxt, gone)
    BY <1>2, <1>6, InvParts DEF ChainOff
  <2>. QED
    BY <1>2, <1>3, <1>4, <2>1, DeletingKept DEF DeletingPoints
<1>. QED
  BY <1>4, <1>5, <1>6, QuietLists

\* Where the search of the free list is.
LEMMA FreeWalkAt ==
  ASSUME TypeOK, CallOK, NEW nxt, NEW gone, ListInv(nxt, gone), NEW p \in Procs, pc[p] = "ff_walk"
  PROVE  /\ db[p].saveoffset \in {FREE_OFF} \cup FreeMembers(gone) /\ nxt[db[p].saveoffset] = db[p].cur
         /\ db[p].cur \in FreeMembers(gone) \cup {0}
         /\ db[p].cur # 0 => nxt[db[p].cur] = idx[db[p].cur].ptr
<1>1. FreeKnown(p, nxt, gone) /\ IsList(FREE_OFF, FreeMembers(gone), nxt)
  BY InvParts
<1>2. db[p].saveoffset \in {FREE_OFF} \cup FreeMembers(gone) /\ nxt[db[p].saveoffset] = db[p].cur
  BY <1>1 DEF FreeKnown
<1>3. db[p].cur \in FreeMembers(gone) \cup {0}
  BY <1>1, <1>2 DEF IsList
<1>4. db[p].cur # 0 => nxt[db[p].cur] = idx[db[p].cur].ptr
  BY <1>3, FreePointers, Sets DEF Readptr
<1>. QED
  BY <1>2, <1>3, <1>4

\* A step of _db_findfree, which only reads: what it knows of the chain stays.
LEMMA FreeSearch ==
  ASSUME TypeOK, CallOK, NEW nxt, NEW gone, ListInv(nxt, gone), NEW p \in Procs, Quiet(p), FreeKnown(p, nxt, gone)',
         call' = call, pc[p] \in FreePoints, pc[p] # "ff_unlock", db'[p].chainptr = db[p].chainptr,
         pc'[p] \in FreePoints
  PROVE  ListInv(nxt, gone)'
<1>1. ASSUME NEW c \in Chains, c = ChainOff(p)' PROVE ChainKnown(p, c, nxt, gone)'
  <2>1. ChainKnown(p, c, nxt, gone)
    BY <1>1, InvParts DEF ChainOff
  <2>2. pc[p] \in KeyGonePoints /\ pc[p] \in HeadKnown /\ pc'[p] # "overwrite"
    BY DEF KeyGonePoints, HeadKnown, FreePoints
  <2>3. Leads(c, nxt[c], db'[p].chainptr) /\ \A m \in Members(c, gone) : idx[m].key # call[p].key
    BY <2>1, <2>2 DEF ChainKnown
  <2>. QED
    BY <2>1, <2>2, <2>3, StoreKnows
<1>. QED
  BY <1>1, QuietLists

LEMMA FreeReadLists ==
  ASSUME TypeOK, CallOK, LockOK, NEW nxt, NEW gone, ListInv(nxt, gone), NEW p \in Procs, FreeRead(p)
  PROVE  ListInv(nxt, gone)'
<1>. DEFINE h == [db[p] EXCEPT !.saveoffset = FREE_OFF, !.cur = Readptr(FREE_OFF)]
<1>1. Step(p, "ff_read", "ff_walk") /\ Handles(p, h) /\ head' = head /\ idx' = idx
  BY DEF FreeRead, files
<1>2. /\ pc[p] = "ff_read" /\ pc'[p] = "ff_walk" /\ call' = call /\ Alone(p)
      /\ db'[p] = h /\ db[p] \in Handle
  BY <1>1, StepEffect, ProcType
<1>3. /\ db'[p].saveoffset = FREE_OFF /\ db'[p].cur = Readptr(FREE_OFF)
      /\ db'[p].chainptr = db[p].chainptr
  BY <1>2 DEF Handle
<1>4. Quiet(p)
  BY <1>1, <1>2, PlainStep DEF Marked
<1>5. FreeKnown(p, nxt, gone)'
  <2>1. nxt[db'[p].saveoffset] = db'[p].cur
    BY <1>3, FreePointers
  <2>. QED
    BY <1>2, <1>3, <2>1 DEF FreeKnown
<1>. QED
  BY <1>2, <1>3, <1>4, <1>5, FreeSearch DEF FreePoints

LEMMA FreeWalkOnLists ==
  ASSUME TypeOK, CallOK, LockOK, NEW nxt, NEW gone, ListInv(nxt, gone), NEW p \in Procs, FreeWalkOn(p)
  PROVE  ListInv(nxt, gone)'
<1>. DEFINE h == [Readidx(p, db[p].cur) EXCEPT !.saveoffset = db[p].cur, !.cur = idx[db[p].cur].ptr]
<1>1. /\ Step(p, "ff_walk", "ff_walk") /\ Handles(p, h) /\ head' = head /\ idx' = idx
      /\ db[p].cur \in DOMAIN idx
  BY DEF FreeWalkOn, files
<1>2. /\ pc[p] = "ff_walk" /\ pc'[p] = "ff_walk" /\ call' = call /\ Alone(p)
      /\ db'[p] = h /\ Readidx(p, db[p].cur) \in Handle /\ db[p] \in Handle
  BY <1>1, StepEffect, ReadidxType, ProcType
<1>3. /\ db'[p].saveoffset = db[p].cur /\ db'[p].cur = idx[db[p].cur].ptr
  BY <1>2 DEF Handle
<1>4. db'[p].chainptr = db[p].chainptr
  BY <1>2 DEF Handle, Readidx
<1>5. Quiet(p)
  BY <1>1, <1>2, PlainStep DEF Marked
<1>6. FreeKnown(p, nxt, gone)'
  <2>1. db[p].cur \in FreeMembers(gone) /\ nxt[db[p].cur] = idx[db[p].cur].ptr
    BY <1>1, <1>2, FreeWalkAt, Sets
  <2>2. FreeMembers(gone)' = FreeMembers(gone)
    BY <1>5, QuietSets
  <2>3. db'[p].saveoffset \in {FREE_OFF} \cup FreeMembers(gone)' /\ nxt[db'[p].saveoffset] = db'[p].cur
    BY <1>3, <2>1, <2>2
  <2>. QED
    BY <1>2, <2>3 DEF FreeKnown
<1>. QED
  BY <1>2, <1>4, <1>5, <1>6, FreeSearch DEF FreePoints

LEMMA FreeFoundLists ==
  ASSUME TypeOK, CallOK, LockOK, NEW nxt, NEW gone, ListInv(nxt, gone), NEW p \in Procs, FreeFound(p)
  PROVE  ListInv(nxt, gone)'
<1>1. /\ Step(p, "ff_walk", "ff_unlink") /\ Handles(p, Readidx(p, db[p].cur))
      /\ head' = head /\ idx' = idx /\ db[p].cur \in DOMAIN idx
  BY DEF FreeFound, files
<1>2. /\ pc[p] = "ff_walk" /\ pc'[p] = "ff_unlink" /\ call' = call /\ Alone(p)
      /\ db'[p] = Readidx(p, db[p].cur) /\ db[p] \in Handle
  BY <1>1, StepEffect, ProcType
<1>3. /\ db'[p].saveoffset = db[p].saveoffset /\ db'[p].cur = db[p].cur /\ db'[p].idxoff = db[p].cur
      /\ db'[p].ptrval = idx[db[p].cur].ptr /\ db'[p].chainptr = db[p].chainptr
  BY <1>2 DEF Handle, Readidx
<1>4. Quiet(p)
  BY <1>1, <1>2, PlainStep DEF Marked
<1>5. FreeKnown(p, nxt, gone)'
  <2>1. /\ db[p].saveoffset \in {FREE_OFF} \cup FreeMembers(gone) /\ nxt[db[p].saveoffset] = db[p].cur
        /\ db[p].cur \in FreeMembers(gone) /\ nxt[db[p].cur] = idx[db[p].cur].ptr
    BY <1>1, <1>2, FreeWalkAt, Sets
  <2>2. FreeMembers(gone)' = FreeMembers(gone)
    BY <1>4, QuietSets
  <2>3. /\ db'[p].saveoffset \in {FREE_OFF} \cup FreeMembers(gone)' /\ nxt[db'[p].saveoffset] = db'[p].idxoff
        /\ db'[p].idxoff \in FreeMembers(gone)' /\ db'[p].cur = db'[p].idxoff
        /\ nxt[db'[p].idxoff] = db'[p].ptrval
    BY <1>3, <2>1, <2>2
  <2>. QED
    BY <1>2, <2>3 DEF FreeKnown
<1>. QED
  BY <1>2, <1>3, <1>4, <1>5, FreeSearch DEF FreePoints

LEMMA FreeNoneLists ==
  ASSUME TypeOK, CallOK, LockOK, NEW nxt, NEW gone, ListInv(nxt, gone), NEW p \in Procs, FreeNone(p)
  PROVE  ListInv(nxt, gone)'
<1>1. /\ Step(p, "ff_walk", "ff_unlock") /\ db[p].cur = 0 /\ db' = db
      /\ head' = head /\ idx' = idx
  BY DEF FreeNone, files
<1>2. pc[p] = "ff_walk" /\ pc'[p] = "ff_unlock" /\ call' = call /\ Alone(p)
  BY <1>1, StepEffect
<1>3. Quiet(p)
  BY <1>1, <1>2, SameStep
<1>4. FreeKnown(p, nxt, gone)'
  BY <1>2 DEF FreeKnown
<1>. QED
  BY <1>1, <1>2, <1>3, <1>4, FreeSearch DEF FreePoints

\* A step of db_store that is not in _db_findfree, or enters it or leaves it.
LEMMA StoreSearch ==
  ASSUME TypeOK, CallOK, NEW nxt, NEW gone, ListInv(nxt, gone), NEW p \in Procs, Quiet(p), call'[p] = call[p],
         pc[p] \in KeyGonePoints, pc'[p] \in StorePoints \cup FreePoints \cup AppendPoints,
         pc'[p] \notin {"overwrite", "ff_walk", "ff_unlink"},
         \/ pc'[p] \notin HeadKnown
         \/ pc[p] \in HeadKnown /\ db'[p].chainptr = db[p].chainptr
         \/ \A c \in Chains : c = ChainOff(p) => Leads(c, nxt[c], db'[p].chainptr)
  PROVE  ListInv(nxt, gone)'
<1>1. FreeKnown(p, nxt, gone)'
  BY DEF FreeKnown, StorePoints, FreePoints, AppendPoints
<1>2. ASSUME NEW c \in Chains, c = ChainOff(p)' PROVE ChainKnown(p, c, nxt, gone)'
  <2>1. c = ChainOff(p) /\ ChainKnown(p, c, nxt, gone)
    BY <1>2, InvParts DEF ChainOff
  <2>2. \A m \in Members(c, gone) : idx[m].key # call[p].key
    BY <2>1 DEF ChainKnown
  <2>3. pc'[p] \in HeadKnown => Leads(c, nxt[c], db'[p].chainptr)
    BY <2>1 DEF ChainKnown
  <2>. QED
    BY <2>1, <2>2, <2>3, StoreKnows
<1>. QED
  BY <1>1, <1>2, QuietLists

LEMMA ReadHeadLists ==
  ASSUME TypeOK, CallOK, LockOK, NEW nxt, NEW gone, ListInv(nxt, gone), NEW p \in Procs, ReadHead(p)
  PROVE  ListInv(nxt, gone)'
<1>. DEFINE h == [db[p] EXCEPT !.chainptr = Readptr(ChainOff(p))]
<1>1. PICK from \in {"read_head", "reread_head"}, to \in {"ff_lock", "dat_lock"} : Step(p, from, to)
  BY DEF ReadHead
<1>2. Handles(p, h) /\ head' = head /\ idx' = idx
  BY DEF ReadHead, files
<1>3. /\ pc[p] = from /\ pc'[p] = to /\ call' = call /\ Alone(p)
      /\ db'[p] = h /\ db[p] \in Handle
  BY <1>1, <1>2, StepEffect, ProcType
<1>4. db'[p].chainptr = Readptr(ChainOff(p))
  BY <1>3 DEF Handle
<1>5. Quiet(p)
  BY <1>2, <1>3, PlainStep DEF Marked
<1>6. pc[p] \in ChainHeld /\ p \notin Unlinking
  BY <1>3 DEF ChainHeld, KeyPoints, StoreOnlyPoints, StorePoints, Unlinking
<1>7. Leads(ChainOff(p), nxt[ChainOff(p)], db'[p].chainptr)
  BY <1>4, <1>6, OwnPointers
<1>. QED
  BY <1>3, <1>5, <1>7, StoreSearch DEF KeyGonePoints, StorePoints, FreePoints, AppendPoints

\* Taking and dropping the locks of the free list and of the ends of the files.
LEMMA LockLists ==
  ASSUME TypeOK, CallOK, LockOK, NEW nxt, NEW gone, ListInv(nxt, gone), NEW p \in Procs,
         \/ DelLock(p) \/ DelUnlock(p) \/ FreeLock(p) \/ FreeUnlock(p)
         \/ DatLock(p) \/ DatUnlock(p) \/ IdxLock(p) \/ IdxUnlock(p)
  PROVE  ListInv(nxt, gone)'
<1>1. CASE DelLock(p)
  <2>1. /\ pc[p] = "del_lock" /\ pc'[p] = "del_dat" /\ Alone(p)
        /\ db'[p] = db[p] /\ call'[p] = call[p]
    BY <1>1, LockEffect DEF DelLock
  <2>2. Quiet(p)
    BY <1>1, <2>1, PlainStep DEF DelLock, Lock, files, Marked
  <2>3. FreeKnown(p, nxt, gone)'
    BY <2>1 DEF FreeKnown
  <2>4. ASSUME NEW c \in Chains, c = ChainOff(p)' PROVE ChainKnown(p, c, nxt, gone)'
    <3>1. ChainKnown(p, c, nxt, gone)
      BY <2>1, <2>4, InvParts DEF ChainOff
    <3>. QED
      BY <2>1, <2>2, <3>1, DeletingKept DEF DeletingPoints
  <2>. QED
    BY <2>2, <2>3, <2>4, QuietLists
<1>2. CASE DelUnlock(p)
  <2>0. PICK to \in {"unlock_chain", "reread_head"} : Unlock(p, "del_unlock", FREE_OFF, to)
    BY <1>2 DEF DelUnlock
  <2>1. /\ pc[p] = "del_unlock" /\ pc'[p] = to /\ Alone(p)
        /\ db'[p] = db[p] /\ call'[p] = call[p]
    BY <2>0, LockEffect
  <2>2. Quiet(p)
    BY <1>2, <2>1, PlainStep DEF DelUnlock, Unlock, files, Marked
  <2>3. CASE to = "unlock_chain"
    BY <2>1, <2>2, <2>3, ForgetLists DEF Ignorant
  <2>4. CASE to = "reread_head"
    BY <2>1, <2>2, <2>4, StoreSearch DEF KeyGonePoints, HeadKnown, StorePoints, FreePoints, AppendPoints
  <2>. QED
    BY <2>3, <2>4
<1>3. CASE FreeLock(p)
  <2>1. /\ pc[p] = "ff_lock" /\ pc'[p] = "ff_read" /\ Alone(p)
        /\ db'[p] = db[p] /\ call'[p] = call[p]
    BY <1>3, LockEffect DEF FreeLock
  <2>2. Quiet(p)
    BY <1>3, <2>1, PlainStep DEF FreeLock, Lock, files, Marked
  <2>. QED
    BY <2>1, <2>2, StoreSearch DEF KeyGonePoints, HeadKnown, FreePoints
<1>4. CASE FreeUnlock(p)
  <2>. DEFINE dest == IF db[p].cur = 0 THEN "dat_lock" ELSE "reuse_dat"
  <2>1. Unlock(p, "ff_unlock", FREE_OFF, dest)
    BY <1>4 DEF FreeUnlock
  <2>2. dest \in {"dat_lock", "reuse_dat"}
    OBVIOUS
  <2>3. PICK to : to = dest
    OBVIOUS
  <2>. HIDE DEF dest
  <2>4. Unlock(p, "ff_unlock", FREE_OFF, to)
    BY <2>1, <2>3
  <2>5. /\ pc[p] = "ff_unlock" /\ pc'[p] = dest
        /\ Alone(p) /\ db'[p] = db[p] /\ call'[p] = call[p]
    BY <2>3, <2>4, LockEffect
  <2>6. Quiet(p)
    BY <2>1, <2>5, SameStep DEF Unlock, files, dest
  <2>7. /\ pc[p] \in KeyGonePoints /\ pc[p] \in HeadKnown
        /\ pc'[p] \in StorePoints \cup AppendPoints /\ pc'[p] \notin {"overwrite", "ff_walk", "ff_unlink"}
    BY <2>2, <2>5 DEF KeyGonePoints, HeadKnown, FreePoints, StorePoints, AppendPoints
  <2>. QED
    BY <2>5, <2>6, <2>7, StoreSearch
<1>5. CASE DatLock(p) \/ DatUnlock(p) \/ IdxLock(p)
  <2>0. PICK from \in AppendPoints \ Marked, to \in AppendPoints \ Marked, r \in Regions,
             t \in {"read", "write"} :
            Lock(p, from, r, t, to) \/ Unlock(p, from, r, to)
    BY <1>5 DEF DatLock, DatUnlock, IdxLock, AppendPoints, Marked, Regions
  <2>1. /\ pc[p] = from /\ pc'[p] = to /\ Alone(p)
        /\ db'[p] = db[p] /\ call'[p] = call[p]
    BY <2>0, LockEffect
  <2>2. Quiet(p)
    <3>1. head' = head /\ idx' = idx
      BY <2>0 DEF Lock, Unlock, files
    <3>2. from \notin Marked \cup {"cut"} /\ to \notin Marked \cup {"cut"}
      BY DEF AppendPoints
    <3>. QED
      BY <2>1, <3>1, <3>2, PlainStep
  <2>. QED
    BY <2>0, <2>1, <2>2, StoreSearch DEF KeyGonePoints, HeadKnown, AppendPoints
<1>6. CASE IdxUnlock(p)
  <2>1. /\ pc[p] = "idx_unlock" /\ pc'[p] = "link" /\ Alone(p)
        /\ db'[p] = db[p] /\ call'[p] = call[p]
    BY <1>6, LockEffect DEF IdxUnlock
  <2>2. Quiet(p)
    BY <1>6, <2>1, SameStep DEF IdxUnlock, Unlock, files
  <2>. QED
    BY <2>1, <2>2, StoreSearch DEF KeyGonePoints, HeadKnown, AppendPoints, StorePoints
<1>. QED
  BY <1>1, <1>2, <1>3, <1>4, <1>5, <1>6

\* Writing the data file.
LEMMA DatLists ==
  ASSUME TypeOK, CallOK, LockOK, NEW nxt, NEW gone, ListInv(nxt, gone), NEW p \in Procs,
         DelWritedat(p) \/ DatSeek(p) \/ DatAppend(p) \/ IdxSeek(p) \/ ReuseWritedat(p) \/ Overwrite(p)
  PROVE  ListInv(nxt, gone)'
<1>0. db[p] \in Handle
  BY ProcType
<1>1. CASE DelWritedat(p)
  <2>1. Step(p, "del_dat", "del_readfree") /\ db' = db /\ head' = head /\ idx' = idx
    BY <1>1 DEF DelWritedat
  <2>2. pc[p] = "del_dat" /\ pc'[p] = "del_readfree" /\ Alone(p) /\ call' = call
    BY <2>1, StepEffect
  <2>3. Quiet(p)
    BY <2>1, <2>2, PlainStep DEF Marked
  <2>4. FreeKnown(p, nxt, gone)'
    BY <2>2 DEF FreeKnown
  <2>5. ASSUME NEW c \in Chains, c = ChainOff(p)' PROVE ChainKnown(p, c, nxt, gone)'
    <3>1. ChainKnown(p, c, nxt, gone)
      BY <2>2, <2>5, InvParts DEF ChainOff
    <3>. QED
      BY <2>1, <2>2, <2>3, <3>1, DeletingKept DEF DeletingPoints
  <2>. QED
    BY <2>3, <2>4, <2>5, QuietLists
<1>2. CASE DatSeek(p)
  <2>. DEFINE h == [db[p] EXCEPT !.datoff = Len(dat) + 1, !.datlen = DatLen[call[p].data]]
  <2>1. Step(p, "dat_seek", "dat_append") /\ Handles(p, h) /\ head' = head /\ idx' = idx
    BY <1>2 DEF DatSeek, files
  <2>2. pc[p] = "dat_seek" /\ pc'[p] = "dat_append" /\ Alone(p) /\ call' = call /\ db'[p] = h
    BY <2>1, StepEffect
  <2>3. db'[p].chainptr = db[p].chainptr
    BY <1>0, <2>2 DEF Handle
  <2>4. Quiet(p)
    BY <2>1, <2>2, PlainStep DEF Marked
  <2>. QED
    BY <2>2, <2>3, <2>4, StoreSearch DEF KeyGonePoints, HeadKnown, AppendPoints
<1>3. CASE DatAppend(p)
  <2>1. Step(p, "dat_append", "dat_unlock") /\ db' = db /\ head' = head /\ idx' = idx
    BY <1>3 DEF DatAppend
  <2>2. pc[p] = "dat_append" /\ pc'[p] = "dat_unlock" /\ Alone(p) /\ call' = call
    BY <2>1, StepEffect
  <2>3. Quiet(p)
    BY <2>1, <2>2, PlainStep DEF Marked
  <2>. QED
    BY <2>1, <2>2, <2>3, StoreSearch DEF KeyGonePoints, HeadKnown, AppendPoints
<1>4. CASE IdxSeek(p)
  <2>. DEFINE h == [db[p] EXCEPT !.idxoff = Len(idx) + 1, !.ptrval = db[p].chainptr]
  <2>1. Step(p, "idx_seek", "idx_append") /\ Handles(p, h) /\ head' = head /\ idx' = idx
    BY <1>4 DEF IdxSeek, files
  <2>2. pc[p] = "idx_seek" /\ pc'[p] = "idx_append" /\ Alone(p) /\ call' = call /\ db'[p] = h
    BY <2>1, StepEffect
  <2>3. db'[p].chainptr = db[p].chainptr
    BY <1>0, <2>2 DEF Handle
  <2>4. Quiet(p)
    BY <2>1, <2>2, PlainStep DEF Marked
  <2>. QED
    BY <2>2, <2>3, <2>4, StoreSearch DEF KeyGonePoints, HeadKnown, AppendPoints
<1>5. CASE ReuseWritedat(p)
  <2>. DEFINE h == [db[p] EXCEPT !.datlen = DatLen[call[p].data]]
  <2>1. Step(p, "reuse_dat", "reuse_idx") /\ Handles(p, h) /\ head' = head /\ idx' = idx
    BY <1>5 DEF ReuseWritedat, WritedatAt
  <2>2. pc[p] = "reuse_dat" /\ pc'[p] = "reuse_idx" /\ Alone(p) /\ call' = call /\ db'[p] = h
    BY <2>1, StepEffect
  <2>3. db'[p].chainptr = db[p].chainptr /\ db'[p].idxoff = db[p].idxoff
    BY <1>0, <2>2 DEF Handle
  <2>4. Quiet(p)
    BY <2>1, <2>2, <2>3 DEF Quiet, Unlinked, Took
  <2>. QED
    BY <2>2, <2>3, <2>4, StoreSearch DEF KeyGonePoints, HeadKnown, StorePoints
<1>6. CASE Overwrite(p)
  <2>. DEFINE h == [db[p] EXCEPT !.datlen = DatLen[call[p].data]]
  <2>1. Step(p, "overwrite", "unlock_chain") /\ Handles(p, h) /\ head' = head /\ idx' = idx
    BY <1>6 DEF Overwrite, WritedatAt
  <2>2. pc[p] = "overwrite" /\ pc'[p] = "unlock_chain" /\ Alone(p)
    BY <2>1, StepEffect
  <2>. QED
    BY <2>1, <2>2, PlainStep, ForgetLists DEF Marked, Ignorant
<1>. QED
  BY <1>1, <1>2, <1>3, <1>4, <1>5, <1>6

\* The other steps; a process may be killed where it has nothing off the lists.
LEMMA OutsideLists ==
  ASSUME TypeOK, CallOK, LockOK, NEW nxt, NEW gone, ListInv(nxt, gone), NEW p \in Procs,
         ScanStep(p) \/ (\E c \in Uses[p] : Invoke(p, c)) \/ Rewind(p) \/ Dump(p)
           \/ (Crash(p) /\ pc[p] \notin Marked)
  PROVE  ListInv(nxt, gone)'
<1>1. head' = head /\ idx' = idx /\ Alone(p)
  <2>1. CASE ScanStep(p) \/ Rewind(p)
    BY <2>1 DEF ScanStep, ScanLock, ScanRead, ScanEof, ScanData, ScanUnlock, Rewind, Lock, Return,
                Step, Handles, proc, files, Alone, TypeOK
  <2>2. CASE \E c \in Uses[p] : Invoke(p, c)
    BY <2>2 DEF Invoke, files, Alone, TypeOK
  <2>3. CASE Dump(p) \/ Crash(p)
    BY <2>3 DEF Dump, Crash, End, proc, files, Alone, TypeOK
  <2>. QED
    BY <2>1, <2>2, <2>3
<1>2. pc[p] \notin Marked \cup {"cut"}
  BY DEF ScanStep, ScanLock, ScanRead, ScanEof, ScanData, ScanUnlock, Invoke, Rewind, Dump, Insane,
         Crash, Ended, Killed, Lock, Return, Step, Marked
<1>3. pc'[p] \in Ignorant /\ pc'[p] # "cut"
  <2>1. CASE ScanStep(p)
    BY <2>1 DEF ScanStep, ScanLock, ScanRead, ScanEof, ScanData, ScanUnlock, Lock, Return, Step,
                Ignorant, ScanPoints, TypeOK
  <2>2. CASE \E c \in Uses[p] : Invoke(p, c)
    BY <2>2 DEF Invoke, FirstPoint, Ignorant, ScanPoints, TypeOK
  <2>3. CASE Rewind(p)
    BY <2>3 DEF Rewind, Ignorant
  <2>4. CASE Dump(p)
    BY <2>4 DEF Dump, End, Ignorant, Ended, TypeOK
  <2>5. CASE Crash(p) /\ pc[p] \notin Marked
    BY <2>5 DEF Crash, End, CutPoints, Ignorant, Ended, Killed, Marked, TypeOK
  <2>. QED
    BY <2>1, <2>2, <2>3, <2>4, <2>5
<1>4. Quiet(p)
  BY <1>1, <1>2, <1>3, PlainStep DEF Marked, Ignorant, ScanPoints, Ended, Killed
<1>. QED
  BY <1>3, <1>4, ForgetLists

-----------------------------------------------------------------------------
\* The steps that change a list

\* Process p changes its own chain, and the free list if it has that, and
\* leaves the other chains and what the others have off the lists alone.
LEMMA ChangeLists ==
  ASSUME TypeOK, CallOK, LockOK, NEW nxt, NEW gone, ListInv(nxt, gone), NEW nxt2, NEW gone2,
         NEW p \in Procs, Alone(p), call'[p] = call[p], pc[p] \in ChainHeld, call[p].op # "fetch",
         NEW C \in Chains, C = ChainOff(p),
         CutChains \subseteq CutChains', gone2 \subseteq Records',
         Links(nxt2)', OffListsOK(gone2)',
         \A c \in Chains \ {C} : SameChain(c, nxt, nxt2, gone, gone2),
         IsList(C, Members(C, gone2), nxt2)',
         \A m, n \in Members(C, gone2)' : idx'[m].key = idx'[n].key => m = n,
         pc[p] \notin FreeHeld => SameFree(nxt, nxt2, gone, gone2),
         IsList(FREE_OFF, FreeMembers(gone2), nxt2)',
         \A q \in Procs \ {p} : Unlinked(q) => SameRecord(db[q].idxoff, nxt, nxt2, gone2),
         pc[p] \notin FreeHeld =>
            \A q \in Procs \ {p} : pc[q] = "del_setfree" => SameRecord(db[q].idxoff, nxt, nxt2, gone2),
         FreeKnown(p, nxt2, gone2)', ChainKnown(p, C, nxt2, gone2)'
  PROVE  ListInv(nxt2, gone2)'
<1>1. \A q \in Procs : q # p => pc'[q] = pc[q] /\ db'[q] = db[q] /\ call'[q] = call[q]
  BY DEF Alone
<1>2. ASSUME NEW c \in Chains PROVE IsList(c, Members(c, gone2), nxt2)'
  <2>1. CASE c = C
    BY <2>1
  <2>2. CASE c # C
    <3>1. PICK S : S = Members(c, gone)
      OBVIOUS
    <3>2. Members(c, gone2)' = S /\ \A m \in {c} \cup S : nxt2[m] = nxt[m]
      BY <2>2, <3>1 DEF SameChain
    <3>3. IsList(c, S, nxt)
      BY <3>1, InvParts
    <3>4. IsList(c, S, nxt2)
      BY <3>2, <3>3, ListFrame
    <3>. QED
      BY <3>2, <3>4 DEF IsList
  <2>. QED
    BY <2>1, <2>2
<1>3. KeyOnce(gone2)'
  <2>. SUFFICES ASSUME NEW c \in Chains, NEW m \in Members(c, gone2)', NEW n \in Members(c, gone2)',
                       idx'[m].key = idx'[n].key
                PROVE  m = n
    BY DEF KeyOnce
  <2>1. CASE c = C
    BY <2>1
  <2>2. CASE c # C
    <3>1. Members(c, gone2)' = Members(c, gone) /\ \A x \in Members(c, gone) : idx'[x].key = idx[x].key
      BY <2>2 DEF SameChain
    <3>. QED
      BY <3>1, InvParts DEF KeyOnce
  <2>. QED
    BY <2>1, <2>2
<1>4. ASSUME NEW q \in Procs, q # p PROVE FreeKnown(q, nxt2, gone2)'
  <2>1. FreeKnown(q, nxt, gone) /\ pc'[q] = pc[q] /\ db'[q] = db[q]
    BY <1>1, <1>4, InvParts
  <2>2. pc[q] \in FreeHeld => pc[p] \notin FreeHeld
    BY <1>4, FreeApart
  <2>3. pc[q] = "del_setfree" => pc[q] \in FreeHeld
    BY DEF FreeHeld, DeletePoints
  <2>. QED
    BY <1>4, <2>1, <2>2, <2>3, FreeKnownKept
<1>5. ASSUME NEW q \in Procs, q # p, NEW c \in Chains, c = ChainOff(q)'
      PROVE  ChainKnown(q, c, nxt2, gone2)'
  <2>1. pc'[q] = pc[q] /\ db'[q] = db[q] /\ call'[q] = call[q]
    BY <1>1, <1>5
  <2>2. c = ChainOff(q)
    BY <1>5, <2>1 DEF ChainOff
  <2>3. ChainKnown(q, c, nxt, gone)
    BY <2>2, InvParts
  <2>4. pc[q] \in ChainHeld => c # C
    BY <1>5, <2>2, ChainApart
  <2>. QED
    BY <1>5, <2>1, <2>3, <2>4, ChainKnownKept
<1>6. \A c \in Chains : c = ChainOff(p)' => c = C
  BY DEF ChainOff
<1>. QED
  BY <1>2, <1>3, <1>4, <1>5, <1>6 DEF ListInv

\* A process that has the free list for itself is the only one to unlink.
LEMMA SoleUnlinker ==
  ASSUME TypeOK, CallOK, LockOK, NEW p \in Procs, pc[p] \in FreeHeld
  PROVE  Unlinking \subseteq {p}
<1>1. \A q \in Unlinking : q \in Procs /\ pc[q] \in FreeHeld
  BY DEF Unlinking, FreeHeld, DeletePoints
<1>. QED
  BY <1>1, FreeApart

\* A pointer is written: what the file holds then.
LEMMA PointerWritten ==
  ASSUME TypeOK, NEW off \in Heads \cup Records, NEW v \in Nat, Writeptr(off, v)
  PROVE  /\ Records' = Records
         /\ \A n \in Records : idx'[n].key = idx[n].key
         /\ \A m \in Heads \cup Records : Readptr(m)' = IF m = off THEN v ELSE Readptr(m)
<1>1. off \in Cells
  BY Sets DEF Cells, Heads
<1>2. Len(idx') = Len(idx) /\ \A n \in DOMAIN idx : idx'[n] = [idx[n] EXCEPT !.ptr = idx'[n].ptr]
  BY <1>1, WriteptrProperties
<1>3. Records' = Records
  BY <1>2 DEF Records
<1>4. \A n \in Records : idx[n] \in IdxRec /\ n \in Nat
  BY Sets, Domains
<1>5. ASSUME NEW n \in Records PROVE idx'[n].key = idx[n].key
  <2>1. PICK r : r = idx[n]
    OBVIOUS
  <2>2. PICK x : x = idx'[n].ptr
    OBVIOUS
  <2>3. idx'[n] = [r EXCEPT !.ptr = x] /\ r \in IdxRec
    BY <1>2, <1>4, <2>1, <2>2, Sets
  <2>4. [r EXCEPT !.ptr = x].key = r.key
    BY <2>3 DEF IdxRec
  <2>. QED
    BY <2>1, <2>3, <2>4
<1>6. ASSUME NEW m \in Heads \cup Records PROVE Readptr(m)' = IF m = off THEN v ELSE Readptr(m)
  <2>1. CASE off \in Nat
    <3>1. head' = head /\ idx' = [idx EXCEPT ![off].ptr = v] /\ off \in Records
      BY <2>1, ConstantsAssumption DEF Writeptr, Heads
    <3>2. CASE m \in Nat
      <4>1. m \in Records /\ idx[m] \in IdxRec /\ m \in DOMAIN idx
        BY <1>4, <3>2, ConstantsAssumption, Sets DEF Heads
      <4>2. idx'[m].ptr = IF m = off THEN v ELSE idx[m].ptr
        BY <3>1, <4>1 DEF IdxRec
      <4>. QED
        BY <3>2, <4>2 DEF Readptr
    <3>3. CASE m \notin Nat
      BY <2>1, <3>1, <3>3 DEF Readptr
    <3>. QED
      BY <3>2, <3>3
  <2>2. CASE off \notin Nat
    <3>1. idx' = idx /\ head' = [head EXCEPT ![off] = v] /\ off \in Heads
      BY <2>2, <1>4 DEF Writeptr
    <3>2. DOMAIN head = Heads
      BY DEF TypeOK, Heads
    <3>3. m \notin Nat => m \in Heads
      BY <1>4
    <3>. QED
      BY <2>2, <3>1, <3>2, <3>3 DEF Readptr
  <2>. QED
    BY <2>1, <2>2
<1>. QED
  BY <1>3, <1>5, <1>6

\* An index record is rewritten.
LEMMA RecordWritten ==
  ASSUME TypeOK, NEW n \in Records, NEW rec \in IdxRec, idx' = Put(idx, n, rec), head' = head
  PROVE  /\ Records' = Records /\ idx'[n] = rec
         /\ \A m \in Records \ {n} : idx'[m] = idx[m]
         /\ \A m \in Heads \cup Records : Readptr(m)' = IF m = n THEN rec.ptr ELSE Readptr(m)
<1>1. /\ idx \in Seq(IdxRec) /\ n \in DOMAIN idx /\ n \in Nat
  BY Domains, Sets
<1>2. n # Len(idx) + 1
  BY Sets DEF Records
<1>3. idx' = [idx EXCEPT ![n] = rec]
  BY <1>2 DEF Put
<1>4. Len(idx') = Len(idx)
  BY <1>1, <1>3
<1>5. Records' = Records /\ \A i \in Records : idx'[i] = IF i = n THEN rec ELSE idx[i]
  BY <1>3, <1>4, Sets DEF Records
<1>6. ASSUME NEW m \in Heads \cup Records PROVE Readptr(m)' = IF m = n THEN rec.ptr ELSE Readptr(m)
  <2>1. CASE m \in Nat
    <3>1. m \in Records
      BY <2>1, ConstantsAssumption DEF Heads
    <3>. QED
      BY <1>5, <2>1, <3>1 DEF Readptr
  <2>2. CASE m \notin Nat
    BY <1>1, <2>2 DEF Readptr
  <2>. QED
    BY <2>1, <2>2
<1>. QED
  BY <1>5, <1>6

\* A record that is written and not yet linked.
LEMMA UnlinkedRecord ==
  ASSUME TypeOK, CallOK, NEW nxt, NEW gone, ListInv(nxt, gone), NEW q \in Procs, Unlinked(q)
  PROVE  /\ ChainOff(q) \in Chains /\ call[q].key \in Keys
         /\ db[q].idxoff \in Records \ gone /\ idx[db[q].idxoff].key = call[q].key
         /\ nxt[db[q].idxoff] = nxt[ChainOff(q)]
         /\ \A c : db[q].idxoff \notin Members(c, gone)
         /\ db[q].idxoff \notin FreeMembers(gone)
<1>1. ChainOff(q) \in Chains /\ call[q].key \in Keys
  BY HasChain DEF Unlinked, KeyPoints, StoreOnlyPoints, AppendPoints, StorePoints
<1>2. ChainKnown(q, ChainOff(q), nxt, gone)
  BY <1>1, InvParts
<1>3. /\ db[q].idxoff \in Records \ gone /\ idx[db[q].idxoff].key = call[q].key
      /\ nxt[db[q].idxoff] = nxt[ChainOff(q)]
  BY <1>2 DEF ChainKnown
<1>4. \A c : db[q].idxoff \notin Members(c, gone)
  BY DEF Members
<1>5. db[q].idxoff \notin FreeMembers(gone)
  BY <1>1, <1>3, ConstantsAssumption DEF FreeMembers
<1>. QED
  BY <1>1, <1>3, <1>4, <1>5

\* _db_dodelete: the record is blanked and led to the free list; what led to
\* it in its chain leads on, though the file says so only at DelUnlink.
LEMMA DelWriteidxLists ==
  ASSUME TypeOK, CallOK, LockOK, NEW nxt, NEW gone, ListInv(nxt, gone), NEW p \in Procs, DelWriteidx(p)
  PROVE  \E nxt2 : ListInv(nxt2, gone)'
<1>. DEFINE rec == [ptr |-> db[p].freeptr, key |-> BLANK, keylen |-> db[p].keylen,
                    datoff |-> db[p].datoff, datlen |-> db[p].datlen]
            h == [db[p] EXCEPT !.ptrval = db[p].freeptr]
<1>1. /\ Step(p, "del_idx", "del_setfree") /\ Handles(p, h) /\ head' = head
      /\ idx' = Put(idx, db[p].idxoff, rec)
  BY DEF DelWriteidx
<1>2. /\ pc[p] = "del_idx" /\ pc'[p] = "del_setfree" /\ call' = call /\ Alone(p)
      /\ db'[p] = h /\ db[p] \in Handle
  BY <1>1, StepEffect, ProcType
<1>3. /\ db'[p].ptroff = db[p].ptroff /\ db'[p].idxoff = db[p].idxoff
      /\ db'[p].saveptr = db[p].saveptr
  BY <1>2 DEF Handle
<1>4. rec \in IdxRec /\ rec.ptr = db[p].freeptr /\ rec.key = BLANK
  BY <1>2 DEF Handle, IdxRec
<1>5. PICK C \in Chains : C = ChainOff(p)
  BY <1>2, HasChain DEF KeyPoints, DeletePoints
<1>6. /\ pc[p] \in ChainHeld /\ pc[p] \in FreeHeld /\ call[p].op # "fetch"
      /\ pc[p] \in DeletingPoints
  BY <1>2 DEF ChainHeld, FreeHeld, KeyPoints, DeletePoints, CallOK, DeletingPoints
<1>7. PICK n, m, v, f : n = db[p].idxoff /\ m = db[p].ptroff /\ v = nxt[n] /\ f = db[p].freeptr
  OBVIOUS
<1>8. PICK S : S = Members(C, gone)
  OBVIOUS
<1>9. /\ m \in {C} \cup S /\ nxt[m] = n /\ n \in S /\ idx[n].key = call[p].key
      /\ Leads(C, v, db[p].saveptr) /\ f = nxt[FREE_OFF]
  <2>1. ChainKnown(p, C, nxt, gone) /\ FreeKnown(p, nxt, gone)
    BY <1>5, InvParts
  <2>. QED
    BY <1>2, <1>6, <1>7, <1>8, <2>1 DEF ChainKnown, FreeKnown
<1>10. /\ S \in SUBSET Nat /\ 0 \notin S /\ C \notin Nat /\ FREE_OFF \notin Nat /\ C # FREE_OFF
       /\ S \subseteq Records /\ IsList(C, S, nxt) /\ f \in Nat
       /\ S \cap FreeMembers(gone) = {} /\ FreeMembers(gone) \subseteq Nat /\ C \notin FreeMembers(gone)
  BY <1>2, <1>7, <1>8, Sets, InvParts DEF Handle
<1>11. m # n /\ n \in Records \ gone /\ n # 0
  BY <1>8, <1>9, <1>10, ListApart DEF Members
<1>12. nxt \in [Cells -> Nat] /\ m \in Cells /\ n \in Cells /\ v \in Nat
  <2>1. nxt \in [Cells -> Nat]
    BY InvParts DEF Links
  <2>2. m \in Cells /\ n \in Cells
    BY <1>9, <1>10 DEF Cells
  <2>. QED
    BY <1>7, <2>1, <2>2
<1>13. PICK nxt2 : nxt2 = [nxt EXCEPT ![m] = v, ![n] = f]
  OBVIOUS
<1>14. /\ nxt2 \in [Cells -> Nat] /\ nxt2[m] = v /\ nxt2[n] = f
       /\ \A x \in Cells : x # m /\ x # n => nxt2[x] = nxt[x]
  BY <1>10, <1>11, <1>12, <1>13
<1>15. Heads \cup Records \subseteq Cells
  BY Sets DEF Heads, Cells
<1>16. /\ Records' = Records /\ idx'[n].key = BLANK
       /\ \A x \in Records \ {n} : idx'[x] = idx[x]
       /\ \A x \in Heads \cup Records : Readptr(x)' = IF x = n THEN f ELSE Readptr(x)
  BY <1>1, <1>4, <1>7, <1>11, RecordWritten
<1>17. /\ \A q \in Procs : q # p => pc'[q] = pc[q] /\ db'[q] = db[q] /\ call'[q] = call[q]
       /\ CutChains' = CutChains
  BY <1>2, CutsSame DEF Alone
<1>18. /\ \A q \in Procs : (Unlinked(q)' <=> Unlinked(q)) /\ (Unlinked(q) => db'[q].idxoff = db[q].idxoff)
       /\ \A q \in Procs \ {p} : (OffLists(q)' <=> OffLists(q)) /\ db'[q].idxoff = db[q].idxoff
       /\ OffLists(p)' /\ ~OffLists(p)
  BY <1>2, <1>17 DEF Unlinked, OffLists, Took
<1>19. /\ Unlinking' = {p} /\ Unlinking = {}
  BY <1>2, <1>6, <1>17, SoleUnlinker DEF Unlinking
<1>20. Hash[idx[n].key] = C /\ idx[n].key # BLANK /\ \A q \in Procs : Unlinked(q) => db[q].idxoff # n
  BY <1>8, <1>9 DEF Members
<1>21. Members(C, gone)' = S \ {n}
  BY <1>8, <1>16, <1>18, Zenon DEF Members
<1>22. \A c \in Chains \ {C} : Members(c, gone)' = Members(c, gone) /\ n \notin Members(c, gone)
  BY <1>16, <1>18, <1>20 DEF Members
<1>23. FreeMembers(gone)' = FreeMembers(gone) /\ n \notin FreeMembers(gone)
  <2>1. \A x \in Records \ gone : x \in FreeMembers(gone)' <=>
            idx'[x].key = BLANK /\ \A q \in Procs : OffLists(q)' => db'[q].idxoff # x
    BY <1>16 DEF FreeMembers
  <2>2. n \notin FreeMembers(gone)' /\ n \notin FreeMembers(gone)
    BY <1>3, <1>7, <1>11, <1>18, <1>20, <2>1 DEF FreeMembers
  <2>3. \A x \in (Records \ gone) \ {n} : x \in FreeMembers(gone)' <=> x \in FreeMembers(gone)
    BY <1>3, <1>7, <1>16, <1>18, <2>1 DEF FreeMembers
  <2>4. FreeMembers(gone)' \subseteq Records \ gone /\ FreeMembers(gone) \subseteq Records \ gone
    BY <1>16 DEF FreeMembers
  <2>5. \A x : x \in FreeMembers(gone)' <=> x \in FreeMembers(gone)
    BY <2>2, <2>3, <2>4
  <2>. QED
    BY <2>2, <2>5, Zenon
<1>24. Links(nxt2)'
  <2>1. \A x \in Heads \cup Records : nxt[x] = Readptr(x) \/ (nxt[x] = 0 /\ StrayCell(x))
    BY <1>19, InvParts DEF Links
  <2>2. \A x \in Heads \cup Records : x # n => (StrayCell(x)' <=> StrayCell(x))
    BY <1>16, <1>17 DEF StrayCell
  <2>3. \A x \in Heads \cup Records :
            x # m => nxt2[x] = Readptr(x)' \/ (nxt2[x] = 0 /\ StrayCell(x)')
    BY <1>14, <1>15, <1>16, <2>1, <2>2
  <2>4. Leads(C, nxt2[m], db[p].saveptr)' /\ ChainOff(p)' = C
    BY <1>2, <1>3, <1>5, <1>9, <1>14, <1>17 DEF Leads, ChainOff
  <2>5. Readptr(m)' = n
    BY <1>9, <1>10, <1>11, <1>16, <2>1 DEF Heads
  <2>. QED
    BY <1>3, <1>7, <1>14, <1>16, <1>19, <2>3, <2>4, <2>5 DEF Links, Heads, Readptr, Leads
<1>25. OffListsOK(gone)'
  <2>1. OffListsOK(gone)
    BY InvParts
  <2>2. \A q \in Procs \ {p} : OffLists(q) => db[q].idxoff \in (Records \ gone) \ {n}
    BY <1>20, <2>1 DEF OffListsOK
  <2>3. \A q \in Procs : OffLists(q)' =>
            db'[q].idxoff \in Records' \ gone /\ idx'[db'[q].idxoff].key = BLANK
    BY <1>3, <1>7, <1>11, <1>16, <1>18, <2>1, <2>2 DEF OffListsOK
  <2>4. \A q, r \in Procs : q # r /\ OffLists(q)' /\ OffLists(r)' => db'[q].idxoff # db'[r].idxoff
    BY <1>3, <1>7, <1>18, <2>1, <2>2 DEF OffListsOK
  <2>. QED
    BY <2>3, <2>4 DEF OffListsOK
<1>26. \A c \in Chains \ {C} : SameChain(c, nxt, nxt2, gone, gone)
  <2>. SUFFICES ASSUME NEW c \in Chains \ {C} PROVE SameChain(c, nxt, nxt2, gone, gone)
    OBVIOUS
  <2>1. Members(c, gone) \subseteq Records \ {n} /\ m \notin {c} \cup Members(c, gone) /\ c \in Cells /\ c # n
    <3>1. Members(c, gone) \cap S = {} /\ Members(c, gone) \subseteq Records /\ c \notin Nat
      BY <1>8, Sets
    <3>2. c \notin S /\ C \notin Members(c, gone) /\ c # C /\ n \notin Members(c, gone)
      BY <1>10, <1>22, <3>1, Sets
    <3>3. n \in Nat /\ c \in Cells
      BY <1>9, <1>10 DEF Cells
    <3>. QED
      BY <1>9, <3>1, <3>2, <3>3
  <2>2. \A x \in {c} \cup Members(c, gone) : nxt2[x] = nxt[x]
    BY <1>14, <1>15, <2>1
  <2>. QED
    BY <1>16, <1>22, <2>1, <2>2 DEF SameChain
<1>27. IsList(C, Members(C, gone), nxt2)'
  <2>1. \A x \in ({C} \cup S) \ {m, n} : nxt2[x] = nxt[x]
    BY <1>10, <1>14, <1>15 DEF Heads
  <2>3. /\ S \in SUBSET Nat /\ C \notin S /\ 0 \notin S /\ IsList(C, S, nxt)
        /\ m \in {C} \cup S /\ n \in S /\ nxt[m] = n /\ nxt2[m] = nxt[n]
    BY <1>7, <1>9, <1>10, <1>14
  <2>2. IsList(C, S \ {n}, nxt2)
    BY <2>1, <2>3, ListRemove
  <2>. QED
    BY <1>21, <2>2 DEF IsList
<1>28. \A x, y \in Members(C, gone)' : idx'[x].key = idx'[y].key => x = y
  BY <1>8, <1>10, <1>16, <1>21, InvParts DEF KeyOnce
<1>29. \A x \in {FREE_OFF} \cup FreeMembers(gone) : nxt2[x] = nxt[x]
  <2>1. {FREE_OFF} \cup FreeMembers(gone) \subseteq Cells
    BY <1>10 DEF Cells
  <2>2. m \notin {FREE_OFF} \cup FreeMembers(gone) /\ n \notin {FREE_OFF} \cup FreeMembers(gone)
    BY <1>9, <1>10
  <2>. QED
    BY <1>14, <2>1, <2>2
<1>30. IsList(FREE_OFF, FreeMembers(gone), nxt2)'
  <2>1. IsList(FREE_OFF, FreeMembers(gone), nxt2)
    BY <1>29, InvParts, ListFrame
  <2>. QED
    BY <1>23, <2>1 DEF IsList
<1>31. \A q \in Procs \ {p} : Unlinked(q) => SameRecord(db[q].idxoff, nxt, nxt2, gone)
  <2>. SUFFICES ASSUME NEW q \in Procs \ {p}, Unlinked(q) PROVE SameRecord(db[q].idxoff, nxt, nxt2, gone)
    OBVIOUS
  <2>1. db[q].idxoff \in Records \ gone /\ db[q].idxoff \notin S
    BY <1>8, UnlinkedRecord
  <2>2. db[q].idxoff # n /\ db[q].idxoff # m
    BY <1>9, <1>10, <2>1, Sets
  <2>. QED
    BY <1>14, <1>15, <1>16, <2>1, <2>2 DEF SameRecord
<1>32. FreeKnown(p, nxt2, gone)'
  <2>1. nxt2[FREE_OFF] = f
    BY <1>9, <1>29
  <2>. QED
    BY <1>2, <1>3, <1>7, <1>11, <1>14, <1>16, <2>1 DEF FreeKnown
<1>33. ChainKnown(p, C, nxt2, gone)'
  <2>1. db'[p].ptroff \in {C} \cup Members(C, gone)'
    BY <1>3, <1>7, <1>9, <1>11, <1>21
  <2>2. \A x \in Members(C, gone)' : idx'[x].key # call'[p].key
    BY <1>2, <1>8, <1>9, <1>10, <1>16, <1>21, InvParts DEF KeyOnce
  <2>. QED
    BY <1>2, <2>1, <2>2 DEF ChainKnown, Unlinked, DeletingPoints, HeadKnown, FreePoints, AppendPoints
<1>34. gone \subseteq Records' /\ CutChains \subseteq CutChains'
  BY <1>16, <1>17, InvParts
<1>35. ListInv(nxt2, gone)'
  BY <1>2, <1>5, <1>6, <1>34, <1>24, <1>25, <1>26, <1>27, <1>28, <1>30, <1>31, <1>32, <1>33, ChangeLists
<1>. QED
  BY <1>35


\* The blanked record goes to the front of the free list.
LEMMA DelSetfreeLists ==
  ASSUME TypeOK, CallOK, LockOK, NEW nxt, NEW gone, ListInv(nxt, gone), NEW p \in Procs, DelSetfree(p)
  PROVE  \E nxt2 : ListInv(nxt2, gone)'
<1>1. Step(p, "del_setfree", "del_unlink") /\ Writeptr(FREE_OFF, db[p].idxoff) /\ db' = db
  BY DEF DelSetfree
<1>2. pc[p] = "del_setfree" /\ pc'[p] = "del_unlink" /\ call' = call /\ Alone(p)
  BY <1>1, StepEffect
<1>3. PICK C \in Chains : C = ChainOff(p)
  BY <1>2, HasChain DEF KeyPoints, DeletePoints
<1>4. /\ pc[p] \in ChainHeld /\ pc[p] \in FreeHeld /\ call[p].op # "fetch"
  BY <1>2 DEF ChainHeld, FreeHeld, KeyPoints, DeletePoints, CallOK
<1>5. PICK n : n = db[p].idxoff
  OBVIOUS
<1>6. /\ n \in Records \ gone /\ idx[n].key = BLANK /\ nxt[n] = nxt[FREE_OFF]
      /\ db[p].ptroff \in {C} \cup Members(C, gone)
      /\ \A x \in Members(C, gone) : idx[x].key # call[p].key
  BY <1>2, <1>3, <1>5, InvParts DEF FreeKnown, ChainKnown, KeyGonePoints
<1>7. n \notin FreeMembers(gone) /\ n \in Nat /\ n # 0 /\ n # FREE_OFF
  BY <1>2, <1>5, <1>6, Sets DEF FreeMembers, OffLists
<1>8. PICK nxt2 : nxt2 = [nxt EXCEPT ![FREE_OFF] = n]
  OBVIOUS
<1>9. nxt2 \in [Cells -> Nat] /\ nxt2[FREE_OFF] = n /\ \A x \in Cells : x # FREE_OFF => nxt2[x] = nxt[x]
  BY <1>7, <1>8, InvParts DEF Links, Cells
<1>10. Heads \cup Records \subseteq Cells /\ \A x \in Records : x # FREE_OFF
  BY Sets DEF Heads, Cells
<1>11. /\ Records' = Records
       /\ \A x \in Records : idx'[x].key = idx[x].key
       /\ \A x \in Heads \cup Records : Readptr(x)' = IF x = FREE_OFF THEN n ELSE Readptr(x)
  BY <1>1, <1>5, <1>7, PointerWritten DEF Heads
<1>12. /\ \A q \in Procs : q # p => pc'[q] = pc[q] /\ db'[q] = db[q] /\ call'[q] = call[q]
       /\ CutChains' = CutChains
  BY <1>2, CutsSame DEF Alone
<1>13. /\ \A q \in Procs : Unlinked(q)' <=> Unlinked(q)
       /\ \A q \in Procs \ {p} : OffLists(q)' <=> OffLists(q)
       /\ ~OffLists(p)' /\ OffLists(p)
       /\ Unlinking' = Unlinking /\ Unlinking = {p}
  <2>1. Unlinking = {p} /\ Unlinking' = {p}
    BY <1>2, <1>4, <1>12, SoleUnlinker DEF Unlinking
  <2>. QED
    BY <1>1, <1>2, <1>12, <2>1 DEF Unlinked, OffLists, Took
<1>14. \A c : Members(c, gone)' = Members(c, gone)
  BY <1>1, <1>11, <1>13 DEF Members
<1>15. FreeMembers(gone)' = FreeMembers(gone) \cup {n}
  <2>1. \A x \in Records \ gone : x \in FreeMembers(gone)' <=>
            idx[x].key = BLANK /\ \A q \in Procs \ {p} : OffLists(q) => db[q].idxoff # x
    BY <1>1, <1>11, <1>13 DEF FreeMembers
  <2>2. n \in FreeMembers(gone)'
    BY <1>5, <1>6, <1>13, <2>1, InvParts DEF OffListsOK
  <2>3. \A x \in (Records \ gone) \ {n} : x \in FreeMembers(gone)' <=> x \in FreeMembers(gone)
    BY <1>5, <1>13, <2>1 DEF FreeMembers
  <2>4. FreeMembers(gone)' \subseteq Records \ gone /\ FreeMembers(gone) \subseteq Records \ gone
    BY <1>11 DEF FreeMembers
  <2>5. \A x : x \in FreeMembers(gone)' <=> x \in FreeMembers(gone) \cup {n}
    BY <1>6, <2>2, <2>3, <2>4
  <2>. QED
    BY <2>5, Zenon
<1>16. Links(nxt2)'
  <2>1. /\ Leads(C, nxt[db[p].ptroff], db[p].saveptr)
        /\ Readptr(db[p].ptroff) = n
        /\ \A x \in Heads \cup Records :
              nxt[x] = Readptr(x) \/ db[p].ptroff = x \/ (nxt[x] = 0 /\ StrayCell(x))
    BY <1>3, <1>5, <1>13, InvParts DEF Links
  <2>2. db[p].ptroff # FREE_OFF /\ db[p].ptroff \in Cells /\ db[p].ptroff \in Heads \cup Records
    BY <1>3, <1>6, Sets DEF Cells, Heads
  <2>3. Leads(C, nxt2[db[p].ptroff], db[p].saveptr)' /\ ChainOff(p)' = C
    BY <1>1, <1>2, <1>3, <1>9, <1>12, <2>1, <2>2 DEF Leads, ChainOff
  <2>4. \A x \in Heads \cup Records : StrayCell(x)' <=> StrayCell(x)
    BY <1>11, <1>12 DEF StrayCell
  <2>5. \A x \in Heads \cup Records :
            nxt2[x] = Readptr(x)' \/ db[p].ptroff = x \/ (nxt2[x] = 0 /\ StrayCell(x)')
    BY <1>9, <1>10, <1>11, <2>1, <2>4
  <2>6. Readptr(db[p].ptroff)' = n
    <3>1. PICK x : x = db[p].ptroff
      OBVIOUS
    <3>2. Readptr(x)' = n
      BY <1>11, <2>1, <2>2, <3>1
    <3>. QED
      BY <1>1, <3>1, <3>2 DEF Readptr
  <2>. QED
    BY <1>1, <1>5, <1>9, <1>11, <1>13, <2>3, <2>5, <2>6 DEF Links, Heads, Readptr, Leads
<1>17. OffListsOK(gone)'
  BY <1>1, <1>11, <1>13, InvParts DEF OffListsOK
<1>18. \A x \in Chains \cup Records : nxt2[x] = nxt[x]
  BY <1>9, <1>10, Sets DEF Heads
<1>19. \A c \in Chains : SameChain(c, nxt, nxt2, gone, gone)
  BY <1>11, <1>14, <1>18, Sets DEF SameChain
<1>20. IsList(C, Members(C, gone), nxt2)'
  <2>1. IsList(C, Members(C, gone), nxt2)
    BY <1>18, InvParts, ListFrame, Sets
  <2>. QED
    BY <1>14, <2>1 DEF IsList
<1>21. \A x, y \in Members(C, gone)' : idx'[x].key = idx'[y].key => x = y
  BY <1>11, <1>14, InvParts, Sets DEF KeyOnce
<1>22. IsList(FREE_OFF, FreeMembers(gone), nxt2)'
  <2>1. PICK S : S = FreeMembers(gone)
    OBVIOUS
  <2>2. /\ S \in SUBSET Nat /\ FREE_OFF \notin S /\ 0 \notin S /\ IsList(FREE_OFF, S, nxt) /\ n \notin S
        /\ S \subseteq Records
    BY <1>7, <2>1, InvParts, Sets
  <2>3. nxt2[FREE_OFF] = n /\ nxt2[n] = nxt[FREE_OFF] /\ \A x \in S : nxt2[x] = nxt[x]
    BY <1>6, <1>9, <1>18, <2>2
  <2>4. IsList(FREE_OFF, S \cup {n}, nxt2)
    BY <1>7, <2>2, <2>3, ListPush
  <2>. QED
    BY <1>15, <2>1, <2>4 DEF IsList
<1>23. \A q \in Procs \ {p} : Unlinked(q) => SameRecord(db[q].idxoff, nxt, nxt2, gone)
  BY <1>11, <1>18, UnlinkedRecord DEF SameRecord
<1>24. FreeKnown(p, nxt2, gone)'
  BY <1>1, <1>2, <1>5, <1>15 DEF FreeKnown
<1>25. ChainKnown(p, C, nxt2, gone)'
  <2>1. db'[p].ptroff \in {C} \cup Members(C, gone)'
    BY <1>1, <1>6, <1>14
  <2>2. \A x \in Members(C, gone)' : idx'[x].key # call'[p].key
    BY <1>2, <1>6, <1>11, <1>14, Sets
  <2>. QED
    BY <1>2, <2>1, <2>2 DEF ChainKnown, Unlinked, DeletingPoints, HeadKnown, FreePoints, AppendPoints
<1>26. gone \subseteq Records' /\ CutChains \subseteq CutChains'
  BY <1>11, <1>12, InvParts
<1>27. ListInv(nxt2, gone)'
  BY <1>26, <1>2, <1>3, <1>4, <1>16, <1>17, <1>19, <1>20, <1>21, <1>22, <1>23, <1>24, <1>25, ChangeLists
<1>. QED
  BY <1>27

\* The file now says what the list has been since the record was blanked.
LEMMA DelUnlinkLists ==
  ASSUME TypeOK, CallOK, LockOK, NEW nxt, NEW gone, ListInv(nxt, gone), NEW p \in Procs, DelUnlink(p)
  PROVE  ListInv(nxt, gone)'
<1>1. Step(p, "del_unlink", "del_unlock") /\ Writeptr(db[p].ptroff, db[p].saveptr) /\ db' = db
  BY DEF DelUnlink
<1>2. /\ pc[p] = "del_unlink" /\ pc'[p] = "del_unlock" /\ call' = call /\ Alone(p)
      /\ db[p] \in Handle
  BY <1>1, StepEffect, ProcType
<1>3. PICK C \in Chains : C = ChainOff(p)
  BY <1>2, HasChain DEF KeyPoints, DeletePoints
<1>4. /\ pc[p] \in ChainHeld /\ pc[p] \in FreeHeld /\ call[p].op # "fetch"
  BY <1>2 DEF ChainHeld, FreeHeld, KeyPoints, DeletePoints, CallOK
<1>5. PICK m, v : m = db[p].ptroff /\ v = db[p].saveptr
  OBVIOUS
<1>6. /\ m \in {C} \cup Members(C, gone) /\ m \in Heads \cup Records /\ v \in Nat
      /\ \A x \in Members(C, gone) : idx[x].key # call[p].key
  <2>1. db[p].ptroff \in {C} \cup Members(C, gone) /\ \A x \in Members(C, gone) : idx[x].key # call[p].key
    BY <1>2, <1>3, InvParts DEF ChainKnown, KeyGonePoints
  <2>. QED
    BY <1>2, <1>5, <2>1, Sets DEF Handle, Heads
<1>7. /\ Records' = Records
      /\ \A x \in Records : idx'[x].key = idx[x].key
      /\ \A x \in Heads \cup Records : Readptr(x)' = IF x = m THEN v ELSE Readptr(x)
  BY <1>1, <1>5, <1>6, PointerWritten
<1>8. /\ \A q \in Procs : q # p => pc'[q] = pc[q] /\ db'[q] = db[q] /\ call'[q] = call[q]
      /\ CutChains' = CutChains
  BY <1>2, CutsSame DEF Alone
<1>9. /\ \A q \in Procs : Unlinked(q)' <=> Unlinked(q)
      /\ \A q \in Procs : OffLists(q)' <=> OffLists(q)
  BY <1>1, <1>2, <1>8 DEF Unlinked, OffLists, Took
<1>10. Unlinking' = {} /\ Unlinking = {p}
  BY <1>2, <1>4, <1>8, SoleUnlinker DEF Unlinking
<1>11. \A c : Members(c, gone)' = Members(c, gone)
  BY <1>1, <1>7, <1>9 DEF Members
<1>12. FreeMembers(gone)' = FreeMembers(gone)
  BY <1>1, <1>7, <1>9 DEF FreeMembers
<1>13. Links(nxt)'
  <2>1. /\ nxt \in [Cells -> Nat] /\ Leads(C, nxt[m], v)
        /\ \A x \in Heads \cup Records :
              nxt[x] = Readptr(x) \/ m = x \/ (nxt[x] = 0 /\ StrayCell(x))
    BY <1>3, <1>5, <1>10, InvParts DEF Links
  <2>2. \A x \in Heads \cup Records : StrayCell(x)' <=> StrayCell(x)
    BY <1>7, <1>8 DEF StrayCell
  <2>3. C \in CutChains => StrayCell(m)
    BY <1>6, Sets DEF StrayCell, Members
  <2>4. \A x \in Heads \cup Records : nxt[x] = Readptr(x)' \/ (nxt[x] = 0 /\ StrayCell(x)')
    BY <1>6, <1>7, <2>1, <2>2, <2>3 DEF Leads
  <2>. QED
    BY <1>7, <1>10, <2>1, <2>4 DEF Links, Heads
<1>14. OffListsOK(gone)'
  BY <1>1, <1>7, <1>9, InvParts DEF OffListsOK
<1>15. \A c \in Chains : SameChain(c, nxt, nxt, gone, gone)
  BY <1>7, <1>11, Sets DEF SameChain
<1>16. IsList(C, Members(C, gone), nxt)' /\ IsList(FREE_OFF, FreeMembers(gone), nxt)'
  BY <1>11, <1>12, InvParts DEF IsList
<1>17. \A x, y \in Members(C, gone)' : idx'[x].key = idx'[y].key => x = y
  BY <1>7, <1>11, InvParts, Sets DEF KeyOnce
<1>18. \A q \in Procs \ {p} : Unlinked(q) => SameRecord(db[q].idxoff, nxt, nxt, gone)
  BY <1>7, UnlinkedRecord DEF SameRecord
<1>19. FreeKnown(p, nxt, gone)'
  BY <1>2 DEF FreeKnown
<1>20. ChainKnown(p, C, nxt, gone)'
  <2>1. \A x \in Members(C, gone)' : idx'[x].key # call'[p].key
    BY <1>2, <1>6, <1>7, <1>11, Sets
  <2>. QED
    BY <1>2, <2>1 DEF ChainKnown, Unlinked, DeletingPoints, HeadKnown, FreePoints, AppendPoints
<1>21. gone \subseteq Records' /\ CutChains \subseteq CutChains'
  BY <1>7, <1>8, InvParts
<1>. QED
  BY <1>21, <1>2, <1>3, <1>4, <1>13, <1>14, <1>15, <1>16, <1>17, <1>18, <1>19, <1>20, ChangeLists


\* _db_findfree: the record found is taken off the free list.
LEMMA FreeUnlinkLists ==
  ASSUME TypeOK, CallOK, LockOK, NEW nxt, NEW gone, ListInv(nxt, gone), NEW p \in Procs, FreeUnlink(p)
  PROVE  \E nxt2 : ListInv(nxt2, gone)'
<1>1. Step(p, "ff_unlink", "ff_unlock") /\ Writeptr(db[p].saveoffset, db[p].ptrval) /\ db' = db
  BY DEF FreeUnlink
<1>2. /\ pc[p] = "ff_unlink" /\ pc'[p] = "ff_unlock" /\ call' = call /\ Alone(p)
      /\ db[p] \in Handle
  BY <1>1, StepEffect, ProcType
<1>3. PICK C \in Chains : C = ChainOff(p)
  BY <1>2, HasChain DEF KeyPoints, StoreOnlyPoints, FreePoints
<1>4. /\ pc[p] \in ChainHeld /\ pc[p] \in FreeHeld /\ call[p].op # "fetch"
  BY <1>2 DEF ChainHeld, FreeHeld, KeyPoints, StoreOnlyPoints, FreePoints, CallOK
<1>5. PICK n, m, v, S : n = db[p].idxoff /\ m = db[p].saveoffset /\ v = db[p].ptrval /\ S = FreeMembers(gone)
  OBVIOUS
<1>6. /\ m \in {FREE_OFF} \cup S /\ nxt[m] = n /\ n \in S /\ db[p].cur = n /\ nxt[n] = v
      /\ \A x \in Members(C, gone) : idx[x].key # call[p].key
      /\ Leads(C, nxt[C], db[p].chainptr)
  BY <1>2, <1>3, <1>5, InvParts DEF FreeKnown, ChainKnown, KeyGonePoints, HeadKnown, FreePoints
<1>7. /\ S \in SUBSET Nat /\ 0 \notin S /\ FREE_OFF \notin S /\ S \subseteq Records
      /\ IsList(FREE_OFF, S, nxt) /\ v \in Nat /\ \A c : Members(c, gone) \cap S = {}
      /\ idx[n].key = BLANK /\ n \notin gone /\ \A q \in Procs : OffLists(q) => db[q].idxoff # n
  <2>1. /\ S \in SUBSET Nat /\ 0 \notin S /\ FREE_OFF \notin S /\ S \subseteq Records
        /\ IsList(FREE_OFF, S, nxt) /\ v \in Nat /\ \A c : Members(c, gone) \cap S = {}
    BY <1>2, <1>5, InvParts, Sets DEF Handle
  <2>2. idx[n].key = BLANK /\ n \notin gone /\ \A q \in Procs : OffLists(q) => db[q].idxoff # n
    BY <1>5, <1>6 DEF FreeMembers
  <2>. QED
    BY <2>1, <2>2
<1>8. m # n /\ n # 0 /\ n \in Records /\ m \in Heads \cup Records
  BY <1>6, <1>7, ListApart DEF Heads
<1>9. PICK nxt2 : nxt2 = [nxt EXCEPT ![m] = v]
  OBVIOUS
<1>10. Heads \cup Records \subseteq Cells
  BY Sets DEF Heads, Cells
<1>11. nxt2 \in [Cells -> Nat] /\ nxt2[m] = v /\ \A x \in Cells : x # m => nxt2[x] = nxt[x]
  BY <1>7, <1>8, <1>9, <1>10, InvParts DEF Links
<1>12. /\ Records' = Records
       /\ \A x \in Records : idx'[x].key = idx[x].key
       /\ \A x \in Heads \cup Records : Readptr(x)' = IF x = m THEN v ELSE Readptr(x)
  BY <1>1, <1>5, <1>7, <1>8, PointerWritten
<1>13. /\ \A q \in Procs : q # p => pc'[q] = pc[q] /\ db'[q] = db[q] /\ call'[q] = call[q]
       /\ CutChains' = CutChains
  BY <1>2, CutsSame DEF Alone
<1>14. /\ \A q \in Procs : Unlinked(q)' <=> Unlinked(q)
       /\ \A q \in Procs \ {p} : OffLists(q)' <=> OffLists(q)
       /\ OffLists(p)' /\ ~OffLists(p)
  BY <1>1, <1>2, <1>5, <1>6, <1>8, <1>13 DEF Unlinked, OffLists, Took
<1>15. Unlinking' = {} /\ Unlinking = {}
  BY <1>2, <1>4, <1>13, SoleUnlinker DEF Unlinking
<1>16. \A c : Members(c, gone)' = Members(c, gone)
  BY <1>1, <1>12, <1>14 DEF Members
<1>17. FreeMembers(gone)' = S \ {n}
  <2>1. \A x \in Records \ gone : x \in FreeMembers(gone)' <=>
            idx[x].key = BLANK /\ \A q \in Procs : OffLists(q)' => db[q].idxoff # x
    BY <1>1, <1>12 DEF FreeMembers
  <2>2. n \notin FreeMembers(gone)'
    BY <1>1, <1>5, <1>8, <1>14 DEF FreeMembers
  <2>3. \A x \in (Records \ gone) \ {n} : x \in FreeMembers(gone)' <=> x \in S
    BY <1>5, <1>14, <2>1 DEF FreeMembers
  <2>4. FreeMembers(gone)' \subseteq Records \ gone /\ S \subseteq Records \ gone
    BY <1>5, <1>12 DEF FreeMembers
  <2>5. \A x : x \in FreeMembers(gone)' <=> x \in S \ {n}
    BY <2>2, <2>3, <2>4
  <2>. QED
    BY <2>5, Zenon
<1>18. Links(nxt2)'
  <2>1. \A x \in Heads \cup Records : nxt[x] = Readptr(x) \/ (nxt[x] = 0 /\ StrayCell(x))
    BY <1>15, InvParts DEF Links
  <2>2. \A x \in Heads \cup Records : StrayCell(x)' <=> StrayCell(x)
    BY <1>12, <1>13 DEF StrayCell
  <2>3. \A x \in Heads \cup Records : nxt2[x] = Readptr(x)' \/ (nxt2[x] = 0 /\ StrayCell(x)')
    BY <1>10, <1>11, <1>12, <2>1, <2>2
  <2>. QED
    BY <1>11, <1>12, <1>15, <2>3 DEF Links, Heads
<1>19. OffListsOK(gone)'
  <2>1. \A q \in Procs : OffLists(q)' =>
            db'[q].idxoff \in Records' \ gone /\ idx'[db'[q].idxoff].key = BLANK
    BY <1>1, <1>5, <1>7, <1>8, <1>12, <1>14, InvParts DEF OffListsOK
  <2>2. \A q, r \in Procs : q # r /\ OffLists(q)' /\ OffLists(r)' => db'[q].idxoff # db'[r].idxoff
    BY <1>1, <1>5, <1>7, <1>14, InvParts DEF OffListsOK
  <2>. QED
    BY <2>1, <2>2 DEF OffListsOK
<1>20. ASSUME NEW c \in Chains PROVE SameChain(c, nxt, nxt2, gone, gone)
  <2>1. m \notin {c} \cup Members(c, gone) /\ {c} \cup Members(c, gone) \subseteq Cells
    BY <1>6, <1>7, <1>10, Sets DEF Heads
  <2>. QED
    BY <1>11, <1>12, <1>16, <2>1, Sets DEF SameChain
<1>21. IsList(C, Members(C, gone), nxt2)'
  <2>1. IsList(C, Members(C, gone), nxt2)
    BY <1>20, InvParts, ListFrame DEF SameChain
  <2>. QED
    BY <1>16, <2>1 DEF IsList
<1>22. \A x, y \in Members(C, gone)' : idx'[x].key = idx'[y].key => x = y
  BY <1>12, <1>16, InvParts, Sets DEF KeyOnce
<1>23. IsList(FREE_OFF, FreeMembers(gone), nxt2)'
  <2>1. \A x \in ({FREE_OFF} \cup S) \ {m, n} : nxt2[x] = nxt[x]
    BY <1>7, <1>10, <1>11 DEF Heads
  <2>2. IsList(FREE_OFF, S \ {n}, nxt2)
    BY <1>6, <1>7, <1>11, <2>1, ListRemove
  <2>. QED
    BY <1>17, <2>2 DEF IsList
<1>24. ASSUME NEW q \in Procs \ {p}, Unlinked(q) PROVE SameRecord(db[q].idxoff, nxt, nxt2, gone)
  <2>1. db[q].idxoff \in Records \ gone /\ db[q].idxoff # m
    BY <1>5, <1>6, <1>24, UnlinkedRecord, Sets
  <2>. QED
    BY <1>10, <1>11, <1>12, <2>1 DEF SameRecord
<1>25. FreeKnown(p, nxt2, gone)'
  BY <1>2 DEF FreeKnown
<1>26. ChainKnown(p, C, nxt2, gone)'
  <2>1. \A x \in Members(C, gone)' : idx'[x].key # call'[p].key
    BY <1>2, <1>6, <1>12, <1>16, Sets
  <2>2. Leads(C, nxt2[C], db[p].chainptr)'
    BY <1>1, <1>6, <1>13, <1>20 DEF SameChain, Leads
  <2>. QED
    BY <1>2, <2>1, <2>2 DEF ChainKnown, Leads, Unlinked, DeletingPoints, FreePoints, AppendPoints
<1>27. gone \subseteq Records' /\ CutChains \subseteq CutChains'
  BY <1>12, <1>13, InvParts
<1>28. ListInv(nxt2, gone)'
  BY <1>27, <1>2, <1>3, <1>4, <1>18, <1>19, <1>20, <1>21, <1>22, <1>23, <1>24, <1>25, <1>26, ChangeLists
<1>. QED
  BY <1>28

\* db_store writes its index record, which leads on to the first of the
\* chain: at the end of the file, or over a record taken off the free list.
LEMMA FillLists ==
  ASSUME TypeOK, CallOK, LockOK, NEW nxt, NEW gone, ListInv(nxt, gone), NEW p \in Procs, Alone(p),
         pc[p] \in {"reuse_idx", "idx_append"}, Unlinked(p)', call' = call, head' = head,
         NEW n \in Nat, n # 0, db'[p].idxoff = n, db'[p].chainptr = db[p].chainptr,
         n \in Records => OffLists(p), OffLists(p) => db[p].idxoff = n,
         Records' = Records \cup {n}, \A x \in Records \ {n} : idx'[x] = idx[x],
         idx'[n].key = call[p].key, idx'[n].ptr = db[p].chainptr
  PROVE  \E nxt2 : ListInv(nxt2, gone)'
<1>1. PICK C \in Chains : C = ChainOff(p) /\ C = Hash[call[p].key] /\ call[p].key \in Keys
  BY HasChain DEF KeyPoints, StoreOnlyPoints, AppendPoints, StorePoints, ChainOff
<1>2. /\ pc[p] \in ChainHeld /\ pc[p] \notin FreeHeld /\ call[p].op # "fetch"
      /\ pc[p] \in KeyGonePoints /\ pc[p] \in HeadKnown /\ ~Unlinked(p)
      /\ pc'[p] \in {"idx_unlock", "link"}
  BY DEF ChainHeld, FreeHeld, KeyPoints, StoreOnlyPoints, FreePoints, DeletePoints, AppendPoints,
         StorePoints, CallOK, KeyGonePoints, HeadKnown, Unlinked
<1>3. Leads(C, nxt[C], db[p].chainptr) /\ \A x \in Members(C, gone) : idx[x].key # call[p].key
  <2>1. ChainKnown(p, C, nxt, gone)
    BY <1>1, InvParts
  <2>. QED
    BY <1>2, <2>1 DEF ChainKnown
<1>4. call[p].key # BLANK
  BY <1>1, ConstantsAssumption
<1>5. /\ \A q \in Procs : q # p => pc'[q] = pc[q] /\ db'[q] = db[q] /\ call'[q] = call[q]
      /\ CutChains' = CutChains
  BY <1>2, CutsSame DEF Alone
<1>6. (n \in Records => idx[n].key = BLANK) /\ n \notin gone
  BY InvParts DEF OffListsOK
<1>7. \A c : n \notin Members(c, gone)
  BY <1>6 DEF Members
<1>8. n \notin FreeMembers(gone)
  BY DEF FreeMembers
<1>9. \A q \in Procs \ {p} : OffLists(q) => db[q].idxoff \in (Records \ gone) \ {n}
  BY InvParts DEF OffListsOK
<1>10. \A q \in Procs \ {p} : Unlinked(q) => db[q].idxoff \in (Records \ gone) \ {n}
  <2>. SUFFICES ASSUME NEW q \in Procs \ {p}, Unlinked(q) PROVE db[q].idxoff \in (Records \ gone) \ {n}
    OBVIOUS
  <2>1. db[q].idxoff \in Records \ gone /\ idx[db[q].idxoff].key \in Keys
    BY UnlinkedRecord
  <2>. QED
    BY <1>6, <2>1, ConstantsAssumption
<1>11. /\ \A q \in Procs \ {p} : (Unlinked(q)' <=> Unlinked(q)) /\ db'[q].idxoff = db[q].idxoff
       /\ \A q \in Procs \ {p} : OffLists(q)' <=> OffLists(q)
       /\ ~OffLists(p)' /\ Unlinking' = Unlinking /\ p \notin Unlinking
  BY <1>2, <1>5 DEF Unlinked, OffLists, Took, Unlinking
<1>12. \A c : Members(c, gone)' = Members(c, gone)
  <2>. SUFFICES ASSUME NEW c PROVE Members(c, gone)' = Members(c, gone)
    OBVIOUS
  <2>1. n \notin Members(c, gone)'
    BY DEF Members
  <2>2. \A x \in Records \ {n} : x \in Members(c, gone)' <=> x \in Members(c, gone)
    BY <1>2, <1>11 DEF Members
  <2>3. Members(c, gone) \subseteq Records /\ Members(c, gone)' \subseteq Records \cup {n}
    BY DEF Members
  <2>4. Members(c, gone)' \subseteq Members(c, gone)
    BY <2>1, <2>2, <2>3
  <2>5. Members(c, gone) \subseteq Members(c, gone)'
    BY <1>7, <2>2, <2>3
  <2>. QED
    BY <2>4, <2>5, Zenon
<1>13. FreeMembers(gone)' = FreeMembers(gone)
  <2>1. n \notin FreeMembers(gone)'
    BY <1>4 DEF FreeMembers
  <2>2. \A x \in Records \ {n} : x \in FreeMembers(gone)' <=> x \in FreeMembers(gone)
    BY <1>11 DEF FreeMembers
  <2>3. FreeMembers(gone) \subseteq Records /\ FreeMembers(gone)' \subseteq Records \cup {n}
    BY DEF FreeMembers
  <2>4. FreeMembers(gone)' \subseteq FreeMembers(gone)
    BY <2>1, <2>2, <2>3
  <2>5. FreeMembers(gone) \subseteq FreeMembers(gone)'
    BY <1>8, <2>2, <2>3
  <2>. QED
    BY <2>4, <2>5, Zenon
<1>14. PICK v : v = nxt[C] /\ v \in Nat
  BY InvParts DEF Links, Cells
<1>15. PICK nxt2 : nxt2 = [nxt EXCEPT ![n] = v]
  OBVIOUS
<1>16. Heads \cup Records \subseteq Cells /\ n \notin Heads
  BY Sets DEF Heads, Cells
<1>17. nxt2 \in [Cells -> Nat] /\ nxt2[n] = v /\ \A x \in Cells : x # n => nxt2[x] = nxt[x]
  BY <1>14, <1>15, InvParts DEF Links, Cells
<1>18. \A x \in Heads \cup Records : x # n => Readptr(x)' = Readptr(x)
  <2>. SUFFICES ASSUME NEW x \in Heads \cup Records, x # n PROVE Readptr(x)' = Readptr(x)
    OBVIOUS
  <2>1. x \in Nat => x \in Records
    BY Sets DEF Heads
  <2>. QED
    BY <2>1 DEF Readptr
<1>19. Links(nxt2)'
  <2>1. /\ \A q \in Unlinking : /\ Leads(ChainOff(q), nxt[db[q].ptroff], db[q].saveptr)
                                /\ Readptr(db[q].ptroff) = db[q].idxoff
        /\ \A x \in Heads \cup Records :
              \/ nxt[x] = Readptr(x)
              \/ \E q \in Unlinking : db[q].ptroff = x
              \/ nxt[x] = 0 /\ StrayCell(x)
    BY InvParts DEF Links
  <2>2. ASSUME NEW q \in Unlinking
        PROVE  /\ db[q].ptroff \in (Heads \cup Records) \ {n} /\ db'[q] = db[q]
               /\ ChainOff(q)' = ChainOff(q)
    <3>1. q \in Procs /\ q # p /\ pc[q] \in {"del_setfree", "del_unlink"} /\ pc[q] \in KeyPoints
      BY <1>11 DEF Unlinking, KeyPoints, DeletePoints
    <3>2. ChainOff(q) \in Chains
      BY <3>1, HasChain
    <3>3. db[q].ptroff \in {ChainOff(q)} \cup Members(ChainOff(q), gone)
      BY <3>1, <3>2, InvParts DEF ChainKnown
    <3>. QED
      BY <1>5, <1>7, <1>16, <3>1, <3>2, <3>3, Sets DEF Heads, ChainOff
  <2>3. ASSUME NEW q \in Unlinking'
        PROVE  /\ Leads(ChainOff(q), nxt2[db[q].ptroff], db[q].saveptr)'
               /\ Readptr(db[q].ptroff)' = db'[q].idxoff
    <3>1. q \in Unlinking
      BY <1>11, <2>3
    <3>2. PICK x : x = db[q].ptroff
      OBVIOUS
    <3>3. nxt2[x] = nxt[x] /\ Readptr(x)' = Readptr(x) /\ db'[q] = db[q]
      BY <1>5, <1>11, <1>16, <1>17, <1>18, <2>2, <3>1, <3>2 DEF Unlinking
    <3>. QED
      BY <1>5, <2>1, <2>2, <3>1, <3>2, <3>3 DEF Leads, Readptr
  <2>4. nxt2[n] = Readptr(n)' \/ (nxt2[n] = 0 /\ StrayCell(n)')
    <3>1. Readptr(n)' = db[p].chainptr
      BY DEF Readptr
    <3>2. C \in CutChains => StrayCell(n)'
      BY <1>1, <1>4, <1>5 DEF StrayCell
    <3>. QED
      BY <1>3, <1>14, <1>17, <3>1, <3>2, InvParts DEF Leads, Links, Cells
  <2>5. \A x \in Heads \cup Records : x # n => (StrayCell(x) => StrayCell(x)')
    BY <1>5 DEF StrayCell
  <2>6. \A x \in Heads \cup Records :
            x # n => \/ nxt2[x] = Readptr(x)'
                     \/ \E q \in Unlinking' : db'[q].ptroff = x
                     \/ nxt2[x] = 0 /\ StrayCell(x)'
    BY <1>11, <1>16, <1>17, <1>18, <2>1, <2>2, <2>5
  <2>7. \A x \in Heads \cup Records' :
            \/ nxt2[x] = Readptr(x)'
            \/ \E q \in Unlinking' : db'[q].ptroff = x
            \/ nxt2[x] = 0 /\ StrayCell(x)'
    BY <2>4, <2>6
  <2>. QED
    BY <1>17, <2>3, <2>7 DEF Links, Heads
<1>20. OffListsOK(gone)'
  <2>1. \A q \in Procs : OffLists(q)' =>
            db'[q].idxoff \in Records' \ gone /\ idx'[db'[q].idxoff].key = BLANK
    BY <1>9, <1>11, InvParts DEF OffListsOK
  <2>2. \A q, r \in Procs : q # r /\ OffLists(q)' /\ OffLists(r)' => db'[q].idxoff # db'[r].idxoff
    BY <1>11, InvParts DEF OffListsOK
  <2>. QED
    BY <2>1, <2>2 DEF OffListsOK
<1>21. ASSUME NEW c \in Chains PROVE SameChain(c, nxt, nxt2, gone, gone)
  <2>1. Members(c, gone) \subseteq Records \ {n} /\ c \in Cells /\ c # n
    BY <1>7, <1>16, Sets DEF Heads
  <2>2. \A x \in {c} \cup Members(c, gone) : nxt2[x] = nxt[x]
    BY <1>16, <1>17, <2>1
  <2>. QED
    BY <1>12, <2>1, <2>2 DEF SameChain
<1>22. SameFree(nxt, nxt2, gone, gone)
  <2>1. FreeMembers(gone) \subseteq Records \ {n} /\ FREE_OFF \in Cells /\ FREE_OFF # n
    BY <1>8, <1>16, Sets DEF Heads
  <2>2. \A x \in {FREE_OFF} \cup FreeMembers(gone) : nxt2[x] = nxt[x]
    BY <1>16, <1>17, <2>1
  <2>. QED
    BY <1>13, <2>2 DEF SameFree
<1>23. IsList(C, Members(C, gone), nxt2)'
  <2>1. IsList(C, Members(C, gone), nxt2)
    BY <1>21, InvParts, ListFrame DEF SameChain
  <2>. QED
    BY <1>12, <2>1 DEF IsList
<1>24. \A x, y \in Members(C, gone)' : idx'[x].key = idx'[y].key => x = y
  BY <1>12, <1>21, InvParts DEF KeyOnce, SameChain
<1>25. IsList(FREE_OFF, FreeMembers(gone), nxt2)'
  <2>1. IsList(FREE_OFF, FreeMembers(gone), nxt2)
    BY <1>22, InvParts, ListFrame DEF SameFree
  <2>. QED
    BY <1>13, <2>1 DEF IsList
<1>26. \A x \in (Records \ gone) \ {n} : SameRecord(x, nxt, nxt2, gone)
  BY <1>16, <1>17 DEF SameRecord
<1>27. /\ \A q \in Procs \ {p} : Unlinked(q) => SameRecord(db[q].idxoff, nxt, nxt2, gone)
       /\ \A q \in Procs \ {p} : pc[q] = "del_setfree" => SameRecord(db[q].idxoff, nxt, nxt2, gone)
  BY <1>9, <1>10, <1>26 DEF OffLists
<1>28. FreeKnown(p, nxt2, gone)'
  BY <1>2 DEF FreeKnown
<1>29. ChainKnown(p, C, nxt2, gone)'
  <2>1. \A x \in Members(C, gone)' : idx'[x].key # call'[p].key
    BY <1>3, <1>12, <1>21 DEF SameChain
  <2>2. nxt2[C] = v /\ nxt2[n] = nxt2[C]
    BY <1>14, <1>17, <1>21 DEF SameChain
  <2>3. Leads(C, nxt2[C], db[p].chainptr)'
    BY <1>3, <1>5, <1>14, <2>2 DEF Leads
  <2>. QED
    BY <1>2, <1>6, <2>1, <2>2, <2>3 DEF ChainKnown, Leads, DeletingPoints
<1>30. gone \subseteq Records' /\ CutChains \subseteq CutChains'
  BY <1>5, InvParts
<1>31. ListInv(nxt2, gone)'
  BY <1>30, <1>1, <1>2, <1>19, <1>20, <1>21, <1>22, <1>23, <1>24, <1>25, <1>27, <1>28, <1>29, ChangeLists
<1>. QED
  BY <1>31


LEMMA ReuseWriteidxLists ==
  ASSUME TypeOK, CallOK, LockOK, NEW nxt, NEW gone, ListInv(nxt, gone), NEW p \in Procs, ReuseWriteidx(p)
  PROVE  \E nxt2 : ListInv(nxt2, gone)'
<1>. DEFINE h == [db[p] EXCEPT !.ptrval = db[p].chainptr]
<1>1. /\ Step(p, "reuse_idx", "link") /\ Handles(p, h) /\ head' = head
      /\ idx' = Put(idx, db[p].idxoff, NewIdx(p))
  BY DEF ReuseWriteidx
<1>2. /\ pc[p] = "reuse_idx" /\ pc'[p] = "link" /\ call' = call /\ Alone(p)
      /\ db'[p] = h /\ db[p] \in Handle
  BY <1>1, StepEffect, ProcType
<1>3. db'[p].idxoff = db[p].idxoff /\ db'[p].chainptr = db[p].chainptr
  BY <1>2 DEF Handle
<1>4. OffLists(p) /\ Unlinked(p)'
  BY <1>2 DEF OffLists, Took, Unlinked
<1>5. PICK n : n = db[p].idxoff /\ n \in Records /\ n \in Nat /\ n # 0
  BY <1>4, InvParts, Sets DEF OffListsOK
<1>6. NewIdx(p) \in IdxRec /\ NewIdx(p).key = call[p].key /\ NewIdx(p).ptr = db[p].chainptr
  BY <1>2, NewIdxFields DEF NewIdx, StoreOnlyPoints, StorePoints
<1>7. /\ Records' = Records /\ idx'[n] = NewIdx(p)
      /\ \A m \in Records \ {n} : idx'[m] = idx[m]
  BY <1>1, <1>5, <1>6, RecordWritten
<1>8. /\ db'[p].idxoff = n /\ (n \in Records => OffLists(p)) /\ (OffLists(p) => db[p].idxoff = n)
      /\ Records' = Records \cup {n}
  BY <1>3, <1>4, <1>5, <1>7
<1>9. idx'[n].key = call[p].key /\ idx'[n].ptr = db[p].chainptr
  BY <1>6, <1>7
<1>10. pc[p] \in {"reuse_idx", "idx_append"}
  BY <1>2
<1>. HIDE DEF h
<1>. QED
  BY <1>1, <1>2, <1>3, <1>4, <1>5, <1>7, <1>8, <1>9, <1>10, FillLists

LEMMA IdxAppendLists ==
  ASSUME TypeOK, CallOK, LockOK, DataInv, NEW nxt, NEW gone, ListInv(nxt, gone), NEW p \in Procs, IdxAppend(p)
  PROVE  \E nxt2 : ListInv(nxt2, gone)'
<1>1. /\ Step(p, "idx_append", "idx_unlock") /\ db' = db /\ head' = head
      /\ idx' = Put(idx, db[p].idxoff, NewIdx(p))
  BY DEF IdxAppend
<1>2. /\ pc[p] = "idx_append" /\ pc'[p] = "idx_unlock" /\ call' = call /\ Alone(p)
  BY <1>1, StepEffect
<1>3. ~OffLists(p) /\ Unlinked(p)'
  BY <1>2 DEF OffLists, Took, Unlinked
<1>4. PICK n : n = db[p].idxoff /\ n = Len(idx) + 1
  BY <1>2 DEF DataInv, HandleOK
<1>5. n \in Nat /\ n # 0 /\ n \notin Records
  BY <1>4, Sets DEF Records
<1>6. NewIdx(p) \in IdxRec /\ NewIdx(p).key = call[p].key /\ NewIdx(p).ptr = db[p].chainptr
  BY <1>2, NewIdxFields DEF NewIdx, StoreOnlyPoints, AppendPoints
<1>7. /\ Len(idx') = Len(idx) + 1
      /\ \A i \in DOMAIN idx : idx'[i] = idx[i]
      /\ idx'[n] = NewIdx(p)
  BY <1>1, <1>4, <1>6, Domains, Appended
<1>8. Records' = Records \cup {n}
  BY <1>4, <1>7, Sets DEF Records
<1>9. /\ \A x \in Records \ {n} : idx'[x] = idx[x]
      /\ idx'[n].key = call[p].key /\ idx'[n].ptr = db[p].chainptr
  BY <1>6, <1>7, Sets
<1>. QED
  BY <1>1, <1>2, <1>3, <1>4, <1>5, <1>8, <1>9, FillLists

\* The record written goes to the front of its chain.
LEMMA LinkLists ==
  ASSUME TypeOK, CallOK, LockOK, NEW nxt, NEW gone, ListInv(nxt, gone), NEW p \in Procs, Link(p)
  PROVE  \E nxt2 : ListInv(nxt2, gone)'
<1>1. Step(p, "link", "unlock_chain") /\ Writeptr(ChainOff(p), db[p].idxoff) /\ db' = db
  BY DEF Link
<1>2. /\ pc[p] = "link" /\ pc'[p] = "unlock_chain" /\ call' = call /\ Alone(p)
      /\ Unlinked(p) /\ ~Unlinked(p)'
  BY <1>1, StepEffect DEF Unlinked
<1>3. PICK C \in Chains, n \in {db[p].idxoff} : C = ChainOff(p) /\ n = db[p].idxoff
  BY <1>2, HasChain DEF KeyPoints, StoreOnlyPoints, StorePoints
<1>4. /\ pc[p] \in ChainHeld /\ pc[p] \notin FreeHeld /\ call[p].op # "fetch"
      /\ pc[p] \in KeyGonePoints
  BY <1>2 DEF ChainHeld, FreeHeld, KeyPoints, StoreOnlyPoints, StorePoints, DeletePoints, FreePoints,
              CallOK, KeyGonePoints
<1>5. /\ n \in Records \ gone /\ idx[n].key = call[p].key /\ Hash[idx[n].key] = C /\ idx[n].key # BLANK
      /\ nxt[n] = nxt[C] /\ \A c : n \notin Members(c, gone)
      /\ n \notin FreeMembers(gone)
  BY <1>2, <1>3, UnlinkedRecord, ConstantsAssumption DEF ChainOff
<1>6. \A x \in Members(C, gone) : idx[x].key # call[p].key
  <2>1. ChainKnown(p, C, nxt, gone)
    BY <1>3, InvParts
  <2>. QED
    BY <1>4, <2>1 DEF ChainKnown
<1>7. n \in Nat /\ n # 0 /\ C \notin Nat /\ C # FREE_OFF /\ C \in Cells /\ C \in Heads
  BY <1>5, Sets DEF Cells, Heads
<1>8. PICK nxt2 : nxt2 = [nxt EXCEPT ![C] = n]
  OBVIOUS
<1>9. nxt2 \in [Cells -> Nat] /\ nxt2[C] = n /\ \A x \in Cells : x # C => nxt2[x] = nxt[x]
  BY <1>7, <1>8, InvParts DEF Links
<1>10. Heads \cup Records \subseteq Cells
  BY Sets DEF Heads, Cells
<1>11. /\ Records' = Records
       /\ \A x \in Records : idx'[x].key = idx[x].key
       /\ \A x \in Heads \cup Records : Readptr(x)' = IF x = C THEN n ELSE Readptr(x)
  BY <1>1, <1>3, <1>7, PointerWritten
<1>12. /\ \A q \in Procs : q # p => pc'[q] = pc[q] /\ db'[q] = db[q] /\ call'[q] = call[q]
       /\ CutChains' = CutChains
  BY <1>2, CutsSame DEF Alone
<1>13. /\ \A q \in Procs \ {p} : Unlinked(q)' <=> Unlinked(q)
       /\ \A q \in Procs : OffLists(q)' <=> OffLists(q)
       /\ Unlinking' = Unlinking /\ p \notin Unlinking
  BY <1>1, <1>2, <1>12 DEF Unlinked, OffLists, Took, Unlinking
<1>14. \A q \in Procs \ {p} : Unlinked(q) => db[q].idxoff # n
  <2>. SUFFICES ASSUME NEW q \in Procs \ {p}, Unlinked(q), db[q].idxoff = n PROVE FALSE
    OBVIOUS
  <2>1. pc[q] \in ChainHeld
    BY DEF Unlinked, ChainHeld, KeyPoints, StoreOnlyPoints, AppendPoints, StorePoints
  <2>2. ChainOff(q) # C
    BY <1>3, <1>4, <2>1, ChainApart
  <2>3. idx[n].key = call[q].key
    BY UnlinkedRecord
  <2>. QED
    BY <1>5, <2>2, <2>3 DEF ChainOff
<1>15. Members(C, gone)' = Members(C, gone) \cup {n}
  <2>1. n \in Members(C, gone)'
    BY <1>1, <1>2, <1>5, <1>11, <1>13, <1>14 DEF Members
  <2>2. \A x \in Records \ {n} : x \in Members(C, gone)' <=> x \in Members(C, gone)
    BY <1>1, <1>2, <1>3, <1>11, <1>13 DEF Members
  <2>3. Members(C, gone)' \subseteq Records /\ Members(C, gone) \subseteq Records
    BY <1>11 DEF Members
  <2>4. Members(C, gone)' \subseteq Members(C, gone) \cup {n}
    BY <2>2, <2>3
  <2>5. Members(C, gone) \cup {n} \subseteq Members(C, gone)'
    BY <1>5, <2>1, <2>2, <2>3
  <2>. QED
    BY <2>4, <2>5, Zenon
<1>16. ASSUME NEW c \in Chains \ {C} PROVE Members(c, gone)' = Members(c, gone)
  <2>1. n \notin Members(c, gone)'
    BY <1>5, <1>11 DEF Members
  <2>2. \A x \in Records \ {n} : x \in Members(c, gone)' <=> x \in Members(c, gone)
    BY <1>1, <1>2, <1>3, <1>11, <1>13 DEF Members
  <2>3. Members(c, gone)' \subseteq Records /\ Members(c, gone) \subseteq Records
    BY <1>11 DEF Members
  <2>4. Members(c, gone)' \subseteq Members(c, gone)
    BY <2>1, <2>2, <2>3
  <2>5. Members(c, gone) \subseteq Members(c, gone)'
    BY <1>5, <2>2, <2>3
  <2>. QED
    BY <2>4, <2>5, Zenon
<1>17. FreeMembers(gone)' = FreeMembers(gone)
  BY <1>1, <1>11, <1>13 DEF FreeMembers
<1>18. Links(nxt2)'
  <2>1. /\ \A q \in Unlinking : /\ Leads(ChainOff(q), nxt[db[q].ptroff], db[q].saveptr)
                                /\ Readptr(db[q].ptroff) = db[q].idxoff
        /\ \A x \in Heads \cup Records :
              \/ nxt[x] = Readptr(x)
              \/ \E q \in Unlinking : db[q].ptroff = x
              \/ nxt[x] = 0 /\ StrayCell(x)
    BY InvParts DEF Links
  <2>2. ASSUME NEW q \in Unlinking
        PROVE  db[q].ptroff \in (Heads \cup Records) \ {C} /\ ChainOff(q)' = ChainOff(q)
    <3>1. /\ q \in Procs /\ q # p /\ pc[q] \in {"del_setfree", "del_unlink"} /\ pc[q] \in KeyPoints
          /\ pc[q] \in ChainHeld
      BY <1>13 DEF Unlinking, KeyPoints, DeletePoints, ChainHeld
    <3>2. ChainOff(q) \in Chains /\ ChainOff(q) # C
      BY <1>3, <1>4, <3>1, HasChain, ChainApart
    <3>3. db[q].ptroff \in {ChainOff(q)} \cup Members(ChainOff(q), gone)
      BY <3>1, <3>2, InvParts DEF ChainKnown
    <3>. QED
      BY <1>7, <1>12, <3>1, <3>2, <3>3, Sets DEF Heads, ChainOff
  <2>3. ASSUME NEW q \in Unlinking'
        PROVE  /\ Leads(ChainOff(q), nxt2[db[q].ptroff], db[q].saveptr)'
               /\ Readptr(db[q].ptroff)' = db'[q].idxoff
    <3>1. q \in Unlinking
      BY <1>13, <2>3
    <3>2. PICK x : x = db[q].ptroff
      OBVIOUS
    <3>3. nxt2[x] = nxt[x] /\ Readptr(x)' = Readptr(x) /\ db'[q] = db[q]
      BY <1>1, <1>9, <1>10, <1>11, <2>2, <3>1, <3>2
    <3>. QED
      BY <1>1, <1>12, <2>1, <2>2, <3>1, <3>2, <3>3 DEF Leads, Readptr
  <2>4. \A x \in Heads \cup Records : StrayCell(x)' <=> StrayCell(x)
    BY <1>11, <1>12 DEF StrayCell
  <2>5. \A x \in Heads \cup Records' :
            \/ nxt2[x] = Readptr(x)'
            \/ \E q \in Unlinking' : db'[q].ptroff = x
            \/ nxt2[x] = 0 /\ StrayCell(x)'
    BY <1>1, <1>9, <1>10, <1>11, <1>13, <2>1, <2>4
  <2>. QED
    BY <1>9, <2>3, <2>5 DEF Links, Heads
<1>19. OffListsOK(gone)'
  BY <1>1, <1>11, <1>13, InvParts DEF OffListsOK
<1>20. \A x \in (Heads \cup Records) \ {C} : nxt2[x] = nxt[x]
  BY <1>9, <1>10
<1>21. ASSUME NEW c \in Chains \ {C} PROVE SameChain(c, nxt, nxt2, gone, gone)
  <2>1. {c} \cup Members(c, gone) \subseteq (Heads \cup Records) \ {C}
    BY <1>7, Sets DEF Heads
  <2>. QED
    BY <1>11, <1>16, <1>20, <2>1, Sets DEF SameChain
<1>22. IsList(C, Members(C, gone), nxt2)'
  <2>1. PICK S : S = Members(C, gone)
    OBVIOUS
  <2>2. /\ S \in SUBSET Nat /\ C \notin S /\ 0 \notin S /\ IsList(C, S, nxt) /\ n \notin S
        /\ S \subseteq Records
    BY <1>5, <1>7, <2>1, InvParts, Sets
  <2>3. nxt2[C] = n /\ nxt2[n] = nxt[C] /\ \A x \in S : nxt2[x] = nxt[x] /\ n # C
    BY <1>5, <1>7, <1>9, <1>20, <2>2
  <2>4. IsList(C, S \cup {n}, nxt2)
    BY <1>7, <2>2, <2>3, ListPush
  <2>. QED
    BY <1>15, <2>1, <2>4 DEF IsList
<1>23. \A x, y \in Members(C, gone)' : idx'[x].key = idx'[y].key => x = y
  <2>1. \A x \in Members(C, gone) \cup {n} : idx'[x].key = idx[x].key
    BY <1>5, <1>11, Sets
  <2>. QED
    BY <1>5, <1>6, <1>15, <2>1, InvParts DEF KeyOnce
<1>24. SameFree(nxt, nxt2, gone, gone)
  <2>1. {FREE_OFF} \cup FreeMembers(gone) \subseteq (Heads \cup Records) \ {C}
    BY <1>7, Sets DEF Heads
  <2>. QED
    BY <1>17, <1>20, <2>1 DEF SameFree
<1>25. IsList(FREE_OFF, FreeMembers(gone), nxt2)'
  <2>1. IsList(FREE_OFF, FreeMembers(gone), nxt2)
    BY <1>24, InvParts, ListFrame DEF SameFree
  <2>. QED
    BY <1>17, <2>1 DEF IsList
<1>26. \A x \in Records \ gone : SameRecord(x, nxt, nxt2, gone)
  BY <1>7, <1>11, <1>20, Sets DEF SameRecord
<1>27. /\ \A q \in Procs \ {p} : Unlinked(q) => SameRecord(db[q].idxoff, nxt, nxt2, gone)
       /\ \A q \in Procs \ {p} : pc[q] = "del_setfree" => SameRecord(db[q].idxoff, nxt, nxt2, gone)
  <2>1. \A q \in Procs : pc[q] = "del_setfree" => db[q].idxoff \in Records \ gone
    BY InvParts DEF OffListsOK, OffLists
  <2>. QED
    BY <1>26, <2>1, UnlinkedRecord
<1>28. FreeKnown(p, nxt2, gone)' /\ ChainKnown(p, C, nxt2, gone)'
  BY <1>2, NothingKnown DEF Ignorant
<1>29. gone \subseteq Records' /\ CutChains \subseteq CutChains'
  BY <1>11, <1>12, InvParts
<1>30. ListInv(nxt2, gone)'
  BY <1>29, <1>2, <1>3, <1>4, <1>18, <1>19, <1>21, <1>22, <1>23, <1>24, <1>25, <1>27, <1>28, ChangeLists
<1>. QED
  BY <1>30


-----------------------------------------------------------------------------
\* The specification

LEMMA InitLists ==
  ASSUME Init
  PROVE  \E nxt : ListInv(nxt, {})
<1>1. /\ idx = << >> /\ head = [c \in Chains \cup {FREE_OFF} |-> 0]
      /\ \A p \in Procs : pc[p] = "idle"
  BY DEF Init
<1>2. Records = {} /\ Unlinking = {}
  BY <1>1 DEF Records, Unlinking
<1>3. FreeMembers({}) = {} /\ \A c : Members(c, {}) = {}
  BY <1>2 DEF FreeMembers, Members
<1>4. PICK nxt : nxt = [x \in Cells |-> 0]
  OBVIOUS
<1>5. Links(nxt)
  <2>1. \A x \in Heads : x \in Cells /\ Readptr(x) = 0
    BY <1>1, ConstantsAssumption DEF Heads, Cells, Readptr
  <2>. QED
    BY <1>2, <1>4, <2>1 DEF Links
<1>6. ASSUME NEW c \in Heads PROVE IsList(c, {}, nxt)
  <2>1. nxt[c] = 0
    BY <1>4 DEF Heads, Cells
  <2>2. \E rank \in [{} -> Nat] : TRUE
    <3>1. [x \in {} |-> 0] \in [{} -> Nat]
      OBVIOUS
    <3>. QED
      BY <3>1
  <2>. QED
    BY <2>1, <2>2 DEF IsList
<1>7. KeyOnce({})
  BY <1>3 DEF KeyOnce
<1>8. OffListsOK({})
  BY <1>1 DEF OffListsOK, OffLists, Took
<1>9. \A p \in Procs : FreeKnown(p, nxt, {})
  BY <1>1 DEF FreeKnown
<1>10. \A p \in Procs, c \in Chains : ChainKnown(p, c, nxt, {})
  BY <1>1 DEF ChainKnown, Unlinked, DeletingPoints, KeyGonePoints, HeadKnown, FreePoints, AppendPoints,
              StorePoints
<1>. QED
  BY <1>3, <1>5, <1>6, <1>7, <1>8, <1>9, <1>10 DEF ListInv, Heads

\* A step of a process that is not killed,
LivingStep(p) == (\E c \in Uses[p] : Invoke(p, c)) \/ Rewind(p) \/ Progress(p)

LEMMA FoundPoints ==
  ASSUME CallOK, NEW p \in Procs, pc[p] = "walk", NEW n
  PROVE  AfterFound(call[p], n) \in {"readdat", "unlock_chain", "overwrite", "del_lock", "reread_head"}
<1>1. call[p].op \in {"fetch", "delete", "store"}
  BY DEF CallOK, KeyPoints, FindPoints
<1>. QED
  BY <1>1 DEF AfterFound

Lives(p) ==
    /\ pc[p] \notin Ended /\ pc'[p] \notin Killed
    /\ \A q \in Procs : q # p => pc'[q] = pc[q] /\ db'[q] = db[q] /\ call'[q] = call[q]
    /\ pc[p] # "idle" /\ pc'[p] # "idle" => call'[p] = call[p]

LEMMA LivesOn ==
  ASSUME TypeOK, CallOK, NEW p \in Procs, LivingStep(p)
  PROVE  Lives(p)
<1>1. ASSUME NEW from, NEW to, Step(p, from, to), from \notin Ended, to \notin Killed,
             db' = db \/ \E h : Handles(p, h)
      PROVE  Lives(p)
  BY <1>1 DEF Lives, Step, Handles, TypeOK
<1>2. ASSUME NEW from, NEW r, Return(p, from, r), from \notin Ended PROVE Lives(p)
  BY <1>2 DEF Lives, Return, proc, Killed, TypeOK
<1>3. CASE FindStep(p)
  <2>1. CASE Found(p)
    <3>1. PICK to : to = AfterFound(call[p], idx[db[p].cur].datlen) /\ Step(p, "walk", to)
      BY <2>1 DEF Found
    <3>2. to \notin Killed
      BY <3>1, FoundPoints DEF Step, Killed
    <3>3. \E h : Handles(p, h)
      BY <2>1 DEF Found
    <3>. QED
      BY <1>1, <3>1, <3>2, <3>3 DEF Ended, Killed
  <2>2. CASE NotFound(p)
    <3>1. (\E to \in {"read_head", "unlock_chain"} : Step(p, "walk", to)) /\ db' = db
      BY <2>2 DEF NotFound
    <3>. QED
      BY <1>1, <3>1 DEF Ended, Killed
  <2>3. CASE LockChain(p) \/ ReadChain(p) \/ WalkOn(p) \/ FetchData(p)
    BY <2>3, <1>1 DEF LockChain, ReadChain, WalkOn, FetchData, Lock, Ended, Killed
  <2>4. CASE UnlockChain(p)
    BY <2>4, <1>2 DEF UnlockChain, Ended, Killed
  <2>. QED
    BY <1>3, <2>1, <2>2, <2>3, <2>4 DEF FindStep
<1>4. CASE DeleteStep(p)
  <2>1. CASE DelLock(p) \/ DelUnlock(p)
    BY <2>1, <1>1 DEF DelLock, DelUnlock, Lock, Unlock, Ended, Killed
  <2>2. CASE DelWritedat(p) \/ DelReadfree(p) \/ DelWriteidx(p) \/ DelSetfree(p) \/ DelUnlink(p)
    BY <2>2, <1>1 DEF DelWritedat, DelReadfree, DelWriteidx, DelSetfree, DelUnlink, Ended, Killed
  <2>. QED
    BY <1>4, <2>1, <2>2 DEF DeleteStep
<1>5. CASE FreeStep(p)
  BY <1>5, <1>1 DEF FreeStep, FreeLock, FreeRead, FreeWalkOn, FreeFound, FreeNone, FreeUnlink, FreeUnlock,
                    Lock, Unlock, Ended, Killed
<1>6. CASE AppendStep(p)
  BY <1>6, <1>1 DEF AppendStep, DatLock, DatSeek, DatAppend, DatUnlock, IdxLock, IdxSeek, IdxAppend,
                    IdxUnlock, Lock, Unlock, Ended, Killed
<1>7. CASE StoreStep(p)
  BY <1>7, <1>1 DEF StoreStep, ReadHead, ReuseWritedat, ReuseWriteidx, Link, Overwrite, WritedatAt,
                    Ended, Killed
<1>8. CASE ScanStep(p)
  BY <1>8, <1>1, <1>2 DEF ScanStep, ScanLock, ScanRead, ScanEof, ScanData, ScanUnlock, Lock, Ended, Killed
<1>9. CASE Dump(p)
  BY <1>9 DEF Dump, Insane, End, proc, Ended, Killed, TypeOK, Lives
<1>10. CASE \E c \in Uses[p] : Invoke(p, c)
  BY <1>10 DEF Invoke, FirstPoint, Ended, Killed, TypeOK, Lives
<1>11. CASE Rewind(p)
  BY <1>11 DEF Rewind, Handles, Ended, Killed, TypeOK, Lives
<1>. QED
  BY <1>3, <1>4, <1>5, <1>6, <1>7, <1>8, <1>9, <1>10, <1>11 DEF LivingStep, Progress

\* and of one that is.
LEMMA CrashEffect ==
  ASSUME TypeOK, NEW p \in Procs, Crash(p)
  PROVE  /\ pc[p] \notin Ended /\ pc[p] \in CrashAt
         /\ pc'[p] = IF pc[p] \in CutPoints THEN "cut" ELSE "crashed"
         /\ \A q \in Procs : q # p => pc'[q] = pc[q]
         /\ head' = head /\ idx' = idx /\ dat' = dat /\ db' = db /\ call' = call /\ store' = store
BY DEF Crash, End, files, proc, hist, TypeOK

LEMMA NextCases ==
  ASSUME [Next]_vars
  PROVE  \/ \E p \in Procs : LivingStep(p) \/ Crash(p)
         \/ UNCHANGED vars
BY DEF Next, LivingStep

LEMMA CutStep ==
  ASSUME TypeOK, CallOK, [Next]_vars, NEW q \in Procs, pc'[q] = "cut", pc[q] # "cut"
  PROVE  Crash(q) /\ pc[q] \in CutPoints
<1>1. CASE UNCHANGED vars
  BY <1>1 DEF vars
<1>2. ASSUME NEW p \in Procs, LivingStep(p) PROVE FALSE
  BY <1>2, LivesOn DEF Lives, Killed
<1>3. ASSUME NEW p \in Procs, Crash(p) PROVE Crash(q) /\ pc[q] \in CutPoints
  BY <1>3, CrashEffect
<1>. QED
  BY <1>1, <1>2, <1>3, NextCases

LEMMA NextLists ==
  ASSUME DbInv, NEW nxt, NEW gone, ListInv(nxt, gone), [Next]_vars, FoundOnPath(gone),
         \A p \in Procs : Crash(p) => pc[p] \notin Marked
  PROVE  \E nxt2 : ListInv(nxt2, gone)'
<1>. TypeOK /\ CallOK /\ LockOK /\ DataInv
  BY DEF DbInv
<1>1. CASE Next
  <2>1. PICK p \in Procs : \/ \E c \in Uses[p] : Invoke(p, c)
                           \/ Rewind(p) \/ Progress(p) \/ Crash(p)
    BY <1>1 DEF Next
  <2>2. CASE FindStep(p)
    BY <2>2, FindLists
  <2>3. CASE DeleteStep(p)
    BY <2>3, LockLists, DatLists, DelReadfreeLists, DelWriteidxLists, DelSetfreeLists, DelUnlinkLists
       DEF DeleteStep
  <2>4. CASE FreeStep(p)
    BY <2>4, LockLists, FreeReadLists, FreeWalkOnLists, FreeFoundLists, FreeNoneLists, FreeUnlinkLists
       DEF FreeStep
  <2>5. CASE AppendStep(p)
    BY <2>5, LockLists, DatLists, IdxAppendLists DEF AppendStep
  <2>6. CASE StoreStep(p)
    BY <2>6, ReadHeadLists, DatLists, ReuseWriteidxLists, LinkLists DEF StoreStep
  <2>7. CASE ScanStep(p) \/ (\E c \in Uses[p] : Invoke(p, c)) \/ Rewind(p) \/ Dump(p) \/ Crash(p)
    BY <2>7, OutsideLists
  <2>. QED
    BY <2>1, <2>2, <2>3, <2>4, <2>5, <2>6, <2>7 DEF Progress
<1>2. CASE UNCHANGED vars
  <2>1. head' = head /\ idx' = idx /\ pc' = pc /\ db' = db /\ call' = call
    BY <1>2 DEF vars
  <2>2. /\ Records' = Records /\ Unlinking' = Unlinking /\ FreeMembers(gone)' = FreeMembers(gone)
        /\ \A c : Members(c, gone)' = Members(c, gone)
    BY <2>1 DEF Records, Unlinking, FreeMembers, Members, OffLists, Took, Unlinked
  <2>3. \A m : Readptr(m)' = Readptr(m)
    BY <2>1 DEF Readptr
  <2>12. CutChains' = CutChains /\ \A m : StrayCell(m)' <=> StrayCell(m)
    BY <2>1, <2>2 DEF CutChains, Cut, StrayCell
  <2>4. Links(nxt)'
    <3>1. \A q \in Unlinking : ChainOff(q)' = ChainOff(q)
      BY <2>1 DEF ChainOff
    <3>2. \A c, v, g : Leads(c, v, g)' <=> Leads(c, v, g)
      BY <2>12 DEF Leads
    <3>. QED
      BY <2>1, <2>2, <2>3, <2>12, <3>1, <3>2, InvParts DEF Links, Heads
  <2>5. (\A c \in Chains : IsList(c, Members(c, gone), nxt)') /\ IsList(FREE_OFF, FreeMembers(gone), nxt)'
    BY <2>2, InvParts DEF IsList
  <2>6. KeyOnce(gone)'
    BY <2>1, <2>2, InvParts DEF KeyOnce
  <2>7. OffListsOK(gone)'
    BY <2>1, <2>2, InvParts DEF OffListsOK, OffLists, Took
  <2>8. \A c \in Chains : SameChain(c, nxt, nxt, gone, gone)
    BY <2>1, <2>2 DEF SameChain
  <2>9. SameFree(nxt, nxt, gone, gone) /\ \A n \in Records \ gone : SameRecord(n, nxt, nxt, gone)
    BY <2>1, <2>2 DEF SameFree, SameRecord
  <2>10. ASSUME NEW q \in Procs PROVE FreeKnown(q, nxt, gone)'
    <3>1. FreeKnown(q, nxt, gone) /\ (pc[q] = "del_setfree" => db[q].idxoff \in Records \ gone)
      BY InvParts DEF FreeKnown
    <3>. QED
      BY <2>1, <2>9, <3>1, FreeKnownKept
  <2>11. ASSUME NEW q \in Procs, NEW c \in Chains, c = ChainOff(q)' PROVE ChainKnown(q, c, nxt, gone)'
    <3>1. ChainKnown(q, c, nxt, gone)
      BY <2>1, <2>11, InvParts DEF ChainOff
    <3>2. Unlinked(q) => db[q].idxoff \in Records \ gone
      BY <3>1 DEF ChainKnown
    <3>. QED
      BY <2>1, <2>8, <2>9, <2>12, <3>1, <3>2, ChainKnownKept
  <2>. QED
    BY <2>2, <2>4, <2>5, <2>6, <2>7, <2>10, <2>11, InvParts DEF ListInv
<1>. QED
  BY <1>1, <1>2

\* What the invariant says of a chain that nobody is changing,
LEMMA ChainThen ==
  ASSUME TypeOK, CallOK, LockOK, NEW nxt, NEW gone, ListInv(nxt, gone),
         NEW c \in Chains \ CutChains, ~WriteLocked(c)
  PROVE  /\ Reach(c) = Members(c, gone)
         /\ ChainRecords(c) \ gone = Members(c, gone)
         /\ \A n \in Members(c, gone) : n \notin Reach(n)
<1>1. ASSUME NEW q \in Procs, pc[q] \in ChainHeld, call[q].op # "fetch" PROVE ChainOff(q) # c
  <2>1. lock[q][c] = HeldAt(pc[q], call[q], c)
    BY DEF LockOK, LockTable, Regions
  <2>. QED
    BY <1>1, <2>1 DEF HeldAt, ChainOff, WriteLocked
<1>2. ChainRecords(c) \ gone = Members(c, gone)
  <2>1. ASSUME NEW q \in Procs, Unlinked(q), NEW n \in Records, Hash[idx[n].key] = c
        PROVE  db[q].idxoff # n
    <3>1. pc[q] \in ChainHeld /\ call[q].op # "fetch"
      BY <2>1 DEF Unlinked, ChainHeld, KeyPoints, StoreOnlyPoints, AppendPoints, StorePoints, CallOK
    <3>2. idx[db[q].idxoff].key = call[q].key /\ ChainOff(q) # c
      BY <1>1, <2>1, <3>1, UnlinkedRecord
    <3>. QED
      BY <2>1, <3>2 DEF ChainOff
  <2>. QED
    BY <2>1, Sets DEF ChainRecords, Live, Members
<1>3. \A m \in {c} \cup Members(c, gone) : nxt[m] = Readptr(m)
  <2>1. \A m \in Heads \cup Records :
          \/ nxt[m] = Readptr(m)
          \/ \E q \in Unlinking : db[q].ptroff = m
          \/ nxt[m] = 0 /\ StrayCell(m)
    BY InvParts DEF Links
  <2>3. \A m \in {c} \cup Members(c, gone) : ~StrayCell(m)
    BY Sets DEF StrayCell, Members
  <2>2. ASSUME NEW q \in Unlinking PROVE db[q].ptroff \notin {c} \cup Members(c, gone)
    <3>1. /\ q \in Procs /\ pc[q] \in {"del_setfree", "del_unlink"}
          /\ pc[q] \in KeyPoints /\ pc[q] \in ChainHeld /\ call[q].op # "fetch"
      BY DEF Unlinking, KeyPoints, DeletePoints, ChainHeld, CallOK
    <3>2. ChainOff(q) \in Chains /\ ChainOff(q) # c
      BY <1>1, <3>1, HasChain
    <3>3. db[q].ptroff \in {ChainOff(q)} \cup Members(ChainOff(q), gone)
      BY <3>1, <3>2, InvParts DEF ChainKnown
    <3>. QED
      BY <3>2, <3>3, Sets
  <2>. QED
    BY <2>1, <2>2, <2>3, Sets DEF Heads
<1>4. PICK S : S = Members(c, gone)
  OBVIOUS
<1>5. S \in SUBSET (1 .. Len(idx)) /\ Len(idx) \in Nat /\ c \notin Nat /\ IsList(c, S, nxt)
  BY <1>4, InvParts, Sets DEF Records
<1>6. Reach(c) = S
  BY <1>3, <1>4, <1>5, ReachList
<1>7. \A n \in S : n \notin Reach(n)
  BY <1>3, <1>4, <1>5, ReachAhead
<1>. QED
  BY <1>2, <1>4, <1>6, <1>7

\* and of the free list when nobody is changing that.
LEMMA FreeListThen ==
  ASSUME TypeOK, CallOK, LockOK, NEW nxt, ListInv(nxt, {})
  PROVE  FreeListExact
<1>. SUFFICES ASSUME ~WriteLocked(FREE_OFF)
              PROVE  /\ Reach(FREE_OFF) \cup Taken = DOMAIN idx \ Live
                     /\ Reach(FREE_OFF) \cap Taken = {}
                     /\ \A p, q \in Reusing : p # q => db[p].idxoff # db[q].idxoff
                     /\ \A n \in Reach(FREE_OFF) : n \notin Reach(n)
  BY DEF FreeListExact
<1>1. ASSUME NEW q \in Procs PROVE pc[q] \notin FreeHeld
  <2>1. lock[q][FREE_OFF] = HeldAt(pc[q], call[q], FREE_OFF)
    BY DEF LockOK, LockTable, Regions
  <2>. QED
    BY <2>1, Sets DEF HeldAt, WriteLocked
<1>2. \A q \in Procs : (OffLists(q) <=> q \in Reusing) /\ (q \in Reusing => Took(q))
  <2>1. \A q \in Procs : pc[q] # "ff_unlock" /\ pc[q] # "del_setfree"
    BY <1>1 DEF FreeHeld, DeletePoints, FreePoints
  <2>. QED
    BY <2>1 DEF OffLists, Took, Reusing
<1>3. Taken = {db[q].idxoff : q \in Reusing}
  BY <1>1 DEF Taken, Reusing, FreeHeld, FreePoints
<1>4. Reusing \subseteq Procs
  BY DEF Reusing
<1>5. PICK S : S = FreeMembers({})
  OBVIOUS
<1>6. /\ S \in SUBSET (1 .. Len(idx)) /\ Len(idx) \in Nat /\ FREE_OFF \notin Nat
      /\ IsList(FREE_OFF, S, nxt)
  BY <1>5, InvParts, Sets DEF Records
<1>7. \A m \in {FREE_OFF} \cup S : nxt[m] = Readptr(m)
  BY <1>5, FreePointers
<1>8. Reach(FREE_OFF) = S /\ \A n \in S : n \notin Reach(n)
  BY <1>6, <1>7, ReachList, ReachAhead
<1>9. DOMAIN idx \ Live = {n \in Records : idx[n].key = BLANK}
  BY Sets DEF Live
<1>10. \A n \in Records : n \in S <=> idx[n].key = BLANK /\ n \notin Taken
  BY <1>2, <1>3, <1>4, <1>5 DEF FreeMembers
<1>11. Taken \subseteq {n \in Records : idx[n].key = BLANK}
  BY <1>2, <1>3, <1>4, InvParts DEF OffListsOK
<1>12. S \subseteq Records
  BY <1>5, Sets
<1>13. S \cup Taken = {n \in Records : idx[n].key = BLANK}
  BY <1>10, <1>11, <1>12
<1>14. S \cap Taken = {}
  BY <1>10, <1>12
<1>15. \A p, q \in Reusing : p # q => db[p].idxoff # db[q].idxoff
  BY <1>2, <1>4, InvParts DEF OffListsOK
<1>. QED
  BY <1>8, <1>9, <1>13, <1>14, <1>15

\* Where nobody may be killed with a record off the lists: a blanked one not
\* yet unlinked, one taken off the free list, or one written and not yet linked.
NoLoss == CrashAt \cap Marked = {}

\* Some pointers make the lists what they should be.
LinksKept == Cut = {} /\ \E nxt : ListInv(nxt, {})

LEMMA LinksKeptNext ==
  ASSUME DbInv, NoLoss, LinksKept, [Next]_vars
  PROVE  LinksKept'
<1>1. PICK nxt : ListInv(nxt, {})
  BY DEF LinksKept
<1>2. \A p \in Procs : Crash(p) => pc[p] \notin Marked
  BY DEF Crash, NoLoss
<1>3. CutChains = {} /\ FoundOnPath({})
  BY DEF LinksKept, CutChains, FoundOnPath, Astray
<1>4. \E nxt2 : ListInv(nxt2, {})'
  BY <1>1, <1>2, <1>3, NextLists
<1>5. Cut' = {}
  <2>1. \A p \in Procs : pc[p] # "cut" /\ pc \in [Procs -> Points]
    BY DEF LinksKept, Cut, DbInv, TypeOK
  <2>2. ASSUME NEW p \in Procs PROVE pc'[p] # "cut"
    BY <1>2, <2>1, CutStep DEF DbInv, CutPoints, Marked
  <2>. QED
    BY <2>2 DEF Cut
<1>. QED
  BY <1>4, <1>5 DEF LinksKept

LEMMA ListsThen ==
  ASSUME DbInv, LinksKept
  PROVE  ListsExact
<1>1. PICK nxt : ListInv(nxt, {})
  BY DEF LinksKept
<1>2. TypeOK /\ CallOK /\ LockOK /\ CutChains = {}
  BY DEF DbInv, LinksKept, CutChains
<1>3. ASSUME NEW c \in Chains, ~WriteLocked(c)
      PROVE  /\ Reach(c) = ChainRecords(c)
             /\ \A m, n \in ChainRecords(c) : idx[m].key = idx[n].key => m = n
             /\ \A n \in ChainRecords(c) : n \notin Reach(n)
  <2>1. c \in Chains \ CutChains
    BY <1>2
  <2>2. ChainRecords(c) = Members(c, {}) /\ Reach(c) = Members(c, {})
    BY <1>1, <1>2, <1>3, <2>1, ChainThen
  <2>3. \A n \in Members(c, {}) : n \notin Reach(n)
    BY <1>1, <1>2, <1>3, <2>1, ChainThen
  <2>. QED
    BY <1>1, <2>2, <2>3, InvParts DEF KeyOnce
<1>. QED
  BY <1>1, <1>2, <1>3, FreeListThen DEF ListsExact, ChainsExact

\* Every record is on the list it belongs to, once, between the critical
\* sections of any number of processes, unless one is killed with a record
\* off the lists.
THEOREM Lists ==
  ASSUME NoLoss
  PROVE  Spec => []ListsExact
<1>1. Init => LinksKept
  BY InitLists DEF LinksKept, Init, Cut
<1>2. DbInv /\ LinksKept /\ [Next]_vars => LinksKept'
  BY LinksKeptNext
<1>3. DbInv /\ LinksKept => ListsExact
  BY ListsThen
<1>. QED
  BY <1>1, <1>2, <1>3, DbInvariant, PTL DEF Spec

-----------------------------------------------------------------------------
(***************************************************************************)
(* Processes that are killed anywhere: what they had off the lists is gone *)
(* from them, and so is what comes after the record that one had blanked   *)
(* and not yet unlinked.  The chains of the others stay as they should be, *)
(* because no pointer leads to the records that are gone, but in a chain   *)
(* that has been cut.                                                      *)
(***************************************************************************)

\* A list is cut.

\* The records of the list after cell m.
Rest(S, nxt, m) ==
    {x \in S : \A V \in SUBSET S :
        nxt[m] \in V \cup {0} /\ (\A y \in V : nxt[y] \in V \cup {0}) => x \in V}

LEMMA TailParts ==
  ASSUME NEW h, NEW S \in SUBSET Nat, h \notin S, 0 \notin S, NEW nxt, IsList(h, S, nxt), NEW m \in {h} \cup S
  PROVE  /\ Rest(S, nxt, m) \subseteq S /\ m \notin Rest(S, nxt, m)
         /\ nxt[m] \in Rest(S, nxt, m) \cup {0}
         /\ \A x \in Rest(S, nxt, m) : nxt[x] \in Rest(S, nxt, m) \cup {0}
         /\ \A x \in ({h} \cup S) \ Rest(S, nxt, m) : x # m => nxt[x] \notin Rest(S, nxt, m)
<1>1. PICK T : T = Rest(S, nxt, m)
  OBVIOUS
<1>2. \A x : x \in T <=> /\ x \in S
                         /\ \A V \in SUBSET S :
                               nxt[m] \in V \cup {0} /\ (\A y \in V : nxt[y] \in V \cup {0}) => x \in V
  BY <1>1 DEF Rest
<1>3. /\ nxt[m] \in S \cup {0}
      /\ \A x \in S : nxt[x] \in S \cup {0}
      /\ \A x, y \in {h} \cup S : nxt[x] = nxt[y] /\ nxt[x] # 0 => x = y
  BY DEF IsList
<1>4. nxt[m] \in T \cup {0}
  BY <1>2, <1>3
<1>5. \A x \in T : nxt[x] \in T \cup {0}
  BY <1>2, <1>3
<1>6. m \notin T
  <2>. SUFFICES ASSUME m \in T PROVE FALSE
    OBVIOUS
  <2>1. m \in S
    BY <1>2
  <2>2. PICK rank \in [S -> Nat] : \A n \in S : nxt[n] # 0 => rank[n] < rank[nxt[n]]
    BY DEF IsList
  <2>3. PICK V : V = {x \in S : rank[m] < rank[x]}
    OBVIOUS
  <2>4. V \in SUBSET S /\ m \notin V
    BY <2>1, <2>2, <2>3
  <2>5. nxt[m] \in V \cup {0}
    BY <1>3, <2>1, <2>2, <2>3
  <2>6. \A y \in V : nxt[y] \in V \cup {0}
    <3>. SUFFICES ASSUME NEW y \in V, nxt[y] # 0 PROVE nxt[y] \in V
      OBVIOUS
    <3>1. y \in S /\ rank[m] < rank[y] /\ rank[y] < rank[nxt[y]] /\ nxt[y] \in S
      BY <1>3, <2>2, <2>3
    <3>2. PICK a, b, c \in Nat : a = rank[m] /\ b = rank[y] /\ c = rank[nxt[y]]
      BY <2>1, <2>2, <3>1
    <3>3. a < c
      BY <3>1, <3>2
    <3>. QED
      BY <2>3, <3>1, <3>2, <3>3
  <2>. QED
    BY <1>2, <2>4, <2>5, <2>6
<1>7. ASSUME NEW x \in ({h} \cup S) \ T, x # m, nxt[x] \in T PROVE FALSE
  <2>1. PICK y : y = nxt[x] /\ y \in T /\ y # 0
    BY <1>2, <1>7
  <2>2. PICK V : V = T \ {y}
    OBVIOUS
  <2>3. V \in SUBSET S
    BY <1>2, <2>2
  <2>4. nxt[m] \in V \cup {0}
    BY <1>3, <1>4, <1>7, <2>1, <2>2
  <2>5. \A z \in V : nxt[z] \in V \cup {0}
    BY <1>2, <1>3, <1>5, <1>7, <2>1, <2>2
  <2>6. y \in V
    BY <1>2, <2>1, <2>3, <2>4, <2>5
  <2>. QED
    BY <2>2, <2>6
<1>. QED
  BY <1>1, <1>2, <1>4, <1>5, <1>6, <1>7

\* A list that ends at m.
LEMMA ListCut ==
  ASSUME NEW h, NEW S \in SUBSET Nat, h \notin S, 0 \notin S, NEW nxt, IsList(h, S, nxt), NEW m \in {h} \cup S,
         NEW nxt2, nxt2[m] = 0, NEW T, T = Rest(S, nxt, m),
         \A x \in ({h} \cup S) \ T : x # m => nxt2[x] = nxt[x]
  PROVE  IsList(h, S \ T, nxt2)
<1>1. /\ T \subseteq S /\ m \notin T
      /\ nxt[m] \in T \cup {0}
      /\ \A x \in T : nxt[x] \in T \cup {0}
      /\ \A x \in ({h} \cup S) \ T : x # m => nxt[x] \notin T
  BY TailParts
<1>2. /\ nxt[h] \in S \cup {0}
      /\ \A n \in S : nxt[n] \in S \cup {0}
      /\ \A n \in S : \E x \in {h} \cup S : nxt[x] = n
      /\ \A x, n \in {h} \cup S : nxt[x] = nxt[n] /\ nxt[x] # 0 => x = n
  BY DEF IsList
<1>3. nxt2[h] \in (S \ T) \cup {0}
  BY <1>1, <1>2
<1>4. \A n \in S \ T : nxt2[n] \in (S \ T) \cup {0}
  BY <1>1, <1>2
<1>5. ASSUME NEW n \in S \ T PROVE \E x \in {h} \cup (S \ T) : nxt2[x] = n
  <2>1. PICK x \in {h} \cup S : nxt[x] = n
    BY <1>2
  <2>2. x \notin T /\ x # m
    BY <1>1, <1>5, <2>1
  <2>. QED
    BY <2>1, <2>2
<1>6. \A x, n \in {h} \cup (S \ T) : nxt2[x] = nxt2[n] /\ nxt2[x] # 0 => x = n
  BY <1>1, <1>2
<1>7. \E rank \in [S \ T -> Nat] : \A n \in S \ T : nxt2[n] # 0 => rank[n] < rank[nxt2[n]]
  <2>1. PICK rank \in [S -> Nat] : \A n \in S : nxt[n] # 0 => rank[n] < rank[nxt[n]]
    BY DEF IsList
  <2>2. PICK r : r = [n \in S \ T |-> rank[n]]
    OBVIOUS
  <2>3. r \in [S \ T -> Nat]
    BY <2>1, <2>2
  <2>4. ASSUME NEW n \in S \ T, nxt2[n] # 0 PROVE r[n] < r[nxt2[n]]
    <3>1. n # m /\ nxt2[n] = nxt[n] /\ nxt2[n] \in S \ T
      BY <1>4, <2>4
    <3>2. r[n] = rank[n] /\ r[nxt2[n]] = rank[nxt[n]]
      BY <2>2, <3>1
    <3>3. rank[n] < rank[nxt[n]]
      BY <2>1, <2>4, <3>1
    <3>. QED
      BY <3>2, <3>3
  <2>. QED
    BY <2>3, <2>4
<1>. QED
  BY <1>3, <1>4, <1>5, <1>6, <1>7 DEF IsList

-----------------------------------------------------------------------------
\* A process is killed with a record off the lists

\* The record that is on no list from then on.
Held(p) == IF Took(p) \/ Unlinked(p) THEN {db[p].idxoff} ELSE {}

LEMMA KillLists ==
  ASSUME TypeOK, CallOK, LockOK, NEW nxt, NEW gone, ListInv(nxt, gone), NEW p \in Procs, Crash(p),
         pc[p] \in Marked \ CutPoints, NEW gone2, gone2 = gone \cup Held(p)
  PROVE  ListInv(nxt, gone2)'
<1>1. /\ pc'[p] = "crashed" /\ \A q \in Procs : q # p => pc'[q] = pc[q]
      /\ head' = head /\ idx' = idx /\ db' = db /\ call' = call
  BY CrashEffect DEF Marked, CutPoints
<1>2. pc[p] \in {"idx_unlock", "link", "reuse_dat", "reuse_idx", "ff_unlock"}
  BY DEF Marked, CutPoints
<1>3. Alone(p) /\ CutChains' = CutChains /\ Records' = Records
  BY <1>1, <1>2, CutsSame DEF Alone, Records
<1>4. /\ pc[p] \in ChainHeld /\ call[p].op # "fetch" /\ pc[p] \in KeyPoints
  BY <1>2 DEF ChainHeld, KeyPoints, StoreOnlyPoints, AppendPoints, FreePoints, StorePoints, CallOK
<1>5. PICK C \in Chains : C = ChainOff(p)
  BY <1>4, HasChain
<1>6. /\ ~Unlinked(p)' /\ ~OffLists(p)' /\ (Took(p) <=> OffLists(p)) /\ ~(Took(p) /\ Unlinked(p))
      /\ \A q \in Procs : q # p => (Unlinked(q)' <=> Unlinked(q)) /\ (OffLists(q)' <=> OffLists(q))
      /\ Unlinking' = Unlinking
  BY <1>1, <1>2 DEF Unlinked, OffLists, Took, Unlinking
<1>7. /\ Unlinked(p) => /\ db[p].idxoff \in Records \ gone /\ idx[db[p].idxoff].key = call[p].key
                        /\ idx[db[p].idxoff].key # BLANK
      /\ Took(p) => db[p].idxoff \in Records \ gone /\ idx[db[p].idxoff].key = BLANK
  BY <1>6, UnlinkedRecord, InvParts, ConstantsAssumption DEF OffListsOK
<1>8. \A c : Members(c, gone2)' = Members(c, gone)
  <2>. SUFFICES ASSUME NEW c PROVE Members(c, gone2)' = Members(c, gone)
    OBVIOUS
  <2>1. \A x \in Members(c, gone2)' : x \in Members(c, gone)
    BY <1>1, <1>3, <1>6 DEF Members, Held
  <2>2. \A x \in Members(c, gone) : x \in Members(c, gone2)'
    BY <1>1, <1>3, <1>6, <1>7 DEF Members, Held
  <2>. QED
    BY <2>1, <2>2
<1>9. FreeMembers(gone2)' = FreeMembers(gone)
  <2>1. \A x \in FreeMembers(gone2)' : x \in FreeMembers(gone)
    BY <1>1, <1>3, <1>6 DEF FreeMembers, Held
  <2>2. \A x \in FreeMembers(gone) : x \in FreeMembers(gone2)'
    BY <1>1, <1>3, <1>6, <1>7 DEF FreeMembers, Held
  <2>. QED
    BY <2>1, <2>2
<1>10. \A q \in Procs \ {p} : Unlinked(q) => db[q].idxoff \in Records \ gone2
  <2>. SUFFICES ASSUME NEW q \in Procs \ {p}, Unlinked(q) PROVE db[q].idxoff \in Records \ gone2
    OBVIOUS
  <2>1. db[q].idxoff \in Records \ gone /\ idx[db[q].idxoff].key = call[q].key /\ idx[db[q].idxoff].key # BLANK
    BY UnlinkedRecord, ConstantsAssumption
  <2>2. Unlinked(p) => db[q].idxoff # db[p].idxoff
    <3>1. pc[q] \in ChainHeld
      BY DEF Unlinked, ChainHeld, KeyPoints, StoreOnlyPoints, AppendPoints, StorePoints
    <3>2. ChainOff(q) # ChainOff(p)
      BY <1>4, <3>1, ChainApart
    <3>. QED
      BY <1>7, <2>1, <3>2 DEF ChainOff
  <2>. QED
    BY <1>7, <2>1, <2>2 DEF Held
<1>11. \A q \in Procs \ {p} : OffLists(q) => db[q].idxoff \in Records \ gone2
  <2>. SUFFICES ASSUME NEW q \in Procs \ {p}, OffLists(q) PROVE db[q].idxoff \in Records \ gone2
    OBVIOUS
  <2>1. db[q].idxoff \in Records \ gone /\ idx[db[q].idxoff].key = BLANK
    BY InvParts DEF OffListsOK
  <2>2. Took(p) => db[q].idxoff # db[p].idxoff
    BY <1>6, InvParts DEF OffListsOK
  <2>. QED
    BY <1>7, <2>1, <2>2 DEF Held
<1>12. OffListsOK(gone2)'
  BY <1>1, <1>3, <1>6, <1>11, InvParts DEF OffListsOK
<1>13. Links(nxt)'
  <2>1. /\ nxt \in [Cells -> Nat]
        /\ \A q \in Unlinking : /\ Leads(ChainOff(q), nxt[db[q].ptroff], db[q].saveptr)
                                /\ Readptr(db[q].ptroff) = db[q].idxoff
        /\ \A m \in Heads \cup Records :
              \/ nxt[m] = Readptr(m)
              \/ \E q \in Unlinking : db[q].ptroff = m
              \/ nxt[m] = 0 /\ StrayCell(m)
    BY InvParts DEF Links
  <2>2. /\ \A m : Readptr(m)' = Readptr(m) /\ (StrayCell(m)' <=> StrayCell(m))
        /\ \A c, v, g : Leads(c, v, g)' <=> Leads(c, v, g)
        /\ \A q \in Unlinking : ChainOff(q)' = ChainOff(q)
    BY <1>1, <1>3 DEF Readptr, StrayCell, Leads, ChainOff
  <2>. QED
    BY <1>1, <1>3, <1>6, <2>1, <2>2 DEF Links, Heads
<1>14. /\ \A c \in Chains : SameChain(c, nxt, nxt, gone, gone2)
       /\ SameFree(nxt, nxt, gone, gone2)
       /\ \A n \in Records \ gone2 : SameRecord(n, nxt, nxt, gone2)
  BY <1>1, <1>3, <1>8, <1>9 DEF SameChain, SameFree, SameRecord
<1>15. IsList(C, Members(C, gone2), nxt)' /\ IsList(FREE_OFF, FreeMembers(gone2), nxt)'
  <2>1. PICK S, F : S = Members(C, gone) /\ F = FreeMembers(gone)
    OBVIOUS
  <2>2. IsList(C, S, nxt) /\ IsList(FREE_OFF, F, nxt) /\ Members(C, gone2)' = S /\ FreeMembers(gone2)' = F
    BY <1>8, <1>9, <2>1, InvParts
  <2>. QED
    BY <2>2 DEF IsList
<1>16. \A m, n \in Members(C, gone2)' : idx'[m].key = idx'[n].key => m = n
  BY <1>1, <1>8, InvParts DEF KeyOnce
<1>17. FreeKnown(p, nxt, gone2)' /\ ChainKnown(p, C, nxt, gone2)'
  BY <1>1, NothingKnown DEF Ignorant, Ended, Killed
<1>18. \A q \in Procs \ {p} : pc[q] = "del_setfree" => SameRecord(db[q].idxoff, nxt, nxt, gone2)
  BY <1>11, <1>14 DEF OffLists
<1>19. \A q \in Procs \ {p} : Unlinked(q) => SameRecord(db[q].idxoff, nxt, nxt, gone2)
  BY <1>10, <1>14
<1>20. gone2 \subseteq Records'
  BY <1>3, <1>7, InvParts DEF Held
<1>. QED
  BY <1>1, <1>3, <1>4, <1>5, <1>12, <1>13, <1>14, <1>15, <1>16, <1>17, <1>18, <1>19, <1>20, ChangeLists

\* The records that a process leaves on no list when it is cut: what was after
\* the record it had blanked, and that one where the free list has not got it.
CutOff(p, nxt, gone) ==
    Rest(Members(ChainOff(p), gone), nxt, db[p].ptroff)
        \cup (IF pc[p] = "del_setfree" THEN {db[p].idxoff} ELSE {})

LEMMA CutLists ==
  ASSUME TypeOK, CallOK, LockOK, NEW nxt, NEW gone, ListInv(nxt, gone), NEW p \in Procs, Crash(p),
         pc[p] \in CutPoints, NEW gone2, gone2 = gone \cup CutOff(p, nxt, gone)
  PROVE  \E nxt2 : ListInv(nxt2, gone2)'
<1>1. /\ pc'[p] = "cut" /\ \A q \in Procs : q # p => pc'[q] = pc[q]
      /\ head' = head /\ idx' = idx /\ db' = db /\ call' = call
  BY CrashEffect
<1>2. pc[p] \in {"del_setfree", "del_unlink"}
  BY DEF CutPoints
<1>3. Alone(p) /\ Records' = Records
  BY <1>1 DEF Alone, Records
<1>4. /\ pc[p] \in ChainHeld /\ call[p].op # "fetch" /\ pc[p] \in KeyPoints /\ pc[p] \in FreeHeld
      /\ pc[p] \in KeyGonePoints
  BY <1>2 DEF ChainHeld, FreeHeld, KeyPoints, DeletePoints, CallOK, KeyGonePoints
<1>5. PICK C \in Chains : C = ChainOff(p)
  BY <1>4, HasChain
<1>6. PICK n, m, S, F : n = db[p].idxoff /\ m = db[p].ptroff /\ S = Members(C, gone) /\ F = FreeMembers(gone)
  OBVIOUS
<1>7. PICK T : T = Rest(S, nxt, m)
  OBVIOUS
<1>8. gone2 = gone \cup T \cup (IF pc[p] = "del_setfree" THEN {n} ELSE {})
  BY <1>5, <1>6, <1>7 DEF CutOff
<1>9. /\ m \in {C} \cup S /\ (pc[p] = "del_setfree" => n \in Records \ gone /\ idx[n].key = BLANK)
  BY <1>2, <1>5, <1>6, InvParts DEF ChainKnown, FreeKnown
<1>10. /\ S \in SUBSET Nat /\ 0 \notin S /\ C \notin Nat /\ C \notin S /\ FREE_OFF \notin Nat /\ C # FREE_OFF
       /\ S \subseteq Records /\ IsList(C, S, nxt) /\ IsList(FREE_OFF, F, nxt)
       /\ S \cap F = {} /\ F \subseteq Nat /\ C \notin F /\ F \subseteq Records
  BY <1>6, Sets, InvParts
<1>11. /\ T \subseteq S /\ m \notin T
  BY <1>7, <1>9, <1>10, TailParts
<1>12. /\ \A q \in Procs : q # p => (Unlinked(q)' <=> Unlinked(q)) /\ (OffLists(q)' <=> OffLists(q))
       /\ ~Unlinked(p)' /\ ~Unlinked(p) /\ ~OffLists(p)' /\ (OffLists(p) <=> pc[p] = "del_setfree")
  BY <1>1, <1>2 DEF Unlinked, OffLists, Took
<1>13. Unlinking' = {} /\ Unlinking = {p}
  BY <1>1, <1>2, <1>4, SoleUnlinker DEF Unlinking
<1>14. CutChains \subseteq CutChains' /\ C \in CutChains'
  BY <1>1, <1>5 DEF CutChains, Cut, ChainOff
<1>15. \A x \in S : idx[x].key # BLANK /\ Hash[idx[x].key] = C /\ \A q \in Procs : Unlinked(q) => db[q].idxoff # x
  BY <1>6 DEF Members
<1>16. Members(C, gone2)' = S \ T
  <2>1. \A x \in Members(C, gone2)' : x \in S \ T
    BY <1>1, <1>3, <1>6, <1>8, <1>12 DEF Members
  <2>2. \A x \in S \ T : x \in Members(C, gone2)'
    BY <1>1, <1>3, <1>6, <1>8, <1>9, <1>12 DEF Members
  <2>. QED
    BY <2>1, <2>2
<1>17. ASSUME NEW c, c # C PROVE Members(c, gone2)' = Members(c, gone)
  <2>1. \A x \in Members(c, gone2)' : x \in Members(c, gone)
    BY <1>1, <1>3, <1>8, <1>12 DEF Members
  <2>2. \A x \in Members(c, gone) : x \in Members(c, gone2)'
    BY <1>1, <1>3, <1>8, <1>9, <1>11, <1>12, <1>15, <1>17 DEF Members
  <2>. QED
    BY <2>1, <2>2
<1>18. FreeMembers(gone2)' = F
  <2>1. \A x \in FreeMembers(gone2)' : x \in F
    BY <1>1, <1>3, <1>6, <1>8, <1>12 DEF FreeMembers
  <2>2. \A x \in F : x \in FreeMembers(gone2)'
    BY <1>1, <1>3, <1>6, <1>8, <1>9, <1>11, <1>12, <1>15 DEF FreeMembers
  <2>. QED
    BY <2>1, <2>2
<1>19. PICK nxt2 : nxt2 = [nxt EXCEPT ![m] = 0]
  OBVIOUS
<1>20. Heads \cup Records \subseteq Cells /\ m \in Heads \cup Records
  BY <1>9, <1>10, Sets DEF Heads, Cells
<1>21. nxt2 \in [Cells -> Nat] /\ nxt2[m] = 0 /\ \A x \in Heads \cup Records : x # m => nxt2[x] = nxt[x]
  BY <1>19, <1>20, InvParts DEF Links
<1>22. Links(nxt2)'
  <2>1. \A x \in Heads \cup Records :
            nxt[x] = Readptr(x) \/ m = x \/ (nxt[x] = 0 /\ StrayCell(x))
    BY <1>6, <1>13, InvParts DEF Links
  <2>2. \A x : Readptr(x)' = Readptr(x) /\ (StrayCell(x) => StrayCell(x)')
    BY <1>1, <1>3, <1>14 DEF Readptr, StrayCell
  <2>3. StrayCell(m)'
    BY <1>1, <1>3, <1>5, <1>9, <1>10, <1>14, <1>15 DEF StrayCell
  <2>. QED
    BY <1>3, <1>13, <1>21, <2>1, <2>2, <2>3 DEF Links, Heads
<1>23. ASSUME NEW q \in Procs \ {p}, OffLists(q) PROVE db[q].idxoff \in Records \ gone2
  <2>1. db[q].idxoff \in Records \ gone /\ idx[db[q].idxoff].key = BLANK
    BY <1>23, InvParts DEF OffListsOK
  <2>2. pc[p] = "del_setfree" => db[q].idxoff # n
    BY <1>6, <1>12, <1>23, InvParts DEF OffListsOK
  <2>. QED
    BY <1>8, <1>11, <1>15, <2>1, <2>2
<1>24. OffListsOK(gone2)'
  BY <1>1, <1>3, <1>12, <1>23, InvParts DEF OffListsOK
<1>25. ASSUME NEW q \in Procs \ {p}, Unlinked(q) PROVE db[q].idxoff \in Records \ gone2 /\ db[q].idxoff # m
  <2>1. db[q].idxoff \in Records \ gone /\ idx[db[q].idxoff].key \in Keys
    BY <1>25, UnlinkedRecord
  <2>2. idx[db[q].idxoff].key # BLANK
    BY <2>1, ConstantsAssumption
  <2>3. db[q].idxoff \notin S
    BY <1>15, <1>25
  <2>4. db[q].idxoff # C
    BY <1>10, <2>1, Sets
  <2>. QED
    BY <1>8, <1>9, <1>11, <2>1, <2>2, <2>3, <2>4
<1>26. ASSUME NEW c \in Chains \ {C} PROVE SameChain(c, nxt, nxt2, gone, gone2)
  <2>1. m \notin {c} \cup Members(c, gone) /\ {c} \cup Members(c, gone) \subseteq Heads \cup Records
    BY <1>6, <1>9, <1>10, Sets DEF Heads
  <2>2. Members(c, gone2)' = Members(c, gone)
    BY <1>17
  <2>. QED
    BY <1>1, <1>21, <2>1, <2>2 DEF SameChain
<1>27. IsList(C, Members(C, gone2), nxt2)'
  <2>1. \A x \in ({C} \cup S) \ T : x # m => nxt2[x] = nxt[x]
    BY <1>10, <1>21 DEF Heads
  <2>2. IsList(C, S \ T, nxt2)
    BY <1>7, <1>9, <1>10, <1>21, <2>1, ListCut
  <2>. QED
    BY <1>16, <2>2 DEF IsList
<1>28. \A x, y \in Members(C, gone2)' : idx'[x].key = idx'[y].key => x = y
  BY <1>1, <1>6, <1>16, InvParts DEF KeyOnce
<1>29. IsList(FREE_OFF, FreeMembers(gone2), nxt2)'
  <2>1. \A x \in {FREE_OFF} \cup F : nxt2[x] = nxt[x]
    BY <1>9, <1>10, <1>21 DEF Heads
  <2>2. IsList(FREE_OFF, F, nxt2)
    BY <1>10, <2>1, ListFrame
  <2>. QED
    BY <1>18, <2>2 DEF IsList
<1>30. \A q \in Procs \ {p} : Unlinked(q) => SameRecord(db[q].idxoff, nxt, nxt2, gone2)
  BY <1>1, <1>3, <1>21, <1>25 DEF SameRecord
<1>31. FreeKnown(p, nxt2, gone2)' /\ ChainKnown(p, C, nxt2, gone2)'
  BY <1>1, NothingKnown DEF Ignorant, Ended, Killed
<1>32. gone2 \subseteq Records'
  BY <1>3, <1>8, <1>9, <1>10, <1>11, InvParts
<1>33. call'[p] = call[p]
  BY <1>1
<1>34. ListInv(nxt2, gone2)'
  BY <1>3, <1>4, <1>5, <1>14, <1>22, <1>24, <1>26, <1>27, <1>28, <1>29, <1>30, <1>31, <1>32, <1>33, ChangeLists
<1>. QED
  BY <1>34

-----------------------------------------------------------------------------
\* What a walk of a chain in which a process was cut can come to

\* No pointer outside U leads into it,
Closed(U) == \A m \in Heads \cup (Records \ U) : Readptr(m) \notin U

\* and no process is about to walk to a record in U or to write its offset.
AwayFrom(p, U) ==
    /\ pc[p] = "walk" => db[p].cur \notin U
    /\ pc[p] \in DeletingPoints => db[p].ptrval \notin U
    /\ pc[p] \in {"del_setfree", "del_unlink"} => db[p].saveptr \notin U /\ db[p].idxoff \notin U
    /\ pc[p] \in HeadKnown => db[p].chainptr \notin U
    /\ Unlinked(p) => db[p].idxoff \notin U

\* The records in U are gone, or taken off the free list and not yet filled; the
\* records of the chain that was cut that are gone are in U.  No other chain has
\* lost a record that is not of a key of a process that was killed.
StrayInv(gone, U) ==
    /\ \A n \in U : n \in gone \/ \E q \in Procs : Took(q) /\ db[q].idxoff = n
    /\ \A n \in gone : idx[n].key # BLANK /\ Hash[idx[n].key] \in CutChains => n \in U
    /\ Closed(U)
    /\ \A p \in Procs : AwayFrom(p, U)
    /\ \A n \in gone : idx[n].key \in {BLANK} \cup CrashedKeys \/ Hash[idx[n].key] \in CutChains

LEMMA StrayApart ==
  ASSUME TypeOK, NEW nxt, NEW gone, ListInv(nxt, gone), NEW U, StrayInv(gone, U)
  PROVE  /\ U \subseteq Records
         /\ \A c : U \cap Members(c, gone) = {}
         /\ U \cap FreeMembers(gone) = {}
<1>1. ASSUME NEW n \in U, n \notin gone
      PROVE  n \in Records /\ idx[n].key = BLANK /\ n \notin FreeMembers(gone)
  <2>1. PICK q \in Procs : Took(q) /\ db[q].idxoff = n
    BY <1>1 DEF StrayInv
  <2>2. OffLists(q)
    BY <2>1 DEF OffLists
  <2>. QED
    BY <2>1, <2>2, InvParts DEF OffListsOK, FreeMembers
<1>2. \A n \in U : n \in gone => n \in Records
  BY InvParts
<1>. QED
  BY <1>1, <1>2 DEF Members, FreeMembers

\* A step of a process that lives on keeps this if it keeps what that process
\* knows, writes no pointer into U, and leaves the records that are gone alone.
LEMMA StrayStep ==
  ASSUME TypeOK, CallOK, NEW nxt, NEW gone, ListInv(nxt, gone), NEW U, StrayInv(gone, U),
         NEW p \in Procs, LivingStep(p), NEW U2 \in SUBSET U,
         Took(p) /\ db[p].idxoff \in U2 => Took(p)' /\ db'[p].idxoff = db[p].idxoff,
         \A n \in gone : idx'[n].key = idx[n].key /\ (n \in U => n \in U2),
         \A m \in Heads \cup (Records' \ U2) :
            \/ m \in Heads \cup (Records \ U) /\ Readptr(m)' = Readptr(m)
            \/ Readptr(m)' \notin U,
         AwayFrom(p, U2)'
  PROVE  StrayInv(gone, U2)'
<1>1. /\ \A q \in Procs : q # p => pc'[q] = pc[q] /\ db'[q] = db[q] /\ call'[q] = call[q]
      /\ pc[p] # "cut" /\ pc'[p] # "cut" /\ pc[p] \notin Killed /\ pc'[p] \notin Killed
  BY LivesOn DEF Lives, Ended, Killed
<1>2. CutChains' = CutChains
  <2>1. Cut' = Cut /\ \A q \in Cut : call'[q] = call[q]
    BY <1>1 DEF Cut
  <2>. QED
    BY <2>1 DEF CutChains
<1>3. ASSUME NEW n \in U2 PROVE n \in gone \/ \E q \in Procs : Took(q)' /\ db'[q].idxoff = n
  <2>1. CASE n \notin gone
    <3>1. PICK q \in Procs : Took(q) /\ db[q].idxoff = n
      BY <2>1 DEF StrayInv
    <3>2. Took(q)' /\ db'[q].idxoff = n
      BY <1>1, <3>1 DEF Took
    <3>. QED
      BY <3>2
  <2>. QED
    BY <2>1
<1>4. \A n \in gone : idx'[n].key # BLANK /\ Hash[idx'[n].key] \in CutChains' => n \in U2
  BY <1>2 DEF StrayInv
<1>5. Closed(U2)'
  BY DEF StrayInv, Closed, Heads
<1>6. ASSUME NEW q \in Procs PROVE AwayFrom(q, U2)'
  <2>1. CASE q # p
    BY <1>1, <2>1 DEF StrayInv, AwayFrom, Unlinked
  <2>. QED
    BY <2>1
<1>7. CrashedKeys' = CrashedKeys
  <2>1. \A q \in Procs : (pc'[q] \in Killed <=> pc[q] \in Killed) /\ (pc[q] \in Killed => call'[q] = call[q])
    BY <1>1
  <2>. QED
    BY <2>1 DEF CrashedKeys
<1>8. \A n \in gone : idx'[n].key \in {BLANK} \cup CrashedKeys' \/ Hash[idx'[n].key] \in CutChains'
  BY <1>2, <1>7 DEF StrayInv
<1>. QED
  BY <1>3, <1>4, <1>5, <1>6, <1>8 DEF StrayInv

LEMMA StrayRead ==
  ASSUME TypeOK, CallOK, NEW nxt, NEW gone, ListInv(nxt, gone), NEW U, StrayInv(gone, U),
         NEW p \in Procs, LivingStep(p), head' = head, idx' = idx,
         Took(p) => Took(p)' /\ db'[p].idxoff = db[p].idxoff,
         AwayFrom(p, U)'
  PROVE  StrayInv(gone, U)'
<1>1. \A m : Readptr(m)' = Readptr(m)
  BY DEF Readptr
<1>2. \A m \in Heads \cup (Records' \ U) :
        m \in Heads \cup (Records \ U) /\ Readptr(m)' = Readptr(m)
  BY <1>1 DEF Records
<1>3. \A n \in gone : idx'[n].key = idx[n].key /\ (n \in U => n \in U)
  OBVIOUS
<1>4. U \in SUBSET U
  OBVIOUS
<1>. QED
  BY <1>2, <1>3, <1>4, StrayStep

\* Where a process is not about to walk to a record or to write an offset.
Untold == Points \ ({"walk", "del_setfree", "del_unlink", "idx_unlock", "link"} \cup DeletingPoints \cup HeadKnown)

\* A step that reads no pointer.
LEMMA StrayKept ==
  ASSUME TypeOK, CallOK, NEW nxt, NEW gone, ListInv(nxt, gone), NEW U, StrayInv(gone, U),
         NEW p \in Procs, LivingStep(p), head' = head, idx' = idx,
         Took(p) => Took(p)' /\ db'[p].idxoff = db[p].idxoff,
         \/ pc'[p] \in Untold
         \/ /\ pc[p] \in DeletingPoints /\ pc'[p] \in DeletingPoints
            /\ db'[p].ptrval = db[p].ptrval
         \/ /\ pc[p] \in HeadKnown /\ pc'[p] \in HeadKnown
            /\ db'[p].chainptr = db[p].chainptr
            /\ Unlinked(p)' => Unlinked(p) /\ db'[p].idxoff = db[p].idxoff
  PROVE  StrayInv(gone, U)'
<1>1. AwayFrom(p, U)
  BY DEF StrayInv
<1>2. CASE pc'[p] \in Untold
  <2>1. AwayFrom(p, U)'
    BY <1>2 DEF AwayFrom, Untold, Unlinked
  <2>. QED
    BY <2>1, StrayRead
<1>3. CASE /\ pc[p] \in DeletingPoints /\ pc'[p] \in DeletingPoints
           /\ db'[p].ptrval = db[p].ptrval
  <2>1. /\ pc'[p] \notin {"walk", "del_setfree", "del_unlink", "idx_unlock", "link"}
        /\ pc'[p] \notin HeadKnown
    BY <1>3 DEF DeletingPoints, HeadKnown, FreePoints, AppendPoints
  <2>2. AwayFrom(p, U)'
    BY <1>1, <1>3, <2>1 DEF AwayFrom, Unlinked
  <2>. QED
    BY <2>2, StrayRead
<1>4. CASE /\ pc[p] \in HeadKnown /\ pc'[p] \in HeadKnown
           /\ db'[p].chainptr = db[p].chainptr
           /\ Unlinked(p)' => Unlinked(p) /\ db'[p].idxoff = db[p].idxoff
  <2>1. /\ pc'[p] \notin {"walk", "del_setfree", "del_unlink"}
        /\ pc'[p] \notin DeletingPoints
    BY <1>4 DEF DeletingPoints, HeadKnown, FreePoints, AppendPoints
  <2>2. AwayFrom(p, U)'
    BY <1>1, <1>4, <2>1 DEF AwayFrom
  <2>. QED
    BY <2>2, StrayRead
<1>. QED
  BY <1>2, <1>3, <1>4

\* The steps that take or drop a lock.
LEMMA LockStray ==
  ASSUME TypeOK, CallOK, NEW nxt, NEW gone, ListInv(nxt, gone), NEW U, StrayInv(gone, U),
         NEW p \in Procs, LivingStep(p),
         \/ DelLock(p) \/ DelUnlock(p) \/ FreeLock(p) \/ FreeUnlock(p)
         \/ DatLock(p) \/ DatUnlock(p) \/ IdxLock(p) \/ IdxUnlock(p)
         \/ LockChain(p) \/ ScanLock(p)
  PROVE  StrayInv(gone, U)'
<1>1. PICK from, to, r, t : Lock(p, from, r, t, to) \/ Unlock(p, from, r, to)
  BY DEF DelLock, DelUnlock, FreeLock, FreeUnlock, DatLock, DatUnlock, IdxLock, IdxUnlock, LockChain, ScanLock
<1>2. db'[p] = db[p] /\ head' = head /\ idx' = idx
  BY <1>1, LockEffect DEF Lock, Unlock, files
<1>3. CASE DelLock(p)
  BY <1>2, <1>3, LockEffect, StrayKept DEF DelLock, DeletingPoints, Took
<1>4. CASE FreeLock(p) \/ DatLock(p) \/ DatUnlock(p) \/ IdxLock(p)
  <2>1. PICK x \in {"ff_lock", "dat_lock", "dat_unlock", "idx_lock"},
             y \in {"ff_read", "dat_seek", "idx_lock", "idx_seek"} :
            \E s, u : Lock(p, x, s, u, y) \/ Unlock(p, x, s, y)
    BY <1>4 DEF FreeLock, DatLock, DatUnlock, IdxLock
  <2>2. pc[p] = x /\ pc'[p] = y
    BY <2>1, LockEffect
  <2>. QED
    BY <1>2, <2>1, <2>2, StrayKept DEF HeadKnown, FreePoints, AppendPoints, Took, Unlinked
<1>5. CASE FreeUnlock(p)
  <2>1. PICK y \in {"dat_lock", "reuse_dat"} : /\ Unlock(p, "ff_unlock", FREE_OFF, y)
                                               /\ y = "reuse_dat" <=> db[p].cur # 0
    BY <1>5 DEF FreeUnlock
  <2>2. pc[p] = "ff_unlock" /\ pc'[p] = y
    BY <2>1, LockEffect
  <2>. QED
    BY <1>2, <2>1, <2>2, StrayKept DEF HeadKnown, FreePoints, AppendPoints, Took, Unlinked
<1>6. CASE IdxUnlock(p)
  <2>1. pc[p] = "idx_unlock" /\ pc'[p] = "link"
    BY <1>6, LockEffect DEF IdxUnlock
  <2>. QED
    BY <1>2, <2>1, StrayKept DEF HeadKnown, AppendPoints, Took, Unlinked
<1>7. CASE DelUnlock(p) \/ LockChain(p) \/ ScanLock(p)
  <2>1. PICK x \in {"del_unlock", "lock_chain", "scan_lock"},
             y \in {"unlock_chain", "reread_head", "read_chain", "scan_read"} :
            \E s, u : Lock(p, x, s, u, y) \/ Unlock(p, x, s, y)
    BY <1>7 DEF DelUnlock, LockChain, ScanLock
  <2>2. pc[p] = x /\ pc'[p] = y
    BY <2>1, LockEffect
  <2>3. y \in Untold
    BY DEF Untold, DeletingPoints, HeadKnown, FreePoints, AppendPoints, Points, FindPoints, DeletePoints, StorePoints, ScanPoints
  <2>. QED
    BY <1>2, <2>1, <2>2, <2>3, StrayKept DEF Took
<1>. QED
  BY <1>3, <1>4, <1>5, <1>6, <1>7

\* The other steps that read no pointer.
LEMMA DatStray ==
  ASSUME TypeOK, CallOK, NEW nxt, NEW gone, ListInv(nxt, gone), NEW U, StrayInv(gone, U),
         NEW p \in Procs, LivingStep(p),
         \/ DelWritedat(p) \/ DatSeek(p) \/ DatAppend(p) \/ IdxSeek(p) \/ ReuseWritedat(p) \/ Overwrite(p)
         \/ FreeNone(p) \/ FreeRead(p) \/ FreeWalkOn(p) \/ FreeFound(p)
  PROVE  StrayInv(gone, U)'
<1>0. db[p] \in Handle
  BY ProcType
<1>1. CASE DelWritedat(p)
  <2>1. Step(p, "del_dat", "del_readfree") /\ db' = db /\ head' = head /\ idx' = idx
    BY <1>1 DEF DelWritedat
  <2>. QED
    BY <2>1, StepEffect, StrayKept DEF DeletingPoints, Took
<1>2. ASSUME NEW x \in {"dat_seek", "dat_append", "idx_seek", "ff_read", "ff_walk"},
             NEW y \in {"dat_append", "dat_unlock", "idx_append", "ff_walk", "ff_unlink", "ff_unlock"},
             Step(p, x, y), head' = head, idx' = idx, db'[p].chainptr = db[p].chainptr
      PROVE  StrayInv(gone, U)'
  <2>1. pc[p] = x /\ pc'[p] = y
    BY <1>2, StepEffect
  <2>. QED
    BY <1>2, <2>1, StrayKept DEF HeadKnown, FreePoints, AppendPoints, Took, Unlinked
<1>3. CASE DatSeek(p)
  <2>. DEFINE h == [db[p] EXCEPT !.datoff = Len(dat) + 1, !.datlen = DatLen[call[p].data]]
  <2>1. Step(p, "dat_seek", "dat_append") /\ Handles(p, h) /\ head' = head /\ idx' = idx
    BY <1>3 DEF DatSeek, files
  <2>2. db'[p] = h
    BY <2>1, StepEffect
  <2>3. db'[p].chainptr = db[p].chainptr
    BY <1>0, <2>2 DEF Handle
  <2>. QED
    BY <1>2, <2>1, <2>3
<1>4. CASE DatAppend(p)
  BY <1>2, <1>4 DEF DatAppend
<1>5. CASE IdxSeek(p)
  <2>. DEFINE h == [db[p] EXCEPT !.idxoff = Len(idx) + 1, !.ptrval = db[p].chainptr]
  <2>1. Step(p, "idx_seek", "idx_append") /\ Handles(p, h) /\ head' = head /\ idx' = idx
    BY <1>5 DEF IdxSeek, files
  <2>2. db'[p] = h
    BY <2>1, StepEffect
  <2>3. db'[p].chainptr = db[p].chainptr
    BY <1>0, <2>2 DEF Handle
  <2>. QED
    BY <1>2, <2>1, <2>3
<1>6. CASE ReuseWritedat(p)
  <2>. DEFINE h == [db[p] EXCEPT !.datlen = DatLen[call[p].data]]
  <2>1. Step(p, "reuse_dat", "reuse_idx") /\ Handles(p, h) /\ head' = head /\ idx' = idx
    BY <1>6 DEF ReuseWritedat, WritedatAt
  <2>2. pc[p] = "reuse_dat" /\ pc'[p] = "reuse_idx" /\ db'[p] = h
    BY <2>1, StepEffect
  <2>3. db'[p].chainptr = db[p].chainptr /\ db'[p].idxoff = db[p].idxoff
    BY <1>0, <2>2 DEF Handle
  <2>. QED
    BY <2>1, <2>2, <2>3, StrayKept DEF HeadKnown, Took, Unlinked
<1>7. CASE Overwrite(p)
  <2>1. Step(p, "overwrite", "unlock_chain") /\ head' = head /\ idx' = idx
    BY <1>7 DEF Overwrite
  <2>2. pc[p] = "overwrite" /\ pc'[p] = "unlock_chain"
    BY <2>1, StepEffect
  <2>3. pc'[p] \in Untold
    BY <2>2 DEF Untold, DeletingPoints, HeadKnown, FreePoints, AppendPoints, Points
  <2>. QED
    BY <2>1, <2>2, <2>3, StrayKept DEF Took
<1>8. CASE FreeNone(p)
  BY <1>2, <1>8 DEF FreeNone, files
<1>9. CASE FreeRead(p)
  <2>. DEFINE h == [db[p] EXCEPT !.saveoffset = FREE_OFF, !.cur = Readptr(FREE_OFF)]
  <2>1. Step(p, "ff_read", "ff_walk") /\ Handles(p, h) /\ head' = head /\ idx' = idx
    BY <1>9 DEF FreeRead, files
  <2>2. db'[p] = h
    BY <2>1, StepEffect
  <2>3. db'[p].chainptr = db[p].chainptr
    BY <1>0, <2>2 DEF Handle
  <2>. QED
    BY <1>2, <2>1, <2>3
<1>10. CASE FreeWalkOn(p)
  <2>. DEFINE h == [Readidx(p, db[p].cur) EXCEPT !.saveoffset = db[p].cur, !.cur = idx[db[p].cur].ptr]
  <2>1. Step(p, "ff_walk", "ff_walk") /\ Handles(p, h) /\ head' = head /\ idx' = idx
    BY <1>10 DEF FreeWalkOn, files
  <2>2. db'[p] = h
    BY <2>1, StepEffect
  <2>3. db'[p].chainptr = db[p].chainptr
    BY <1>0, <2>2 DEF Handle, Readidx
  <2>. QED
    BY <1>2, <2>1, <2>3
<1>11. CASE FreeFound(p)
  <2>. DEFINE h == Readidx(p, db[p].cur)
  <2>1. Step(p, "ff_walk", "ff_unlink") /\ Handles(p, h) /\ head' = head /\ idx' = idx
    BY <1>11 DEF FreeFound, files
  <2>2. db'[p] = h
    BY <2>1, StepEffect
  <2>3. db'[p].chainptr = db[p].chainptr
    BY <1>0, <2>2 DEF Handle, Readidx
  <2>. QED
    BY <1>2, <2>1, <2>3
<1>. QED
  BY <1>1, <1>3, <1>4, <1>5, <1>6, <1>7, <1>8, <1>9, <1>10, <1>11

\* The steps of no call that changes the lists, and those that end one.
LEMMA OutsideStray ==
  ASSUME TypeOK, CallOK, NEW nxt, NEW gone, ListInv(nxt, gone), NEW U, StrayInv(gone, U),
         NEW p \in Procs, LivingStep(p),
         \/ (\E c \in Uses[p] : Invoke(p, c)) \/ Rewind(p) \/ Dump(p) \/ ScanStep(p)
         \/ NotFound(p) \/ FetchData(p) \/ UnlockChain(p)
  PROVE  StrayInv(gone, U)'
<1>1. head' = head /\ idx' = idx
  BY DEF ScanStep, ScanLock, ScanRead, ScanEof, ScanData, ScanUnlock, Invoke, Rewind, Dump, End, NotFound,
         FetchData, UnlockChain, Lock, Return, files
<1>2. pc[p] \in {"idle", "walk", "ff_walk", "readdat", "unlock_chain"} \cup ScanPoints
  BY DEF ScanStep, ScanLock, ScanRead, ScanEof, ScanData, ScanUnlock, Invoke, Rewind, Dump, Insane, NotFound,
         FetchData, UnlockChain, Lock, Return, Step, ScanPoints
<1>3. pc'[p] \in {"idle", "lock_chain", "read_head", "unlock_chain", "dumped"} \cup ScanPoints
  <2>1. CASE ScanStep(p)
    BY <2>1 DEF ScanStep, ScanLock, ScanRead, ScanEof, ScanData, ScanUnlock, Lock, Return, Step,
                ScanPoints, TypeOK
  <2>2. CASE \E c \in Uses[p] : Invoke(p, c)
    BY <2>2 DEF Invoke, FirstPoint, ScanPoints, TypeOK
  <2>3. CASE Rewind(p)
    BY <2>3 DEF Rewind
  <2>4. CASE Dump(p)
    BY <2>4 DEF Dump, End, TypeOK
  <2>5. CASE NotFound(p) \/ FetchData(p) \/ UnlockChain(p)
    BY <2>5 DEF NotFound, FetchData, UnlockChain, Step, Return, TypeOK
  <2>. QED
    BY <2>1, <2>2, <2>3, <2>4, <2>5
<1>4. pc'[p] \in Untold
  BY <1>3 DEF Untold, DeletingPoints, HeadKnown, FreePoints, AppendPoints, Points, FindPoints,
              StorePoints, ScanPoints, Ended
<1>5. ~Took(p)
  BY <1>2 DEF Took, ScanPoints
<1>. QED
  BY <1>1, <1>4, <1>5, StrayKept

\* The steps that read a pointer: no pointer outside U leads into it.
LEMMA ReadStray ==
  ASSUME TypeOK, CallOK, NEW nxt, NEW gone, ListInv(nxt, gone), NEW U, StrayInv(gone, U),
         NEW p \in Procs, LivingStep(p),
         ReadChain(p) \/ WalkOn(p) \/ Found(p) \/ DelReadfree(p) \/ ReadHead(p)
  PROVE  StrayInv(gone, U)'
<1>0. db[p] \in Handle /\ AwayFrom(p, U) /\ Closed(U)
  BY ProcType DEF StrayInv
<1>1. CASE ReadChain(p)
  <2>. DEFINE h == [db[p] EXCEPT !.ptroff = ChainOff(p), !.cur = Readptr(ChainOff(p))]
  <2>1. Step(p, "read_chain", "walk") /\ Handles(p, h) /\ head' = head /\ idx' = idx
    BY <1>1 DEF ReadChain, files
  <2>2. pc[p] = "read_chain" /\ pc'[p] = "walk" /\ db'[p] = h
    BY <2>1, StepEffect
  <2>3. db'[p].cur = Readptr(ChainOff(p))
    BY <1>0, <2>2 DEF Handle
  <2>4. ChainOff(p) \in Heads
    BY <2>2, HasChain DEF KeyPoints, FindPoints, Heads
  <2>5. AwayFrom(p, U)'
    BY <1>0, <2>2, <2>3, <2>4 DEF AwayFrom, Closed, DeletingPoints, HeadKnown, FreePoints, AppendPoints, Unlinked
  <2>. QED
    BY <2>1, <2>2, <2>5, StrayRead DEF Took
<1>2. ASSUME NEW n \in DOMAIN idx, n \notin U PROVE idx[n].ptr \notin U
  BY <1>0, <1>2, Sets DEF Closed, Readptr
<1>3. CASE WalkOn(p)
  <2>. DEFINE h == [Readidx(p, db[p].cur) EXCEPT !.ptroff = db[p].cur, !.cur = idx[db[p].cur].ptr]
  <2>1. /\ Step(p, "walk", "walk") /\ Handles(p, h) /\ head' = head /\ idx' = idx
        /\ db[p].cur \in DOMAIN idx
    BY <1>3 DEF WalkOn, files
  <2>2. pc[p] = "walk" /\ pc'[p] = "walk" /\ db'[p] = h
    BY <2>1, StepEffect
  <2>3. db'[p].cur = idx[db[p].cur].ptr
    BY <1>0, <2>1, <2>2, ReadidxType DEF Handle
  <2>4. db'[p].cur \notin U
    BY <1>0, <1>2, <2>1, <2>2, <2>3 DEF AwayFrom
  <2>5. AwayFrom(p, U)'
    BY <2>2, <2>4 DEF AwayFrom, DeletingPoints, HeadKnown, FreePoints, AppendPoints, Unlinked
  <2>. QED
    BY <2>1, <2>2, <2>5, StrayRead DEF Took
<1>4. CASE Found(p)
  <2>1. PICK to : to = AfterFound(call[p], idx[db[p].cur].datlen) /\ Step(p, "walk", to)
    BY <1>4 DEF Found
  <2>2. Handles(p, Readidx(p, db[p].cur)) /\ head' = head /\ idx' = idx /\ db[p].cur \in DOMAIN idx
    BY <1>4 DEF Found, files
  <2>3. pc[p] = "walk" /\ pc'[p] = to /\ db'[p] = Readidx(p, db[p].cur)
    BY <2>1, <2>2, StepEffect
  <2>4. db'[p].ptrval = idx[db[p].cur].ptr
    BY <1>0, <2>3 DEF Handle, Readidx
  <2>5. db'[p].ptrval \notin U
    BY <1>0, <1>2, <2>2, <2>3, <2>4 DEF AwayFrom
  <2>6. to \in {"readdat", "unlock_chain", "overwrite", "del_lock", "reread_head"}
    BY <2>1, <2>3, FoundPoints
  <2>7. AwayFrom(p, U)'
    BY <2>3, <2>5, <2>6 DEF AwayFrom, DeletingPoints, HeadKnown, FreePoints, AppendPoints, Unlinked
  <2>. QED
    BY <2>2, <2>3, <2>7, StrayRead DEF Took
<1>5. CASE DelReadfree(p)
  <2>. DEFINE h == [db[p] EXCEPT !.freeptr = Readptr(FREE_OFF), !.saveptr = db[p].ptrval]
  <2>1. Step(p, "del_readfree", "del_idx") /\ Handles(p, h) /\ head' = head /\ idx' = idx
    BY <1>5 DEF DelReadfree, files
  <2>2. pc[p] = "del_readfree" /\ pc'[p] = "del_idx" /\ db'[p] = h
    BY <2>1, StepEffect
  <2>3. db'[p].ptrval = db[p].ptrval
    BY <1>0, <2>2 DEF Handle
  <2>. QED
    BY <2>1, <2>2, <2>3, StrayKept DEF DeletingPoints, Took
<1>6. CASE ReadHead(p)
  <2>. DEFINE h == [db[p] EXCEPT !.chainptr = Readptr(ChainOff(p))]
  <2>1. PICK from \in {"read_head", "reread_head"}, to \in {"ff_lock", "dat_lock"} : Step(p, from, to)
    BY <1>6 DEF ReadHead
  <2>2. Handles(p, h) /\ head' = head /\ idx' = idx
    BY <1>6 DEF ReadHead, files
  <2>3. pc[p] = from /\ pc'[p] = to /\ db'[p] = h
    BY <2>1, <2>2, StepEffect
  <2>4. db'[p].chainptr = Readptr(ChainOff(p))
    BY <1>0, <2>3 DEF Handle
  <2>5. ChainOff(p) \in Heads
    BY <2>3, HasChain DEF KeyPoints, StoreOnlyPoints, StorePoints, Heads
  <2>6. db'[p].chainptr \notin U
    BY <1>0, <2>4, <2>5 DEF Closed
  <2>7. AwayFrom(p, U)'
    BY <2>3, <2>6 DEF AwayFrom, DeletingPoints, HeadKnown, FreePoints, AppendPoints, Unlinked
  <2>. QED
    BY <2>2, <2>3, <2>7, StrayRead DEF Took
<1>. QED
  BY <1>1, <1>3, <1>4, <1>5, <1>6

\* A step that writes one pointer, with the offset of a record that is not in U.
LEMMA WriteStray ==
  ASSUME TypeOK, CallOK, NEW nxt, NEW gone, ListInv(nxt, gone), NEW U, StrayInv(gone, U),
         NEW p \in Procs, LivingStep(p), NEW off \in Heads \cup Records, NEW v \in Nat, Writeptr(off, v),
         v \notin U,
         Took(p) => Took(p)' /\ db'[p].idxoff = db[p].idxoff,
         AwayFrom(p, U)'
  PROVE  StrayInv(gone, U)'
<1>1. /\ Records' = Records /\ \A n \in Records : idx'[n].key = idx[n].key
      /\ \A m \in Heads \cup Records : Readptr(m)' = IF m = off THEN v ELSE Readptr(m)
  BY PointerWritten
<1>2. \A m \in Heads \cup (Records' \ U) :
        \/ m \in Heads \cup (Records \ U) /\ Readptr(m)' = Readptr(m)
        \/ Readptr(m)' \notin U
  BY <1>1
<1>3. \A n \in gone : idx'[n].key = idx[n].key /\ (n \in U => n \in U)
  BY <1>1, InvParts
<1>4. U \in SUBSET U
  OBVIOUS
<1>. QED
  BY <1>2, <1>3, <1>4, StrayStep

LEMMA PointerStray ==
  ASSUME TypeOK, CallOK, LockOK, NEW nxt, NEW gone, ListInv(nxt, gone), NEW U, StrayInv(gone, U),
         NEW p \in Procs, LivingStep(p), DelSetfree(p) \/ DelUnlink(p) \/ FreeUnlink(p) \/ Link(p)
  PROVE  StrayInv(gone, U)'
<1>0. db[p] \in Handle /\ AwayFrom(p, U) /\ U \cap FreeMembers(gone) = {}
  BY ProcType, StrayApart DEF StrayInv
<1>1. CASE DelSetfree(p)
  <2>1. Step(p, "del_setfree", "del_unlink") /\ Writeptr(FREE_OFF, db[p].idxoff) /\ db' = db
    BY <1>1 DEF DelSetfree
  <2>2. pc[p] = "del_setfree" /\ pc'[p] = "del_unlink"
    BY <2>1, StepEffect
  <2>3. FREE_OFF \in Heads \cup Records /\ db[p].idxoff \in Nat /\ db[p].idxoff \notin U
    BY <1>0, <2>2 DEF Heads, Handle, AwayFrom
  <2>4. AwayFrom(p, U)'
    BY <1>0, <2>1, <2>2 DEF AwayFrom, DeletingPoints, HeadKnown, FreePoints, AppendPoints, Unlinked
  <2>. QED
    BY <2>1, <2>2, <2>3, <2>4, WriteStray DEF Took
<1>2. CASE DelUnlink(p)
  <2>1. Step(p, "del_unlink", "del_unlock") /\ Writeptr(db[p].ptroff, db[p].saveptr) /\ db' = db
    BY <1>2 DEF DelUnlink
  <2>2. pc[p] = "del_unlink" /\ pc'[p] = "del_unlock"
    BY <2>1, StepEffect
  <2>3. PICK C \in Chains : C = ChainOff(p)
    BY <2>2, HasChain DEF KeyPoints, DeletePoints
  <2>4. db[p].ptroff \in Heads \cup Records /\ db[p].saveptr \in Nat /\ db[p].saveptr \notin U
    BY <1>0, <2>2, <2>3, InvParts, Sets DEF Heads, Handle, AwayFrom, ChainKnown
  <2>5. AwayFrom(p, U)'
    BY <2>2 DEF AwayFrom, DeletingPoints, HeadKnown, FreePoints, AppendPoints, Unlinked
  <2>. QED
    BY <2>1, <2>2, <2>4, <2>5, WriteStray DEF Took
<1>3. CASE FreeUnlink(p)
  <2>1. Step(p, "ff_unlink", "ff_unlock") /\ Writeptr(db[p].saveoffset, db[p].ptrval) /\ db' = db
    BY <1>3 DEF FreeUnlink
  <2>2. pc[p] = "ff_unlink" /\ pc'[p] = "ff_unlock"
    BY <2>1, StepEffect
  <2>3. /\ db[p].saveoffset \in {FREE_OFF} \cup FreeMembers(gone) /\ db[p].idxoff \in FreeMembers(gone)
        /\ nxt[db[p].idxoff] = db[p].ptrval
    BY <2>2, InvParts DEF FreeKnown
  <2>4. IsList(FREE_OFF, FreeMembers(gone), nxt) /\ 0 \notin U
    BY InvParts, StrayApart, Sets
  <2>5. db[p].saveoffset \in Heads \cup Records /\ db[p].ptrval \in Nat /\ db[p].ptrval \notin U
    BY <1>0, <2>3, <2>4, Sets DEF Heads, Handle, IsList
  <2>6. AwayFrom(p, U)'
    BY <1>0, <2>1, <2>2 DEF AwayFrom, DeletingPoints, HeadKnown, FreePoints, AppendPoints, Unlinked
  <2>. QED
    BY <2>1, <2>2, <2>5, <2>6, WriteStray DEF Took
<1>4. CASE Link(p)
  <2>1. Step(p, "link", "unlock_chain") /\ Writeptr(ChainOff(p), db[p].idxoff) /\ db' = db
    BY <1>4 DEF Link
  <2>2. pc[p] = "link" /\ pc'[p] = "unlock_chain"
    BY <2>1, StepEffect
  <2>3. ChainOff(p) \in Heads \cup Records
    BY <2>2, HasChain DEF KeyPoints, StoreOnlyPoints, StorePoints, Heads
  <2>4. db[p].idxoff \in Nat /\ db[p].idxoff \notin U
    BY <1>0, <2>2 DEF Handle, AwayFrom, Unlinked
  <2>5. AwayFrom(p, U)'
    BY <2>2 DEF AwayFrom, DeletingPoints, HeadKnown, FreePoints, AppendPoints, Unlinked
  <2>. QED
    BY <2>1, <2>2, <2>3, <2>4, <2>5, WriteStray DEF Took
<1>. QED
  BY <1>1, <1>2, <1>3, <1>4

LEMMA DelWriteidxStray ==
  ASSUME TypeOK, CallOK, LockOK, NEW nxt, NEW gone, ListInv(nxt, gone), NEW U, StrayInv(gone, U),
         NEW p \in Procs, LivingStep(p), DelWriteidx(p)
  PROVE  StrayInv(gone, U)'
<1>. DEFINE rec == [ptr |-> db[p].freeptr, key |-> BLANK, keylen |-> db[p].keylen,
                    datoff |-> db[p].datoff, datlen |-> db[p].datlen]
            h == [db[p] EXCEPT !.ptrval = db[p].freeptr]
<1>0. db[p] \in Handle /\ AwayFrom(p, U) /\ Closed(U) /\ \A c : U \cap Members(c, gone) = {}
  BY ProcType, StrayApart DEF StrayInv
<1>1. /\ Step(p, "del_idx", "del_setfree") /\ Handles(p, h) /\ head' = head
      /\ idx' = Put(idx, db[p].idxoff, rec)
  BY DEF DelWriteidx
<1>2. pc[p] = "del_idx" /\ pc'[p] = "del_setfree" /\ db'[p] = h
  BY <1>1, StepEffect
<1>3. db'[p].idxoff = db[p].idxoff /\ db'[p].saveptr = db[p].saveptr
  BY <1>0, <1>2 DEF Handle
<1>4. rec \in IdxRec /\ rec.ptr = db[p].freeptr
  BY <1>0 DEF Handle, IdxRec
<1>5. PICK C \in Chains : C = ChainOff(p)
  BY <1>2, HasChain DEF KeyPoints, DeletePoints
<1>6. PICK n : n = db[p].idxoff
  OBVIOUS
<1>7. n \in Members(C, gone) /\ db[p].saveptr = db[p].ptrval /\ db[p].freeptr = nxt[FREE_OFF]
  <2>1. ChainKnown(p, C, nxt, gone) /\ FreeKnown(p, nxt, gone)
    BY <1>5, InvParts
  <2>. QED
    BY <1>2, <1>6, <2>1 DEF ChainKnown, FreeKnown, DeletingPoints
<1>8. n \in Records \ gone /\ n \notin U
  BY <1>0, <1>7 DEF Members
<1>9. db[p].freeptr \notin U
  <2>1. db[p].freeptr = Readptr(FREE_OFF)
    BY <1>7, FreePointers
  <2>. QED
    BY <1>0, <2>1 DEF Closed, Heads
<1>. HIDE DEF rec, h
<1>10. /\ Records' = Records /\ \A m \in Records \ {n} : idx'[m] = idx[m]
       /\ \A m \in Heads \cup Records : Readptr(m)' = IF m = n THEN db[p].freeptr ELSE Readptr(m)
  BY <1>1, <1>4, <1>6, <1>8, RecordWritten
<1>11. \A m \in Heads \cup (Records' \ U) :
         \/ m \in Heads \cup (Records \ U) /\ Readptr(m)' = Readptr(m)
         \/ Readptr(m)' \notin U
  BY <1>9, <1>10
<1>12. \A x \in gone : idx'[x].key = idx[x].key /\ (x \in U => x \in U)
  BY <1>8, <1>10, InvParts
<1>13. AwayFrom(p, U)'
  BY <1>0, <1>2, <1>3, <1>6, <1>7, <1>8 DEF AwayFrom, DeletingPoints, HeadKnown, FreePoints, AppendPoints, Unlinked
<1>14. ~Took(p) /\ U \in SUBSET U
  BY <1>2 DEF Took
<1>. QED
  BY <1>11, <1>12, <1>13, <1>14, StrayStep

\* A record that is filled is in U no more.
LEMMA FillStray ==
  ASSUME TypeOK, CallOK, LockOK, DataInv, NEW nxt, NEW gone, ListInv(nxt, gone), NEW U, StrayInv(gone, U),
         NEW p \in Procs, LivingStep(p), ReuseWriteidx(p) \/ IdxAppend(p)
  PROVE  \E U2 : StrayInv(gone, U2)'
<1>0. /\ db[p] \in Handle /\ AwayFrom(p, U) /\ Closed(U) /\ U \subseteq Records
      /\ gone \subseteq Records
  BY ProcType, StrayApart, InvParts DEF StrayInv
<1>1. PICK n, U2 : n = db[p].idxoff /\ U2 = U \ {n}
  OBVIOUS
<1>2. /\ pc[p] \in {"reuse_idx", "idx_append"} /\ pc'[p] \in {"link", "idx_unlock"} /\ db'[p].idxoff = n
      /\ db'[p].chainptr = db[p].chainptr /\ head' = head /\ idx' = Put(idx, n, NewIdx(p))
  <2>1. CASE ReuseWriteidx(p)
    <3>. DEFINE h == [db[p] EXCEPT !.ptrval = db[p].chainptr]
    <3>1. /\ Step(p, "reuse_idx", "link") /\ Handles(p, h) /\ head' = head
          /\ idx' = Put(idx, db[p].idxoff, NewIdx(p))
      BY <2>1 DEF ReuseWriteidx
    <3>2. pc[p] = "reuse_idx" /\ pc'[p] = "link" /\ db'[p] = h
      BY <3>1, StepEffect
    <3>3. db'[p].idxoff = db[p].idxoff /\ db'[p].chainptr = db[p].chainptr
      BY <1>0, <3>2 DEF Handle
    <3>. QED
      BY <1>1, <3>1, <3>2, <3>3
  <2>2. CASE IdxAppend(p)
    <3>1. /\ Step(p, "idx_append", "idx_unlock") /\ db' = db /\ head' = head
          /\ idx' = Put(idx, db[p].idxoff, NewIdx(p))
      BY <2>2 DEF IdxAppend
    <3>. QED
      BY <1>1, <3>1, StepEffect
  <2>. QED
    BY <2>1, <2>2
<1>3. NewIdx(p) \in IdxRec /\ NewIdx(p).ptr = db[p].chainptr
  BY <1>2, NewIdxFields DEF NewIdx, StoreOnlyPoints, StorePoints, AppendPoints
<1>4. db[p].chainptr \notin U
  BY <1>0, <1>2 DEF AwayFrom, HeadKnown, AppendPoints
<1>5. n \notin gone /\ n \in Nat
  <2>1. CASE pc[p] = "reuse_idx"
    BY <1>1, <2>1, InvParts, Sets DEF OffListsOK, OffLists, Took
  <2>2. CASE pc[p] = "idx_append"
    <3>1. n = Len(idx) + 1
      BY <1>1, <2>2 DEF DataInv, HandleOK
    <3>. QED
      BY <1>0, <3>1, Sets DEF Records
  <2>. QED
    BY <1>2, <2>1, <2>2
<1>6. /\ Records' = Records \cup {n} /\ \A m \in Records \ {n} : idx'[m] = idx[m]
      /\ \A m \in Heads \cup Records' : Readptr(m)' = IF m = n THEN db[p].chainptr ELSE Readptr(m)
  <2>1. CASE pc[p] = "reuse_idx"
    <3>1. n \in Records
      BY <1>1, <2>1, InvParts DEF OffListsOK, OffLists, Took
    <3>. QED
      BY <1>2, <1>3, <3>1, RecordWritten
  <2>2. CASE pc[p] = "idx_append"
    <3>1. n = Len(idx) + 1
      BY <1>1, <2>2 DEF DataInv, HandleOK
    <3>2. /\ Len(idx') = Len(idx) + 1
          /\ \A i \in DOMAIN idx : idx'[i] = idx[i]
          /\ idx'[n] = NewIdx(p)
      BY <1>2, <1>3, <3>1, Domains, Appended
    <3>3. Records' = Records \cup {n}
      BY <3>1, <3>2, Sets DEF Records
    <3>4. \A m \in Records : idx'[m] = idx[m]
      BY <3>2, Sets
    <3>5. ASSUME NEW m \in Heads \cup Records' PROVE Readptr(m)' = IF m = n THEN db[p].chainptr ELSE Readptr(m)
      <4>1. m \notin Nat => m \in Heads
        BY <1>5, <3>3, Sets
      <4>2. m \in Nat => m \in Records \cup {n}
        BY <3>3, Sets DEF Heads
      <4>3. m = n => Readptr(m)' = db[p].chainptr
        BY <1>3, <1>5, <3>2 DEF Readptr
      <4>4. m # n => Readptr(m)' = Readptr(m)
        BY <1>2, <3>4, <4>1, <4>2 DEF Readptr
      <4>. QED
        BY <4>3, <4>4
    <3>. QED
      BY <3>3, <3>4, <3>5
  <2>. QED
    BY <1>2, <2>1, <2>2
<1>7. \A m \in Heads \cup (Records' \ U2) :
        \/ m \in Heads \cup (Records \ U) /\ Readptr(m)' = Readptr(m)
        \/ Readptr(m)' \notin U
  BY <1>1, <1>4, <1>6
<1>8. \A x \in gone : idx'[x].key = idx[x].key /\ (x \in U => x \in U2)
  BY <1>0, <1>1, <1>5, <1>6
<1>9. AwayFrom(p, U2)'
  BY <1>1, <1>2, <1>4 DEF AwayFrom, DeletingPoints, HeadKnown, FreePoints, AppendPoints
<1>10. U2 \in SUBSET U /\ ~(Took(p) /\ db[p].idxoff \in U2)
  BY <1>1
<1>. QED
  BY <1>7, <1>8, <1>9, <1>10, StrayStep

LEMMA LivingStray ==
  ASSUME TypeOK, CallOK, LockOK, DataInv, NEW nxt, NEW gone, ListInv(nxt, gone), NEW U, StrayInv(gone, U),
         NEW p \in Procs, LivingStep(p)
  PROVE  \E U2 : StrayInv(gone, U2)'
<1>1. CASE ReuseWriteidx(p) \/ IdxAppend(p)
  BY <1>1, FillStray
<1>2. CASE DelWriteidx(p)
  BY <1>2, DelWriteidxStray
<1>3. CASE DelSetfree(p) \/ DelUnlink(p) \/ FreeUnlink(p) \/ Link(p)
  BY <1>3, PointerStray
<1>4. CASE ReadChain(p) \/ WalkOn(p) \/ Found(p) \/ DelReadfree(p) \/ ReadHead(p)
  BY <1>4, ReadStray
<1>5. CASE \/ (\E c \in Uses[p] : Invoke(p, c)) \/ Rewind(p) \/ Dump(p) \/ ScanStep(p)
           \/ NotFound(p) \/ FetchData(p) \/ UnlockChain(p)
  BY <1>5, OutsideStray
<1>6. CASE \/ DelWritedat(p) \/ DatSeek(p) \/ DatAppend(p) \/ IdxSeek(p) \/ ReuseWritedat(p) \/ Overwrite(p)
           \/ FreeNone(p) \/ FreeRead(p) \/ FreeWalkOn(p) \/ FreeFound(p)
  BY <1>6, DatStray
<1>7. CASE \/ DelLock(p) \/ DelUnlock(p) \/ FreeLock(p) \/ FreeUnlock(p)
           \/ DatLock(p) \/ DatUnlock(p) \/ IdxLock(p) \/ IdxUnlock(p)
           \/ LockChain(p) \/ ScanLock(p)
  BY <1>7, LockStray
<1>. QED
  BY <1>1, <1>2, <1>3, <1>4, <1>5, <1>6, <1>7
     DEF LivingStep, Progress, FindStep, DeleteStep, FreeStep, AppendStep, StoreStep

\* A walk that has left what remains of its chain finds no record of that chain.
LEMMA StrayFound ==
  ASSUME TypeOK, CallOK, LockOK, NEW nxt, NEW gone, ListInv(nxt, gone), NEW U, StrayInv(gone, U)
  PROVE  FoundOnPath(gone)
<1>. SUFFICES ASSUME NEW p \in Procs, pc[p] = "walk", db[p].cur \in DOMAIN idx,
                     idx[db[p].cur].key = call[p].key, Astray(p, ChainOff(p), gone)
              PROVE  FALSE
  BY DEF FoundOnPath
<1>1. PICK n, C : n = db[p].cur /\ C = ChainOff(p)
  OBVIOUS
<1>2. pc[p] \in KeyPoints /\ pc[p] \in ChainHeld
  BY DEF KeyPoints, FindPoints, ChainHeld
<1>3. n \in Records /\ idx[n].key = call[p].key /\ Hash[idx[n].key] = C /\ idx[n].key # BLANK
  BY <1>1, <1>2, HasChain, Sets, ConstantsAssumption DEF ChainOff
<1>4. C \in CutChains /\ n \notin Members(C, gone)
  BY <1>1, <1>3 DEF Astray
<1>5. n \notin gone
  BY <1>1, <1>3, <1>4 DEF StrayInv, AwayFrom
<1>6. PICK q \in Procs : Unlinked(q) /\ db[q].idxoff = n
  BY <1>3, <1>4, <1>5 DEF Members
<1>7. pc[q] \in ChainHeld /\ call[q].op # "fetch" /\ q # p
  BY <1>6 DEF Unlinked, ChainHeld, KeyPoints, StoreOnlyPoints, AppendPoints, StorePoints, CallOK
<1>8. ChainOff(q) = C
  BY <1>3, <1>6, UnlinkedRecord DEF ChainOff
<1>. QED
  BY <1>1, <1>2, <1>7, <1>8, ChainApart

\* A process is killed that is not cut.
LEMMA KillStray ==
  ASSUME TypeOK, CallOK, NEW nxt, NEW gone, ListInv(nxt, gone), NEW U, StrayInv(gone, U),
         NEW p \in Procs, Crash(p), pc[p] \notin CutPoints, CutAlone',
         NEW gone2, gone2 = gone \cup Held(p)
  PROVE  StrayInv(gone2, U)'
<1>1. /\ pc[p] \notin Ended /\ pc'[p] = "crashed" /\ \A q \in Procs : q # p => pc'[q] = pc[q]
      /\ head' = head /\ idx' = idx /\ db' = db /\ call' = call
  BY CrashEffect
<1>2. Records' = Records /\ \A m : Readptr(m)' = Readptr(m)
  BY <1>1 DEF Records, Readptr
<1>3. Cut' = Cut /\ CutChains' = CutChains
  <2>1. Cut' = Cut
    BY <1>1 DEF Cut, Ended, Killed
  <2>. QED
    BY <1>1, <2>1 DEF CutChains
<1>4. CrashedKeys \subseteq CrashedKeys'
  BY <1>1 DEF CrashedKeys, Killed
<1>5. ASSUME NEW n \in U PROVE n \in gone2 \/ \E q \in Procs : Took(q)' /\ db'[q].idxoff = n
  <2>1. CASE n \notin gone
    <3>1. PICK q \in Procs : Took(q) /\ db[q].idxoff = n
      BY <2>1 DEF StrayInv
    <3>2. CASE q = p
      BY <3>1, <3>2 DEF Held
    <3>3. CASE q # p
      BY <1>1, <3>1, <3>3 DEF Took
    <3>. QED
      BY <3>2, <3>3
  <2>. QED
    BY <2>1
<1>6. ASSUME NEW n \in gone2, n \notin gone
      PROVE  \/ idx[n].key = BLANK
             \/ idx[n].key \in CrashedKeys' /\ Hash[idx[n].key] \notin CutChains
  <2>1. n = db[p].idxoff /\ (Took(p) \/ Unlinked(p))
    BY <1>6 DEF Held
  <2>2. CASE Took(p)
    BY <2>1, <2>2, InvParts DEF OffListsOK, OffLists
  <2>3. CASE Unlinked(p)
    <3>1. idx[n].key = call[p].key /\ call[p].op = "store"
      BY <2>1, <2>3, UnlinkedRecord DEF Unlinked, CallOK, StoreOnlyPoints, AppendPoints, StorePoints
    <3>2. call[p].key \in CrashedKeys'
      BY <1>1, <3>1 DEF CrashedKeys, Killed
    <3>3. \A r \in Cut : r # p /\ r \in Cut'
      BY <1>1, <1>3 DEF Cut, Ended, Killed
    <3>4. \A r \in Cut : ChainOff(p) # ChainOff(r)
      BY <1>1, <3>1, <3>3 DEF CutAlone, Killed, ChainOff
    <3>. QED
      BY <3>1, <3>2, <3>4 DEF CutChains, ChainOff
  <2>. QED
    BY <2>1, <2>2, <2>3
<1>7. \A n \in gone2 : idx'[n].key # BLANK /\ Hash[idx'[n].key] \in CutChains' => n \in U
  BY <1>1, <1>3, <1>6 DEF StrayInv
<1>8. \A n \in gone2 : idx'[n].key \in {BLANK} \cup CrashedKeys' \/ Hash[idx'[n].key] \in CutChains'
  BY <1>1, <1>3, <1>4, <1>6 DEF StrayInv
<1>9. Closed(U)'
  BY <1>2 DEF StrayInv, Closed, Heads
<1>10. ASSUME NEW q \in Procs PROVE AwayFrom(q, U)'
  <2>1. CASE q = p
    BY <1>1, <2>1 DEF AwayFrom, DeletingPoints, HeadKnown, FreePoints, AppendPoints, Unlinked
  <2>2. CASE q # p
    BY <1>1, <2>2 DEF StrayInv, AwayFrom, Unlinked
  <2>. QED
    BY <2>1, <2>2
<1>. QED
  BY <1>5, <1>7, <1>8, <1>9, <1>10 DEF StrayInv

\* The first process is cut: what is on no list is in U, save the record it had
\* blanked, which a walk of its chain now comes to.
LEMMA CutStray ==
  ASSUME TypeOK, CallOK, LockOK, NEW nxt, NEW gone, ListInv(nxt, gone), NEW U0, StrayInv(gone, U0),
         NEW p \in Procs, Crash(p), pc[p] \in CutPoints, Cut = {},
         NEW gone2, gone2 = gone \cup CutOff(p, nxt, gone)
  PROVE  \E U : StrayInv(gone2, U)'
<1>1. /\ pc'[p] = "cut" /\ \A q \in Procs : q # p => pc'[q] = pc[q]
      /\ head' = head /\ idx' = idx /\ db' = db /\ call' = call
  BY CrashEffect
<1>2. pc[p] \in {"del_setfree", "del_unlink"} /\ CutChains = {}
  BY DEF CutPoints, CutChains
<1>3. Records' = Records /\ \A m : Readptr(m)' = Readptr(m)
  BY <1>1 DEF Records, Readptr
<1>4. /\ pc[p] \in ChainHeld /\ call[p].op # "fetch" /\ pc[p] \in KeyPoints /\ pc[p] \in FreeHeld
  BY <1>2 DEF ChainHeld, FreeHeld, KeyPoints, DeletePoints, CallOK
<1>5. PICK C \in Chains : C = ChainOff(p)
  BY <1>4, HasChain
<1>6. PICK n0, m0, S, F : n0 = db[p].idxoff /\ m0 = db[p].ptroff /\ S = Members(C, gone) /\ F = FreeMembers(gone)
  OBVIOUS
<1>7. PICK T : T = Rest(S, nxt, m0)
  OBVIOUS
<1>8. gone2 = gone \cup T \cup (IF pc[p] = "del_setfree" THEN {n0} ELSE {})
  BY <1>5, <1>6, <1>7 DEF CutOff
<1>9. PICK U : U = (gone2 \cup {db[q].idxoff : q \in {r \in Procs : Took(r)}}) \ {n0}
  OBVIOUS
<1>10. /\ S \in SUBSET Nat /\ 0 \notin S /\ C \notin Nat /\ C \notin S
       /\ S \subseteq Records /\ IsList(C, S, nxt) /\ IsList(FREE_OFF, F, nxt)
       /\ S \cap F = {} /\ 0 \notin Records
  BY <1>6, Sets, InvParts
<1>11. /\ m0 \in {C} \cup S /\ Readptr(m0) = n0 /\ Unlinking = {p}
       /\ n0 \in Records \ gone /\ idx[n0].key = BLANK
       /\ pc[p] = "del_setfree" => nxt[n0] = nxt[FREE_OFF]
       /\ pc[p] = "del_unlink" => n0 \in F
  <2>1. Unlinking = {p}
    BY <1>2, <1>4, SoleUnlinker DEF Unlinking
  <2>2. Readptr(m0) = n0 /\ m0 \in {C} \cup S
    BY <1>2, <1>5, <1>6, <2>1, InvParts DEF Links, ChainKnown
  <2>3. /\ pc[p] = "del_setfree" => n0 \in Records \ gone /\ idx[n0].key = BLANK /\ nxt[n0] = nxt[FREE_OFF]
        /\ pc[p] = "del_unlink" => n0 \in F
    BY <1>6, InvParts DEF FreeKnown
  <2>4. n0 \in F => n0 \in Records \ gone /\ idx[n0].key = BLANK
    BY <1>6 DEF FreeMembers
  <2>. QED
    BY <1>2, <2>1, <2>2, <2>3, <2>4
<1>12. /\ T \subseteq S /\ m0 \notin T
       /\ \A x \in ({C} \cup S) \ T : x # m0 => nxt[x] \notin T
  BY <1>7, <1>10, <1>11, TailParts
<1>13. \A x \in S : idx[x].key # BLANK /\ Hash[idx[x].key] = C /\ x \notin gone
  BY <1>6 DEF Members
<1>14. \A q \in Procs : Took(q) => db[q].idxoff \in Records \ gone /\ idx[db[q].idxoff].key = BLANK /\ OffLists(q)
  BY InvParts DEF OffListsOK, OffLists
\* what is still on a list is not in U
<1>15. ASSUME NEW x \in F \cup {0} PROVE x \notin U
  <2>1. \A q \in Procs : Took(q) => db[q].idxoff # x
    BY <1>6, <1>10, <1>14, <1>15 DEF FreeMembers
  <2>2. x \notin gone
    BY <1>6, <1>10, <1>15, InvParts DEF FreeMembers
  <2>3. x \notin T
    BY <1>10, <1>12, <1>15
  <2>. QED
    BY <1>8, <1>9, <2>1, <2>2, <2>3
<1>16. ASSUME NEW c \in Chains, c # C, NEW x \in Members(c, gone) \cup {0} PROVE x \notin U
  <2>1. CASE x = 0
    BY <1>15, <2>1
  <2>2. CASE x \in Members(c, gone)
    <3>1. x \notin gone /\ idx[x].key # BLANK /\ Hash[idx[x].key] = c
      BY <2>2 DEF Members
    <3>2. x \notin T /\ x # n0
      BY <1>11, <1>12, <1>13, <1>16, <3>1
    <3>. QED
      BY <1>8, <1>9, <1>14, <3>1, <3>2
  <2>. QED
    BY <1>16, <2>1, <2>2
<1>17. \A x \in S : x \notin T => x \notin U
  BY <1>8, <1>9, <1>11, <1>13, <1>14
<1>18. \A m \in Heads \cup Records : nxt[m] = Readptr(m) \/ m = m0
  BY <1>2, <1>6, <1>11, InvParts DEF Links, StrayCell
<1>19. n0 \notin U
  BY <1>9
<1>20. ASSUME NEW c \in Chains, NEW m \in {c} \cup Members(c, gone), m # m0, m \notin T
       PROVE  nxt[m] \notin U
  <2>1. IsList(c, Members(c, gone), nxt)
    BY InvParts
  <2>2. nxt[m] \in Members(c, gone) \cup {0}
    BY <2>1 DEF IsList
  <2>3. CASE c # C
    BY <1>16, <2>2, <2>3
  <2>4. CASE c = C
    <3>1. nxt[m] \in S \cup {0} /\ nxt[m] \notin T
      BY <1>6, <1>12, <1>20, <2>2, <2>4
    <3>. QED
      BY <1>15, <1>17, <3>1
  <2>. QED
    BY <2>3, <2>4
<1>21. ASSUME NEW m \in {FREE_OFF} \cup F PROVE nxt[m] \notin U
  <2>1. nxt[m] \in F \cup {0}
    BY <1>10 DEF IsList
  <2>. QED
    BY <1>15, <2>1
<1>22. ASSUME NEW m \in Heads \cup (Records \ U) PROVE Readptr(m) \notin U
  <2>1. CASE m = m0
    BY <1>11, <1>19, <2>1
  <2>2. CASE m # m0
    <3>1. nxt[m] = Readptr(m)
      BY <1>18, <1>22, <2>2
    <3>2. CASE m \in Chains
      <4>1. m \notin T
        BY <1>10, <1>12, <3>2, Sets
      <4>. QED
        BY <1>20, <2>2, <3>1, <3>2, <4>1
    <3>3. CASE m = FREE_OFF
      BY <1>21, <3>1, <3>3
    <3>4. CASE m = n0
      <4>1. nxt[n0] = nxt[FREE_OFF] \/ n0 \in F
        BY <1>2, <1>11
      <4>. QED
        BY <1>21, <3>1, <3>4, <4>1
    <3>5. CASE m \in Records /\ m # n0
      <4>1. m \notin U
        BY <1>22, <3>5, Sets DEF Heads
      <4>2. m \notin gone /\ m \notin T /\ \A q \in Procs : Took(q) => db[q].idxoff # m
        BY <1>8, <1>9, <3>5, <4>1
      <4>3. CASE idx[m].key = BLANK
        <5>1. \A q \in Procs : OffLists(q) => db[q].idxoff # m
          <6>. SUFFICES ASSUME NEW q \in Procs, OffLists(q), db[q].idxoff = m PROVE FALSE
            OBVIOUS
          <6>1. pc[q] = "del_setfree"
            BY <4>2 DEF OffLists
          <6>2. q = p
            BY <1>11, <6>1 DEF Unlinking
          <6>. QED
            BY <1>6, <3>5, <6>2
        <5>2. m \in F
          BY <1>6, <3>5, <4>2, <4>3, <5>1 DEF FreeMembers
        <5>. QED
          BY <1>21, <3>1, <5>2
      <4>4. CASE idx[m].key # BLANK
        <5>1. PICK c : c = Hash[idx[m].key]
          OBVIOUS
        <5>2. c \in Chains
          <6>1. idx[m] \in IdxRec
            BY <3>5, Sets, Domains
          <6>2. idx[m].key \in Keys
            BY <4>4, <6>1 DEF IdxRec
          <6>. QED
            BY <5>1, <6>2, ConstantsAssumption
        <5>3. CASE \E q \in Procs : Unlinked(q) /\ db[q].idxoff = m
          <6>1. PICK q \in Procs : Unlinked(q) /\ db[q].idxoff = m
            BY <5>3
          <6>2. PICK d \in Chains : d = ChainOff(q) /\ nxt[m] = nxt[d]
            BY <6>1, UnlinkedRecord
          <6>3. q # p /\ pc[q] \in ChainHeld
            BY <1>2, <6>1 DEF Unlinked, ChainHeld, KeyPoints, StoreOnlyPoints, AppendPoints, StorePoints
          <6>4. d # C
            BY <1>4, <1>5, <6>2, <6>3, ChainApart
          <6>5. d # m0 /\ d \notin T
            BY <1>10, <1>11, <1>12, <6>4, Sets
          <6>. QED
            BY <1>20, <3>1, <6>2, <6>5
        <5>4. CASE \A q \in Procs : Unlinked(q) => db[q].idxoff # m
          <6>1. m \in Members(c, gone)
            BY <3>5, <4>2, <4>4, <5>1, <5>4 DEF Members
          <6>. QED
            BY <1>20, <2>2, <3>1, <4>2, <5>2, <6>1
        <5>. QED
          BY <5>3, <5>4
      <4>. QED
        BY <4>3, <4>4
    <3>. QED
      BY <1>22, <3>2, <3>3, <3>4, <3>5 DEF Heads
  <2>. QED
    BY <2>1, <2>2
<1>23. Closed(U)'
  BY <1>3, <1>22 DEF Closed, Heads
<1>24. ASSUME NEW q \in Procs PROVE AwayFrom(q, U)'
  <2>1. CASE q = p
    BY <1>1, <2>1 DEF AwayFrom, DeletingPoints, HeadKnown, FreePoints, AppendPoints, Unlinked
  <2>2. CASE q # p /\ pc[q] \notin {"walk"} \cup DeletingPoints \cup HeadKnown
    <3>1. pc[q] \notin {"del_setfree", "del_unlink"}
      BY <1>11, <2>2 DEF Unlinking
    <3>2. ~Unlinked(q)
      BY <2>2 DEF Unlinked, HeadKnown, AppendPoints
    <3>. QED
      BY <1>1, <2>2, <3>1, <3>2 DEF AwayFrom, Unlinked
  <2>3. CASE q # p /\ pc[q] \in {"walk"} \cup DeletingPoints \cup HeadKnown
    <3>1. /\ pc[q] \in ChainHeld /\ pc[q] \in KeyPoints
          /\ pc[q] \notin {"del_setfree", "del_unlink"}
      BY <2>3 DEF ChainHeld, KeyPoints, FindPoints, DeletePoints, StoreOnlyPoints, FreePoints, AppendPoints,
                  StorePoints, DeletingPoints, HeadKnown
    <3>2. PICK c \in Chains : c = ChainOff(q)
      BY <3>1, HasChain
    <3>3. c # C /\ ChainKnown(q, c, nxt, gone) /\ IsList(c, Members(c, gone), nxt)
      BY <1>4, <1>5, <2>3, <3>1, <3>2, ChainApart, InvParts
    <3>4. \A v, f : Leads(c, v, f) => f = v
      BY <1>2 DEF Leads
    <3>5. \A m \in {c} \cup Members(c, gone) : nxt[m] \notin U
      BY <1>16, <3>3 DEF IsList
    <3>6. pc[q] = "walk" => db[q].cur \notin U
      BY <1>2, <3>3, <3>5 DEF ChainKnown, Astray, OnPath, Walked
    <3>7. pc[q] \in DeletingPoints => db[q].ptrval \notin U
      BY <3>3, <3>4, <3>5 DEF ChainKnown
    <3>8. pc[q] \in HeadKnown => db[q].chainptr \notin U
      BY <3>3, <3>4, <3>5 DEF ChainKnown
    <3>9. Unlinked(q) => db[q].idxoff \notin U
      <4>. SUFFICES ASSUME Unlinked(q) PROVE db[q].idxoff \notin U
        OBVIOUS
      <4>1. db[q].idxoff \in Records \ gone /\ idx[db[q].idxoff].key = call[q].key /\ call[q].key # BLANK
        BY UnlinkedRecord, ConstantsAssumption
      <4>2. db[q].idxoff \notin S
        BY <1>6 DEF Members
      <4>. QED
        BY <1>8, <1>9, <1>12, <1>14, <4>1, <4>2
    <3>. QED
      BY <1>1, <2>3, <3>1, <3>6, <3>7, <3>8, <3>9 DEF AwayFrom, Unlinked
  <2>. QED
    BY <2>1, <2>2, <2>3
<1>25. ASSUME NEW n \in U PROVE n \in gone2 \/ \E q \in Procs : Took(q)' /\ db'[q].idxoff = n
  <2>1. CASE n \notin gone2
    <3>1. PICK q \in Procs : Took(q) /\ db[q].idxoff = n
      BY <1>9, <1>25, <2>1
    <3>2. q # p
      BY <1>2, <3>1 DEF Took
    <3>3. Took(q)' /\ db'[q].idxoff = n
      BY <1>1, <3>1, <3>2 DEF Took
    <3>. QED
      BY <3>3
  <2>. QED
    BY <2>1
<1>26. \A n \in gone2 : idx'[n].key # BLANK /\ Hash[idx'[n].key] \in CutChains' => n \in U
  BY <1>1, <1>9, <1>11
<1>27. CrashedKeys \subseteq CrashedKeys' /\ C \in CutChains'
  BY <1>1, <1>5, CrashEffect DEF CrashedKeys, CutChains, Cut, ChainOff, Killed, Ended
<1>28. \A n \in gone2 : idx'[n].key \in {BLANK} \cup CrashedKeys' \/ Hash[idx'[n].key] \in CutChains'
  <2>1. \A n \in gone : idx[n].key \in {BLANK} \cup CrashedKeys
    BY <1>2 DEF StrayInv
  <2>2. \A n \in T : Hash[idx[n].key] = C
    BY <1>12, <1>13
  <2>. QED
    BY <1>1, <1>8, <1>11, <1>27, <2>1, <2>2
<1>29. StrayInv(gone2, U)'
  BY <1>23, <1>24, <1>25, <1>26, <1>28 DEF StrayInv
<1>. QED
  BY <1>29

-----------------------------------------------------------------------------
\* The lists are kept when any process may be killed anywhere

\* Some records are gone, and to those of U no pointer leads.
LossInv == CutAlone => \E nxt, gone, U : ListInv(nxt, gone) /\ StrayInv(gone, U)

\* A process that was killed stays so.
LEMMA KilledStays ==
  ASSUME TypeOK, CallOK, [Next]_vars
  PROVE  \A q \in Procs : /\ pc[q] \in Killed => pc'[q] = pc[q] /\ call'[q] = call[q]
                          /\ pc[q] = "cut" => pc'[q] = "cut"
<1>1. CASE UNCHANGED vars
  BY <1>1 DEF vars
<1>2. ASSUME NEW p \in Procs, LivingStep(p)
      PROVE  \A q \in Procs : pc[q] \in Killed => pc'[q] = pc[q] /\ call'[q] = call[q]
  BY <1>2, LivesOn DEF Lives, Ended
<1>3. ASSUME NEW p \in Procs, Crash(p)
      PROVE  \A q \in Procs : pc[q] \in Killed => pc'[q] = pc[q] /\ call'[q] = call[q]
  BY <1>3, CrashEffect DEF Ended
<1>. QED
  BY <1>1, <1>2, <1>3, NextCases DEF Killed

LEMMA CutAloneBefore ==
  ASSUME TypeOK, CallOK, [Next]_vars, CutAlone'
  PROVE  CutAlone
<1>1. \A q \in Procs : /\ pc[q] \in Killed => pc'[q] = pc[q] /\ call'[q] = call[q]
                       /\ pc[q] = "cut" => pc'[q] = "cut"
  BY KilledStays
<1>2. \A q \in Cut : q \in Cut' /\ q \in Procs /\ call'[q] = call[q]
  BY <1>1 DEF Cut, Killed
<1>. SUFFICES ASSUME NEW p \in Cut, NEW q \in Procs, p # q
              PROVE  q \notin Cut /\ (pc[q] \in Killed /\ call[q].op = "store" => ChainOff(q) # ChainOff(p))
  BY DEF CutAlone
<1>3. q \notin Cut'
  BY <1>2 DEF CutAlone
<1>4. ASSUME pc[q] \in Killed, call[q].op = "store" PROVE ChainOff(q) # ChainOff(p)
  <2>1. pc'[q] \in Killed /\ call'[q] = call[q] /\ call'[p] = call[p]
    BY <1>1, <1>2, <1>4
  <2>2. ChainOff(q)' # ChainOff(p)'
    BY <1>2, <1>4, <2>1 DEF CutAlone
  <2>. QED
    BY <2>1, <2>2 DEF ChainOff
<1>. QED
  BY <1>2, <1>3, <1>4

LEMMA LossNext ==
  ASSUME DbInv, LossInv, [Next]_vars
  PROVE  LossInv'
<1>. TypeOK /\ CallOK /\ LockOK /\ DataInv
  BY DEF DbInv
<1>. SUFFICES ASSUME CutAlone' PROVE \E nxt, gone, U : ListInv(nxt, gone)' /\ StrayInv(gone, U)'
  BY DEF LossInv
<1>1. PICK nxt, gone, U : ListInv(nxt, gone) /\ StrayInv(gone, U)
  BY CutAloneBefore DEF LossInv
<1>2. FoundOnPath(gone)
  BY <1>1, StrayFound
<1>3. CASE UNCHANGED vars
  <2>1. \A q \in Procs : ~Crash(q)
    BY <1>3, CrashEffect DEF vars, Ended, Killed
  <2>2. \E nxt2 : ListInv(nxt2, gone)'
    BY <1>1, <1>2, <2>1, NextLists
  <2>3. head' = head /\ idx' = idx /\ pc' = pc /\ db' = db /\ call' = call
    BY <1>3 DEF vars
  <2>4. /\ CutChains' = CutChains /\ CrashedKeys' = CrashedKeys /\ Records' = Records
        /\ \A m : Readptr(m)' = Readptr(m)
    BY <2>3 DEF CutChains, Cut, CrashedKeys, Records, Readptr
  <2>5. Closed(U)'
    BY <1>1, <2>4 DEF StrayInv, Closed, Heads
  <2>6. \A q \in Procs : AwayFrom(q, U)'
    BY <1>1, <2>3 DEF StrayInv, AwayFrom, Unlinked
  <2>7. \A n \in U : n \in gone \/ \E q \in Procs : Took(q)' /\ db'[q].idxoff = n
    BY <1>1, <2>3 DEF StrayInv, Took
  <2>8. StrayInv(gone, U)'
    BY <1>1, <2>3, <2>4, <2>5, <2>6, <2>7 DEF StrayInv
  <2>. QED
    BY <2>2, <2>8
<1>4. ASSUME NEW p \in Procs, LivingStep(p) PROVE \E nxt2, gone2, U2 : ListInv(nxt2, gone2)' /\ StrayInv(gone2, U2)'
  <2>1. \A q \in Procs : ~Crash(q)
    BY <1>4, LivesOn, CrashEffect DEF Lives, Ended, Killed
  <2>2. \E nxt2 : ListInv(nxt2, gone)'
    BY <1>1, <1>2, <2>1, NextLists
  <2>3. \E U2 : StrayInv(gone, U2)'
    BY <1>1, <1>4, LivingStray
  <2>. QED
    BY <2>2, <2>3
<1>5. ASSUME NEW p \in Procs, Crash(p) PROVE \E nxt2, gone2, U2 : ListInv(nxt2, gone2)' /\ StrayInv(gone2, U2)'
  <2>1. CASE pc[p] \in CutPoints
    <3>1. PICK gone2 : gone2 = gone \cup CutOff(p, nxt, gone)
      OBVIOUS
    <3>2. Cut = {}
      <4>. SUFFICES ASSUME NEW q \in Cut PROVE FALSE
        OBVIOUS
      <4>1. q \in Procs /\ q # p /\ q \in Cut' /\ p \in Cut'
        BY <1>5, <2>1, CrashEffect DEF Cut, Ended, Killed
      <4>. QED
        BY <4>1 DEF CutAlone
    <3>3. \E nxt2 : ListInv(nxt2, gone2)'
      BY <1>1, <1>5, <2>1, <3>1, CutLists
    <3>4. \E U2 : StrayInv(gone2, U2)'
      BY <1>1, <1>5, <2>1, <3>1, <3>2, CutStray
    <3>. QED
      BY <3>3, <3>4
  <2>2. CASE pc[p] \notin CutPoints
    <3>1. PICK gone2 : gone2 = gone \cup Held(p)
      OBVIOUS
    <3>2. StrayInv(gone2, U)'
      BY <1>1, <1>5, <2>2, <3>1, KillStray
    <3>3. ListInv(nxt, gone2)'
      <4>1. CASE pc[p] \in Marked
        BY <1>1, <1>5, <2>2, <3>1, <4>1, KillLists
      <4>2. CASE pc[p] \notin Marked
        <5>1. gone2 = gone
          BY <3>1, <4>2 DEF Held, Took, Unlinked, Marked
        <5>. QED
          BY <1>1, <1>5, <4>2, <5>1, OutsideLists
      <4>. QED
        BY <4>1, <4>2
    <3>. QED
      BY <3>2, <3>3
  <2>. QED
    BY <2>1, <2>2
<1>. QED
  BY <1>3, <1>4, <1>5, NextCases

LEMMA LossInit ==
  ASSUME Init
  PROVE  LossInv
<1>1. PICK nxt : ListInv(nxt, {})
  BY InitLists
<1>2. PICK V : V = {}
  OBVIOUS
<1>3. Cut = {} /\ CutChains = {}
  BY DEF Init, Cut, CutChains
<1>4. StrayInv({}, V)
  BY <1>2 DEF StrayInv, Closed, AwayFrom
<1>. QED
  BY <1>1, <1>4 DEF LossInv

\* A chain in which nobody was cut holds no record of another chain and no
\* blank one, and ends, when nobody is changing it.
LEMMA LossThen ==
  ASSUME DbInv, LossInv, CutAlone, NEW c \in Chains \ CutChains, ~WriteLocked(c)
  PROVE  ~Broken(c)
<1>. TypeOK /\ CallOK /\ LockOK
  BY DEF DbInv
<1>1. PICK nxt, gone, U : ListInv(nxt, gone) /\ StrayInv(gone, U)
  BY DEF LossInv
<1>2. Reach(c) = Members(c, gone) /\ \A n \in Members(c, gone) : n \notin Reach(n)
  BY <1>1, ChainThen
<1>. QED
  BY <1>2 DEF Broken, Members

=============================================================================
