---------------------------- MODULE DbScanProofs ----------------------------
(***************************************************************************)
(* What db.c promises its callers, for any processes, keys, data, chains   *)
(* and calls: each call takes effect at one instant as KeyedStore says,    *)
(* a process that is killed harms no key but its own, and a scan of the    *)
(* changing database visits what stays in it, once.                        *)
(***************************************************************************)
EXTENDS DbScan, ApueDbProofs

-----------------------------------------------------------------------------
(***************************************************************************)
(* What the library promises: the index and the data file say what the     *)
(* map of KeyedStore does.                                                 *)
(***************************************************************************)

\* A process at the record of its key.
RecordPoints == DeletingPoints \cup {"readdat", "overwrite"}
HasRecord(p) ==
    LET n == db[p].idxoff
    IN  /\ n \in Records /\ idx[n].key = call[p].key
        /\ idx[n].datoff = db[p].datoff /\ idx[n].datlen = db[p].datlen

\* A scan at a record.
ScanHas(p) ==
    LET n == db[p].idxoff
    IN  /\ n \in Records /\ idx[n].key = db[p].idxbuf /\ idx[n].key # BLANK
        /\ idx[n].datoff = db[p].datoff /\ idx[n].datlen = db[p].datlen

\* A store whose data are in the data file and in no index record that can be seen.
FilledPoints == FreshPoints \cup {"reuse_idx"}
Filled(p) == /\ db[p].datoff \in DOMAIN dat
             /\ dat[db[p].datoff].data = call[p].data

\* A store that has seen, or made, its key absent from the index.
Storing(p) == pc[p] \in KeyGonePoints \ {"idx_unlock", "link"} /\ call[p].op = "store"
SearchPoints == FreePoints \cup {"read_head", "reuse_dat", "reuse_idx"}

StoringOK(p, K) ==
    LET k == call[p].key
    IN  k \in K =>
        /\ call[p].flag = "DB_INSERT" => store[k] = NONE
        /\ call[p].flag = "DB_REPLACE" => store[k] # NONE
        /\ pc[p] \in SearchPoints => store[k] = NONE

\* The call has taken effect.
Answered(p) == \/ pc[p] \in {"unlock_chain", "scan_unlock", "idx_unlock", "link"}
               \/ pc[p] \in {"del_setfree", "del_unlink", "del_unlock"} /\ call[p].op = "delete"

CallKnows(p, K) ==
    /\ pc[p] \in RecordPoints => HasRecord(p)
    /\ pc[p] = "readdat" => call[p].op = "fetch"
    /\ pc[p] \in DeletePoints \cup {"overwrite", "reread_head"} => call[p].flag # "DB_INSERT"
    /\ pc[p] = "scan_dat" => ScanHas(p)
    /\ pc[p] \in FilledPoints => Filled(p)
    /\ Storing(p) => StoringOK(p, K)
    /\ pc[p] \notin Ended => (Answered(p) <=> ret[p] # Abs!Pending)

\* The record n is about to be deleted, and its data is blank already.
Blanked(n) == \E p \in Procs : pc[p] \in {"del_readfree", "del_idx"} /\ db[p].idxoff = n

\* A key in the index is in the store, with the same data,
StoreFiled(K) ==
    \A n \in Records : idx[n].key \in K =>
        LET k == idx[n].key
        IN  store[k] # NONE /\ (Blanked(n) \/ dat[idx[n].datoff].data = store[k])

\* and a key in the store is in the index, or being stored again.
StoreFound(K) ==
    \A k \in K : store[k] # NONE =>
        \/ \E n \in Records : idx[n].key = k
        \/ \E p \in Procs : Storing(p) /\ call[p].key = k

StoreInv(K) == StoreFiled(K) /\ StoreFound(K) /\ \A p \in Procs : CallKnows(p, K)

\* The keys that no process killed on the way has harmed: their chains are
\* whole, and the records that are on no list any more are not theirs.
Safe(K, gone) == /\ \A k \in K : Hash[k] \notin CutChains
                 /\ \A n \in gone : idx[n].key \notin K

\* A process that ends here leaves a deletion, a replacement or an insertion
\* half done.
HalfDone == {"del_readfree", "del_idx", "del_setfree", "del_unlink", "del_unlock", "reread_head",
             "ff_unlock", "reuse_dat", "reuse_idx", "link"} \cup AppendPoints
Unharmed == CrashAt \cap HalfDone = {}

LEMMA UnharmedLoss == ASSUME Unharmed PROVE NoLoss
BY DEF Unharmed, NoLoss, HalfDone, Marked, AppendPoints

\* A step of KeyedStore, or none.
Promise == Abs!Next \/ UNCHANGED <<store, call, ret>>

-----------------------------------------------------------------------------
\* Steps that leave the map and what is in the files alone

SameStore == /\ SameShape /\ store' = store
             /\ \A n \in Records : idx'[n].key = idx[n].key
             /\ \A n \in DOMAIN dat : dat'[n].data = dat[n].data

LEMMA SameFiles ==
  ASSUME TypeOK, idx' = idx, dat' = dat, store' = store
  PROVE  SameStore
BY FilesUnchanged DEF SameStore

LEMMA SamePointers ==
  ASSUME TypeOK, NEW off \in Heads \cup Records, NEW v \in Nat, Writeptr(off, v), dat' = dat, store' = store
  PROVE  SameStore
<1>1. off \in Cells
  BY DEF Heads, Records, Cells
<1>2. SameShape
  BY <1>1, WriteptrShape
<1>3. \A n \in Records : idx'[n].key = idx[n].key
  BY PointerWritten
<1>. QED
  BY <1>2, <1>3 DEF SameStore

\* From one point to another with the same duties.
Answering == {"unlock_chain", "scan_unlock", "idx_unlock", "link"}
Deleted == {"del_setfree", "del_unlink", "del_unlock"}
Onward(from, to) ==
    /\ from \notin Ended /\ to \notin Ended
    /\ to \in RecordPoints => from \in RecordPoints
    /\ to \in DeletePoints \cup {"overwrite", "reread_head"} =>
          from \in DeletePoints \cup {"overwrite", "reread_head"}
    /\ to \notin {"scan_dat", "readdat"}
    /\ to \in FilledPoints => from \in FilledPoints
    /\ to \in KeyGonePoints \ {"idx_unlock", "link"} <=> from \in KeyGonePoints \ {"idx_unlock", "link"}
    /\ to \in SearchPoints => from \in SearchPoints
    /\ to \in Answering <=> from \in Answering
    /\ to \in Deleted <=> from \in Deleted
    /\ from \in {"del_readfree", "del_idx"} => to \in {"del_readfree", "del_idx"}

LEMMA OnwardSteps ==
  /\ Onward("lock_chain", "read_chain") /\ Onward("read_chain", "walk") /\ Onward("walk", "walk")
  /\ Onward("del_lock", "del_dat") /\ Onward("del_readfree", "del_idx")
  /\ Onward("del_setfree", "del_unlink") /\ Onward("del_unlink", "del_unlock")
  /\ Onward("ff_lock", "ff_read") /\ Onward("ff_read", "ff_walk") /\ Onward("ff_walk", "ff_walk")
  /\ Onward("ff_walk", "ff_unlink") /\ Onward("ff_walk", "ff_unlock") /\ Onward("ff_unlink", "ff_unlock")
  /\ Onward("ff_unlock", "dat_lock") /\ Onward("ff_unlock", "reuse_dat")
  /\ Onward("read_head", "ff_lock") /\ Onward("reread_head", "dat_lock")
  /\ Onward("dat_lock", "dat_seek") /\ Onward("dat_seek", "dat_append")
  /\ Onward("dat_unlock", "idx_lock") /\ Onward("idx_lock", "idx_seek") /\ Onward("idx_seek", "idx_append")
  /\ Onward("idx_unlock", "link") /\ Onward("link", "unlock_chain")
  /\ Onward("scan_lock", "scan_read") /\ Onward("scan_read", "scan_read")
<1>. USE DEF Onward, Ended, Killed, RecordPoints, DeletingPoints, DeletePoints, FilledPoints, FreshPoints, KeyGonePoints,
             SearchPoints, FreePoints, AppendPoints, StorePoints, Answering, Deleted
<1>1. Onward("lock_chain", "read_chain") /\ Onward("read_chain", "walk") /\ Onward("walk", "walk")
  OBVIOUS
<1>2. /\ Onward("del_lock", "del_dat") /\ Onward("del_readfree", "del_idx")
      /\ Onward("del_setfree", "del_unlink") /\ Onward("del_unlink", "del_unlock")
  OBVIOUS
<1>3. Onward("ff_lock", "ff_read") /\ Onward("ff_read", "ff_walk") /\ Onward("ff_walk", "ff_walk")
  OBVIOUS
<1>4. Onward("ff_walk", "ff_unlink") /\ Onward("ff_walk", "ff_unlock") /\ Onward("ff_unlink", "ff_unlock")
  OBVIOUS
<1>5. Onward("ff_unlock", "dat_lock") /\ Onward("ff_unlock", "reuse_dat")
  OBVIOUS
<1>6. Onward("read_head", "ff_lock") /\ Onward("reread_head", "dat_lock")
  OBVIOUS
<1>7. Onward("dat_lock", "dat_seek") /\ Onward("dat_seek", "dat_append")
  OBVIOUS
<1>8. Onward("dat_unlock", "idx_lock") /\ Onward("idx_lock", "idx_seek") /\ Onward("idx_seek", "idx_append")
  OBVIOUS
<1>9. Onward("idx_unlock", "link") /\ Onward("link", "unlock_chain")
  OBVIOUS
<1>10. Onward("scan_lock", "scan_read") /\ Onward("scan_read", "scan_read")
  OBVIOUS
<1>. QED
  BY <1>1, <1>2, <1>3, <1>4, <1>5, <1>6, <1>7, <1>8, <1>9, <1>10

\* What another process knows stays so when its record, its data and the
\* entry of its key do.
LEMMA OthersKnow ==
  ASSUME NEW K \in SUBSET Keys, NEW q \in Procs, CallKnows(q, K),
         pc'[q] = pc[q], db'[q] = db[q], call'[q] = call[q], ret'[q] = ret[q],
         LET n == db[q].idxoff IN pc[q] \in RecordPoints \cup {"scan_dat"} =>
            /\ n \in Records' /\ idx'[n].key = idx[n].key
            /\ idx'[n].datoff = idx[n].datoff /\ idx'[n].datlen = idx[n].datlen,
         LET n == db[q].datoff IN pc[q] \in FilledPoints =>
            n \in DOMAIN dat' /\ dat'[n].data = dat[n].data,
         Storing(q) => store'[call[q].key] = store[call[q].key]
  PROVE  CallKnows(q, K)'
<1>1. pc[q] \in RecordPoints => HasRecord(q)'
  BY DEF CallKnows, HasRecord
<1>2. pc[q] = "scan_dat" => ScanHas(q)'
  BY DEF CallKnows, ScanHas
<1>3. pc[q] \in FilledPoints => Filled(q)'
  BY DEF CallKnows, Filled
<1>4. Storing(q)' => StoringOK(q, K)'
  BY DEF CallKnows, Storing, StoringOK
<1>5. Answered(q)' <=> Answered(q)
  BY DEF Answered
<1>. QED
  BY <1>1, <1>2, <1>3, <1>4, <1>5 DEF CallKnows

\* The three parts of the invariant after a step of p that leaves the map
\* alone.
LEMMA SameStoreParts ==
  ASSUME NEW K \in SUBSET Keys, TypeOK, TypeOK', DataInv, StoreInv(K), NEW p \in Procs, Alone(p), SameStore,
         \A q \in Procs : q # p => ret'[q] = ret[q],
         CallKnows(p, K)',
         Storing(p) /\ call[p].key \in K => (Storing(p)' /\ call'[p].key = call[p].key) \/ store[call[p].key] = NONE,
         pc[p] \in {"del_readfree", "del_idx"} /\ call[p].key \in K =>
            pc'[p] \in {"del_readfree", "del_idx"} /\ db'[p].idxoff = db[p].idxoff
  PROVE  StoreInv(K)'
<1>1. Records' = Records /\ Len(dat') = Len(dat) /\ DOMAIN dat = 1 .. Len(dat)
  BY Domains DEF SameStore, SameShape, Records
<1>2. \A n \in Records : /\ idx'[n].key = idx[n].key
                         /\ idx'[n].datoff = idx[n].datoff /\ idx'[n].datlen = idx[n].datlen
  BY Domains DEF SameStore, SameShape, Records
<1>3. DOMAIN dat' = DOMAIN dat /\ \A n \in DOMAIN dat : dat'[n].data = dat[n].data
  BY <1>1, NextDomains DEF SameStore
<1>4. ASSUME NEW q \in Procs PROVE CallKnows(q, K)'
  <2>1. CASE q = p
    BY <2>1
  <2>2. CASE q # p
    <3>1. pc'[q] = pc[q] /\ db'[q] = db[q] /\ call'[q] = call[q] /\ ret'[q] = ret[q]
      BY <2>2 DEF Alone
    <3>2. CallKnows(q, K)
      BY DEF StoreInv
    <3>3. pc[q] \in RecordPoints \cup {"scan_dat"} => db[q].idxoff \in Records
      BY <3>2 DEF CallKnows, HasRecord, ScanHas
    <3>4. pc[q] \in FilledPoints => db[q].datoff \in DOMAIN dat
      BY <3>2 DEF CallKnows, Filled
    <3>5. store'[call[q].key] = store[call[q].key]
      BY DEF SameStore
    <3>. QED
      BY <1>1, <1>2, <1>3, <3>1, <3>2, <3>3, <3>4, <3>5, OthersKnow
  <2>. QED
    BY <2>1, <2>2
<1>5. ASSUME NEW n \in Records, Blanked(n), idx[n].key \in K PROVE Blanked(n)'
  <2>1. PICK q \in Procs : pc[q] \in {"del_readfree", "del_idx"} /\ db[q].idxoff = n
    BY <1>5 DEF Blanked
  <2>a. idx[n].key = call[q].key
    BY <2>1 DEF StoreInv, CallKnows, HasRecord, RecordPoints, DeletingPoints
  <2>2. pc'[q] \in {"del_readfree", "del_idx"} /\ db'[q].idxoff = n
    BY <1>5, <2>1, <2>a DEF Alone
  <2>. QED
    BY <2>2 DEF Blanked
<1>6. StoreFiled(K)'
  <2>. SUFFICES ASSUME NEW n \in Records, idx'[n].key \in K
                PROVE  /\ store'[idx'[n].key] # NONE
                       /\ Blanked(n)' \/ dat'[idx'[n].datoff].data = store'[idx'[n].key]
    BY <1>1 DEF StoreFiled
  <2>1. idx'[n].key = idx[n].key /\ idx'[n].datoff = idx[n].datoff /\ store' = store
    BY <1>2 DEF SameStore
  <2>2. store[idx[n].key] # NONE /\ (Blanked(n) \/ dat[idx[n].datoff].data = store[idx[n].key])
    BY <2>1 DEF StoreInv, StoreFiled
  <2>3. idx[n].datoff \in DOMAIN dat
    BY Sets DEF DataInv, DataOwned
  <2>. QED
    BY <1>3, <1>5, <2>1, <2>2, <2>3
<1>7. StoreFound(K)'
  <2>. SUFFICES ASSUME NEW k \in K, store'[k] # NONE
                PROVE  \/ \E n \in Records' : idx'[n].key = k
                       \/ \E q \in Procs : Storing(q)' /\ call'[q].key = k
    BY DEF StoreFound
  <2>1. store[k] # NONE
    BY DEF SameStore
  <2>2. CASE \E n \in Records : idx[n].key = k
    BY <1>1, <1>2, <2>2
  <2>3. ASSUME NEW q \in Procs, Storing(q), call[q].key = k PROVE Storing(q)' /\ call'[q].key = k
    BY <2>1, <2>3 DEF Alone, Storing
  <2>. QED
    BY <2>1, <2>2, <2>3 DEF StoreInv, StoreFound
<1>. QED
  BY <1>4, <1>6, <1>7 DEF StoreInv

\* A step that changes nothing that matters here.
LEMMA QuietStore ==
  ASSUME NEW K \in SUBSET Keys, TypeOK, TypeOK', DataInv, StoreInv(K), NEW p \in Procs, Alone(p), SameStore,
         call' = call, ret' = ret, Onward(pc[p], pc'[p]),
         pc'[p] \in RecordPoints =>
            /\ db'[p].idxoff = db[p].idxoff
            /\ db'[p].datoff = db[p].datoff /\ db'[p].datlen = db[p].datlen,
         pc'[p] \in FilledPoints => db'[p].datoff = db[p].datoff
  PROVE  StoreInv(K)' /\ Promise
<1>1. Records' = Records /\ DOMAIN dat' = DOMAIN dat
  BY Domains, NextDomains DEF SameStore, SameShape, Records
<1>2. \A n \in Records : /\ idx'[n].key = idx[n].key
                         /\ idx'[n].datoff = idx[n].datoff /\ idx'[n].datlen = idx[n].datlen
  BY Domains DEF SameStore, SameShape, Records
<1>3. CallKnows(p, K)
  BY DEF StoreInv
<1>4. pc'[p] \in RecordPoints => HasRecord(p)'
  <2>. SUFFICES ASSUME pc'[p] \in RecordPoints PROVE HasRecord(p)'
    OBVIOUS
  <2>1. HasRecord(p)
    BY <1>3 DEF CallKnows, Onward
  <2>. QED
    BY <1>1, <1>2, <2>1 DEF HasRecord
<1>5. pc'[p] \in FilledPoints => Filled(p)'
  <2>. SUFFICES ASSUME pc'[p] \in FilledPoints PROVE Filled(p)'
    OBVIOUS
  <2>1. Filled(p)
    BY <1>3 DEF CallKnows, Onward
  <2>. QED
    BY <1>1, <2>1 DEF Filled, SameStore
<1>6. Storing(p)' <=> Storing(p)
  BY DEF Storing, Onward
<1>7. Storing(p)' => StoringOK(p, K)'
  <2>. SUFFICES ASSUME Storing(p)' PROVE StoringOK(p, K)'
    OBVIOUS
  <2>1. StoringOK(p, K) /\ (pc'[p] \in SearchPoints => pc[p] \in SearchPoints) /\ store' = store
    BY <1>3, <1>6 DEF CallKnows, Onward, SameStore
  <2>. QED
    BY <2>1 DEF StoringOK
<1>8. Answered(p)' <=> Answered(p)
  BY DEF Answered, Onward, Answering, Deleted
<1>9. CallKnows(p, K)'
  BY <1>3, <1>4, <1>5, <1>7, <1>8 DEF CallKnows, Onward
<1>10. pc[p] \in {"del_readfree", "del_idx"} =>
          pc'[p] \in {"del_readfree", "del_idx"} /\ db'[p].idxoff = db[p].idxoff
  BY DEF Onward, RecordPoints, DeletingPoints
<1>11. StoreInv(K)'
  BY <1>6, <1>9, <1>10, SameStoreParts
<1>12. Promise
  BY DEF SameStore, Promise
<1>. QED
  BY <1>11, <1>12

LEMMA QuietFiles ==
  ASSUME NEW K \in SUBSET Keys, TypeOK, TypeOK', DataInv, StoreInv(K), NEW p \in Procs, NEW from, NEW to,
         Step(p, from, to), Onward(from, to), idx' = idx, dat' = dat, store' = store, ret' = ret, Alone(p),
         to \in RecordPoints =>
            /\ db'[p].idxoff = db[p].idxoff
            /\ db'[p].datoff = db[p].datoff /\ db'[p].datlen = db[p].datlen,
         to \in FilledPoints => db'[p].datoff = db[p].datoff
  PROVE  StoreInv(K)' /\ Promise
<1>1. SameStore
  BY SameFiles
<1>2. pc[p] = from /\ pc'[p] = to /\ call' = call
  BY StepEffect
<1>. QED
  BY <1>1, <1>2, QuietStore

LEMMA LockStore ==
  ASSUME NEW K \in SUBSET Keys, TypeOK, TypeOK', DataInv, StoreInv(K), NEW p \in Procs, NEW from, NEW r, NEW t,
         NEW to,
         Lock(p, from, r, t, to) \/ Unlock(p, from, r, to), Onward(from, to)
  PROVE  StoreInv(K)' /\ Promise
<1>1. Step(p, from, to) /\ idx' = idx /\ dat' = dat /\ db' = db /\ store' = store /\ ret' = ret
  BY DEF Lock, Unlock, files, hist
<1>2. Alone(p)
  BY <1>1, StepEffect
<1>. QED
  BY <1>1, <1>2, QuietFiles

\* A pointer is written.
LEMMA PointerStore ==
  ASSUME NEW K \in SUBSET Keys, TypeOK, TypeOK', DataInv, StoreInv(K), NEW p \in Procs, NEW from, NEW to,
         Step(p, from, to), Onward(from, to), to \notin RecordPoints, to \notin FilledPoints,
         NEW off \in Heads \cup Records, NEW v \in Nat, Writeptr(off, v),
         dat' = dat, db' = db, store' = store, ret' = ret
  PROVE  StoreInv(K)' /\ Promise
<1>1. SameStore
  BY SamePointers
<1>2. pc[p] = from /\ pc'[p] = to /\ call' = call /\ Alone(p)
  BY StepEffect
<1>. QED
  BY <1>1, <1>2, QuietStore

\* The actions of which nothing is to be shown but that.
LEMMA ReadingStore ==
  ASSUME NEW K \in SUBSET Keys, TypeOK, TypeOK', CallOK, DataInv, StoreInv(K), NEW p \in Procs,
         \/ LockChain(p) \/ ReadChain(p) \/ WalkOn(p) \/ DelLock(p) \/ DelReadfree(p)
         \/ FreeLock(p) \/ FreeRead(p) \/ FreeWalkOn(p) \/ FreeFound(p) \/ FreeNone(p) \/ FreeUnlock(p)
         \/ ReadHead(p) \/ DatLock(p) \/ DatSeek(p) \/ DatUnlock(p) \/ IdxLock(p) \/ IdxSeek(p) \/ IdxUnlock(p)
         \/ ScanLock(p)
  PROVE  StoreInv(K)' /\ Promise
<1>. USE DEF RecordPoints, DeletingPoints, FilledPoints, FreshPoints
<1>1. CASE LockChain(p)
  BY <1>1, LockStore, OnwardSteps DEF LockChain
<1>2. CASE ReadChain(p)
  <2>1. /\ Step(p, "read_chain", "walk") /\ idx' = idx /\ dat' = dat /\ store' = store /\ ret' = ret
        /\ Handles(p, [db[p] EXCEPT !.ptroff = ChainOff(p), !.cur = Readptr(ChainOff(p))])
    BY <1>2 DEF ReadChain, files, hist
  <2>2. Alone(p)
    BY <2>1, StepEffect
  <2>. QED
    BY <2>1, <2>2, OnwardSteps, QuietFiles
<1>3. CASE WalkOn(p)
  <2>1. PICK h : Step(p, "walk", "walk") /\ idx' = idx /\ dat' = dat /\ store' = store /\ ret' = ret /\ Handles(p, h)
    BY <1>3 DEF WalkOn, files, hist
  <2>2. Alone(p)
    BY <2>1, StepEffect
  <2>. QED
    BY <2>1, <2>2, OnwardSteps, QuietFiles
<1>4. CASE DelLock(p)
  BY <1>4, LockStore, OnwardSteps DEF DelLock
<1>5. CASE DelReadfree(p)
  <2>1. /\ Step(p, "del_readfree", "del_idx") /\ idx' = idx /\ dat' = dat /\ store' = store /\ ret' = ret
        /\ Handles(p, [db[p] EXCEPT !.freeptr = Readptr(FREE_OFF), !.saveptr = db[p].ptrval])
    BY <1>5 DEF DelReadfree, files, hist
  <2>2. Alone(p) /\ db'[p] = [db[p] EXCEPT !.freeptr = Readptr(FREE_OFF), !.saveptr = db[p].ptrval]
    BY <2>1, StepEffect
  <2>3. db'[p].idxoff = db[p].idxoff /\ db'[p].datoff = db[p].datoff /\ db'[p].datlen = db[p].datlen
    BY <2>2, ProcType DEF Handle
  <2>. QED
    BY <2>1, <2>2, <2>3, OnwardSteps, QuietFiles
<1>6. CASE FreeLock(p)
  BY <1>6, LockStore, OnwardSteps DEF FreeLock
<1>7. CASE FreeRead(p)
  <2>1. PICK h : Step(p, "ff_read", "ff_walk") /\ idx' = idx /\ dat' = dat /\ store' = store /\ ret' = ret /\ Handles(p, h)
    BY <1>7 DEF FreeRead, files, hist
  <2>2. Alone(p)
    BY <2>1, StepEffect
  <2>. QED
    BY <2>1, <2>2, OnwardSteps, QuietFiles
<1>8. CASE FreeWalkOn(p)
  <2>1. PICK h : Step(p, "ff_walk", "ff_walk") /\ idx' = idx /\ dat' = dat /\ store' = store /\ ret' = ret /\ Handles(p, h)
    BY <1>8 DEF FreeWalkOn, files, hist
  <2>2. Alone(p)
    BY <2>1, StepEffect
  <2>. QED
    BY <2>1, <2>2, OnwardSteps, QuietFiles
<1>9. CASE FreeFound(p)
  <2>1. PICK h : Step(p, "ff_walk", "ff_unlink") /\ idx' = idx /\ dat' = dat /\ store' = store /\ ret' = ret /\ Handles(p, h)
    BY <1>9 DEF FreeFound, files, hist
  <2>2. Alone(p)
    BY <2>1, StepEffect
  <2>. QED
    BY <2>1, <2>2, OnwardSteps, QuietFiles
<1>10. CASE FreeNone(p)
  <2>1. Step(p, "ff_walk", "ff_unlock") /\ idx' = idx /\ dat' = dat /\ store' = store /\ ret' = ret /\ db' = db
    BY <1>10 DEF FreeNone, files, hist
  <2>2. Alone(p)
    BY <2>1, StepEffect
  <2>. QED
    BY <2>1, <2>2, OnwardSteps, QuietFiles
<1>11. CASE FreeUnlock(p)
  <2>1. CASE db[p].cur = 0
    BY <1>11, <2>1, LockStore, OnwardSteps DEF FreeUnlock
  <2>2. CASE db[p].cur # 0
    BY <1>11, <2>2, LockStore, OnwardSteps DEF FreeUnlock
  <2>. QED
    BY <2>1, <2>2
<1>12. CASE ReadHead(p)
  <2>1. PICK from, to : /\ Step(p, from, to) /\ idx' = idx /\ dat' = dat /\ store' = store /\ ret' = ret
                        /\ <<from, to>> \in {<<"read_head", "ff_lock">>, <<"reread_head", "dat_lock">>}
                        /\ Handles(p, [db[p] EXCEPT !.chainptr = Readptr(ChainOff(p))])
    BY <1>12 DEF ReadHead, files, hist
  <2>2. Alone(p)
    BY <2>1, StepEffect
  <2>3. Onward(from, to) /\ to \notin RecordPoints /\ to \notin FilledPoints
    BY <2>1, OnwardSteps
  <2>. QED
    BY <2>1, <2>2, <2>3, QuietFiles
<1>13. CASE DatLock(p)
  BY <1>13, LockStore, OnwardSteps DEF DatLock
<1>14. CASE DatSeek(p)
  <2>1. PICK h : Step(p, "dat_seek", "dat_append") /\ idx' = idx /\ dat' = dat /\ store' = store /\ ret' = ret /\ Handles(p, h)
    BY <1>14 DEF DatSeek, files, hist
  <2>2. Alone(p)
    BY <2>1, StepEffect
  <2>. QED
    BY <2>1, <2>2, OnwardSteps, QuietFiles
<1>15. CASE DatUnlock(p)
  BY <1>15, LockStore, OnwardSteps DEF DatUnlock
<1>16. CASE IdxLock(p)
  BY <1>16, LockStore, OnwardSteps DEF IdxLock
<1>17. CASE IdxSeek(p)
  <2>1. /\ Step(p, "idx_seek", "idx_append") /\ idx' = idx /\ dat' = dat /\ store' = store /\ ret' = ret
        /\ Handles(p, [db[p] EXCEPT !.idxoff = Len(idx) + 1, !.ptrval = db[p].chainptr])
    BY <1>17 DEF IdxSeek, files, hist
  <2>2. Alone(p) /\ db'[p] = [db[p] EXCEPT !.idxoff = Len(idx) + 1, !.ptrval = db[p].chainptr]
    BY <2>1, StepEffect
  <2>3. db'[p].datoff = db[p].datoff
    BY <2>2, ProcType DEF Handle
  <2>. QED
    BY <2>1, <2>2, <2>3, OnwardSteps, QuietFiles
<1>18. CASE IdxUnlock(p)
  BY <1>18, LockStore, OnwardSteps DEF IdxUnlock
<1>19. CASE ScanLock(p)
  BY <1>19, LockStore, OnwardSteps DEF ScanLock
<1>. QED
  BY <1>1, <1>2, <1>3, <1>4, <1>5, <1>6, <1>7, <1>8, <1>9, <1>10, <1>11, <1>12, <1>13, <1>14, <1>15, <1>16, <1>17, <1>18, <1>19

LEMMA LinkingStore ==
  ASSUME NEW K \in SUBSET Keys, TypeOK, TypeOK', CallOK, DataInv, StoreInv(K), NEW nxt, NEW gone,
         ListInv(nxt, gone), Safe(K, gone), NEW p \in Procs,
         DelSetfree(p) \/ DelUnlink(p) \/ FreeUnlink(p) \/ Link(p)
  PROVE  StoreInv(K)' /\ Promise
<1>. USE DEF RecordPoints, DeletingPoints, FilledPoints, FreshPoints
<1>1. /\ db[p] \in Handle /\ db[p].idxoff \in Nat /\ db[p].saveptr \in Nat /\ db[p].ptrval \in Nat
  BY ProcType DEF Handle
<1>2. CASE DelSetfree(p)
  <2>1. /\ Step(p, "del_setfree", "del_unlink") /\ Writeptr(FREE_OFF, db[p].idxoff)
        /\ dat' = dat /\ db' = db /\ store' = store /\ ret' = ret
    BY <1>2 DEF DelSetfree, hist
  <2>2. FREE_OFF \in Heads \cup Records
    BY DEF Heads
  <2>. QED
    BY <1>1, <2>1, <2>2, OnwardSteps, PointerStore
<1>3. CASE DelUnlink(p)
  <2>1. /\ Step(p, "del_unlink", "del_unlock") /\ Writeptr(db[p].ptroff, db[p].saveptr)
        /\ dat' = dat /\ db' = db /\ store' = store /\ ret' = ret
    BY <1>3 DEF DelUnlink, hist
  <2>2. pc[p] = "del_unlink"
    BY <2>1 DEF Step
  <2>3. PICK C \in Chains : C = ChainOff(p)
    BY <2>2, HasChain DEF KeyPoints, DeletePoints
  <2>4. db[p].ptroff \in {C} \cup Members(C, gone)
    BY <2>2, <2>3, InvParts DEF ChainKnown
  <2>5. db[p].ptroff \in Heads \cup Records
    BY <2>4, Sets DEF Heads
  <2>. QED
    BY <1>1, <2>1, <2>5, OnwardSteps, PointerStore
<1>4. CASE FreeUnlink(p)
  <2>1. /\ Step(p, "ff_unlink", "ff_unlock") /\ Writeptr(db[p].saveoffset, db[p].ptrval)
        /\ dat' = dat /\ db' = db /\ store' = store /\ ret' = ret
    BY <1>4 DEF FreeUnlink, hist
  <2>2. pc[p] = "ff_unlink"
    BY <2>1 DEF Step
  <2>3. db[p].saveoffset \in {FREE_OFF} \cup FreeMembers(gone)
    BY <2>2, InvParts DEF FreeKnown
  <2>4. db[p].saveoffset \in Heads \cup Records
    BY <2>3, Sets DEF Heads
  <2>. QED
    BY <1>1, <2>1, <2>4, OnwardSteps, PointerStore
<1>5. CASE Link(p)
  <2>1. /\ Step(p, "link", "unlock_chain") /\ Writeptr(ChainOff(p), db[p].idxoff)
        /\ dat' = dat /\ db' = db /\ store' = store /\ ret' = ret
    BY <1>5 DEF Link, hist
  <2>2. pc[p] = "link"
    BY <2>1 DEF Step
  <2>3. ChainOff(p) \in Heads \cup Records
    BY <2>2, HasChain DEF KeyPoints, StoreOnlyPoints, StorePoints, Heads
  <2>. QED
    BY <1>1, <2>1, <2>3, OnwardSteps, PointerStore
<1>. QED
  BY <1>2, <1>3, <1>4, <1>5

-----------------------------------------------------------------------------
\* What the chain lock and the lists say of the key of a call

LEMMA KeyApart ==
  ASSUME TypeOK, CallOK, LockOK, NEW p \in Procs, NEW q \in Procs, p # q,
         pc[p] \in ChainHeld, call[p].op # "fetch", pc[q] \in ChainHeld
  PROVE  call[q].key # call[p].key
BY ChainApart DEF ChainOff

\* A record with the key of the call is on its chain.
LEMMA OnChain ==
  ASSUME NEW K \in SUBSET Keys, TypeOK, CallOK, LockOK, NEW nxt, NEW gone, ListInv(nxt, gone), Safe(K, gone),
         NEW p \in Procs, pc[p] \in ChainHeld, ~Unlinked(p), call[p].key \in K,
         NEW n \in Records, idx[n].key = call[p].key
  PROVE  n \in Members(ChainOff(p), gone)
<1>1. call[p].key \in Keys /\ idx[n].key # BLANK
  BY HasChain, ConstantsAssumption DEF ChainHeld
<1>2. ASSUME NEW q \in Procs, Unlinked(q) PROVE db[q].idxoff # n
  <2>1. idx[db[q].idxoff].key = call[q].key
    BY <1>2, UnlinkedRecord
  <2>2. pc[q] \in ChainHeld /\ call[q].op # "fetch" /\ q # p
    BY <1>2 DEF Unlinked, ChainHeld, KeyPoints, StoreOnlyPoints, AppendPoints, StorePoints, CallOK
  <2>3. call[p].key # call[q].key
    BY <2>2, KeyApart
  <2>. QED
    BY <2>1, <2>3
<1>. QED
  BY <1>1, <1>2 DEF Members, ChainOff, Safe

\* It is the only one.
LEMMA OneRecord ==
  ASSUME NEW K \in SUBSET Keys, TypeOK, CallOK, LockOK, NEW nxt, NEW gone, ListInv(nxt, gone), Safe(K, gone),
         NEW p \in Procs, pc[p] \in ChainHeld, ~Unlinked(p), call[p].key \in K,
         NEW m \in Records, idx[m].key = call[p].key, NEW n \in Records, idx[n].key = call[p].key
  PROVE  m = n
<1>1. PICK C \in Chains : C = ChainOff(p)
  BY HasChain DEF ChainHeld
<1>2. m \in Members(C, gone) /\ n \in Members(C, gone)
  BY <1>1, OnChain
<1>. QED
  BY <1>2, InvParts DEF KeyOnce

StoringPoints == KeyGonePoints \ {"idx_unlock", "link"}

LEMMA StoringHeld ==
  ASSUME CallOK, NEW p \in Procs, pc[p] \in StoringPoints
  PROVE  pc[p] \in ChainHeld /\ call[p].op # "fetch" /\ ~Unlinked(p)
BY DEF StoringPoints, KeyGonePoints, Unlinked, ChainHeld, KeyPoints, DeletePoints, StoreOnlyPoints, FreePoints,
       AppendPoints, StorePoints, CallOK

\* At these points there is none.
LEMMA NoRecord ==
  ASSUME NEW K \in SUBSET Keys, TypeOK, CallOK, LockOK, NEW nxt, NEW gone, ListInv(nxt, gone), Safe(K, gone),
         NEW p \in Procs, pc[p] \in StoringPoints, call[p].key \in K,
         NEW n \in Records
  PROVE  idx[n].key # call[p].key
<1>1. pc[p] \in ChainHeld /\ ~Unlinked(p)
  BY StoringHeld
<1>2. PICK C \in Chains : C = ChainOff(p)
  BY <1>1, HasChain DEF ChainHeld
<1>3. \A m \in Members(C, gone) : idx[m].key # call[p].key
  BY <1>2, InvParts DEF ChainKnown, StoringPoints
<1>. QED
  BY <1>1, <1>2, <1>3, OnChain

\* A key with no record that nobody is storing is not in the store.
LEMMA Absent ==
  ASSUME NEW K \in SUBSET Keys, TypeOK, CallOK, LockOK, StoreInv(K), NEW p \in Procs, pc[p] \in ChainHeld,
         ~Storing(p), call[p].key \in K,
         \A n \in Records : idx[n].key # call[p].key
  PROVE  store[call[p].key] = NONE
<1>1. call[p].key \in Keys
  BY HasChain DEF ChainHeld
<1>2. ASSUME NEW q \in Procs, Storing(q), call[q].key = call[p].key PROVE FALSE
  <2>1. pc[q] \in ChainHeld /\ call[q].op # "fetch" /\ q # p
    BY <1>2, StoringHeld DEF Storing, StoringPoints
  <2>. QED
    BY <1>2, <2>1, KeyApart
<1>. QED
  BY <1>1, <1>2 DEF StoreInv, StoreFound

\* One with a record is, and unless it is being deleted with these data.
LEMMA Present ==
  ASSUME NEW K \in SUBSET Keys, TypeOK, CallOK, LockOK, StoreInv(K), NEW p \in Procs, pc[p] \in ChainHeld,
         call[p].key \in K,
         NEW n \in Records, idx[n].key = call[p].key
  PROVE  /\ store[call[p].key] # NONE
         /\ pc[p] \notin {"del_readfree", "del_idx"} => dat[idx[n].datoff].data = store[call[p].key]
<1>1. call[p].key \in Keys /\ idx[n].key # BLANK
  BY HasChain, ConstantsAssumption DEF ChainHeld
<1>2. store[call[p].key] # NONE /\ (Blanked(n) \/ dat[idx[n].datoff].data = store[call[p].key])
  BY <1>1 DEF StoreInv, StoreFiled
<1>3. ASSUME pc[p] \notin {"del_readfree", "del_idx"}, Blanked(n) PROVE FALSE
  <2>1. PICK q \in Procs : pc[q] \in {"del_readfree", "del_idx"} /\ db[q].idxoff = n
    BY <1>3 DEF Blanked
  <2>2. idx[n].key = call[q].key
    BY <2>1 DEF StoreInv, CallKnows, RecordPoints, DeletingPoints, HasRecord
  <2>3. pc[q] \in ChainHeld /\ call[q].op # "fetch" /\ q # p
    BY <1>3, <2>1 DEF ChainHeld, KeyPoints, DeletePoints, CallOK
  <2>. QED
    BY <2>2, <2>3, KeyApart
<1>. QED
  BY <1>2, <1>3

-----------------------------------------------------------------------------
\* The instants at which a call takes effect are those of KeyedStore

LEMMA FetchPromise ==
  ASSUME NEW p \in Procs, call[p].op = "fetch", ret[p] = Abs!Pending, store' = store, call' = call,
         NEW r, Answer(p, r),
         r = Abs!Result(IF store[call[p].key] = NONE THEN -1 ELSE 0, call[p].key, store[call[p].key])
  PROVE  Promise
BY DEF Promise, Answer, Abs!Next, Abs!Fetch, Abs!Answer

LEMMA DeletePromise ==
  ASSUME NEW p \in Procs, call[p].op = "delete", ret[p] = Abs!Pending, call' = call,
         store' = [store EXCEPT ![call[p].key] = NONE],
         NEW r, Answer(p, r),
         r = Abs!Result(IF store[call[p].key] = NONE THEN -1 ELSE 0, call[p].key, NONE)
  PROVE  Promise
BY DEF Promise, Answer, Abs!Next, Abs!Delete, Abs!Answer

LEMMA StorePromise ==
  ASSUME NEW p \in Procs, call[p].op = "store", ret[p] = Abs!Pending, call' = call,
         NEW r, Answer(p, r),
         r = Abs!Result(Abs!StoreOutcome(call[p].flag, store[call[p].key] # NONE), call[p].key, NONE),
         store' = IF Abs!StoreOutcome(call[p].flag, store[call[p].key] # NONE) = 0
                  THEN [store EXCEPT ![call[p].key] = call[p].data] ELSE store
  PROVE  Promise
BY DEF Promise, Answer, Abs!Next, Abs!Store, Abs!Answer

LEMMA NextrecPromise ==
  ASSUME NEW p \in Procs, call[p].op = "nextrec", ret[p] = Abs!Pending, store' = store, call' = call,
         \/ Answer(p, Abs!Result(-1, NONE, NONE))
         \/ \E k \in Keys : store[k] # NONE /\ Answer(p, Abs!Result(0, k, store[k]))
  PROVE  Promise
BY DEF Promise, Answer, Abs!Next, Abs!Nextrec, Abs!Answer

LEMMA ReturnPromise ==
  ASSUME NEW p \in Procs, ret[p] # Abs!Pending, NEW from, NEW r, Return(p, from, r)
  PROVE  Promise
BY DEF Promise, Return, Abs!Next, Abs!Return

\* A result is not the pending one.
LEMMA Given ==
  ASSUME NEW rc, NEW k, NEW d, k \in Keys \/ rc # 0
  PROVE  Abs!Result(rc, k, d) # Abs!Pending
BY ConstantsAssumption DEF Abs!Result, Abs!Pending

LEMMA AnswerEffect ==
  ASSUME TypeOK, NEW p \in Procs, NEW r, Answer(p, r)
  PROVE  ret'[p] = r /\ \A q \in Procs : q # p => ret'[q] = ret[q]
BY DEF Answer, TypeOK

\* What there is to know of a call at its simplest points.
Before == FindPoints \cup {"idle", "scan_lock", "scan_read"}
After == {"unlock_chain", "scan_unlock"}

LEMMA PlainKnows ==
  ASSUME NEW K \in SUBSET Keys, NEW p \in Procs,
         \/ pc'[p] \in Before /\ ret'[p] = Abs!Pending
         \/ pc'[p] \in After /\ ret'[p] # Abs!Pending
         \/ pc'[p] \in Ended
  PROVE  CallKnows(p, K)'
<1>1. /\ pc'[p] \notin RecordPoints /\ pc'[p] # "readdat" /\ pc'[p] \notin DeletePoints \cup {"overwrite", "reread_head"}
      /\ pc'[p] # "scan_dat" /\ pc'[p] \notin FilledPoints /\ pc'[p] \notin KeyGonePoints \ {"idx_unlock", "link"}
  BY DEF Before, After, Ended, Killed, FindPoints, RecordPoints, DeletingPoints, DeletePoints, FilledPoints, FreshPoints,
         KeyGonePoints, FreePoints, AppendPoints, StorePoints
<1>2. pc'[p] \notin Ended => (Answered(p)' <=> ret'[p] # Abs!Pending)
  BY DEF Answered, Before, After, FindPoints
<1>. QED
  BY <1>1, <1>2 DEF CallKnows, Storing

\* At such a point the call is pending, or answered.
LEMMA Waits ==
  ASSUME NEW K \in SUBSET Keys, StoreInv(K), NEW p \in Procs
  PROVE  /\ pc[p] \in Before \cup RecordPoints \cup FreePoints \cup {"scan_dat"} => ret[p] = Abs!Pending
         /\ pc[p] \in {"dat_append", "idx_append", "reuse_idx", "reuse_dat"} => ret[p] = Abs!Pending
         /\ pc[p] \in After => ret[p] # Abs!Pending
<1>1. pc[p] \notin Ended => (Answered(p) <=> ret[p] # Abs!Pending)
  BY DEF StoreInv, CallKnows
<1>2. pc[p] \in Before \cup RecordPoints \cup FreePoints \cup {"scan_dat", "dat_append", "idx_append", "reuse_idx", "reuse_dat"}
      => pc[p] \notin Ended /\ ~Answered(p)
  BY DEF Answered, Before, Ended, Killed, FindPoints, FreePoints, RecordPoints, DeletingPoints
<1>3. pc[p] \in After => pc[p] \notin Ended /\ Answered(p)
  BY DEF Answered, After, Ended, Killed
<1>. QED
  BY <1>1, <1>2, <1>3

LEMMA FoundStore ==
  ASSUME NEW K \in SUBSET Keys, TypeOK, TypeOK', CallOK, LockOK, DataInv, StoreInv(K), NEW p \in Procs, Found(p)
  PROVE  StoreInv(K)' /\ (K = Keys => Promise)
<1>. DEFINE n == db[p].cur
            to == AfterFound(call[p], idx[n].datlen)
<1>1. /\ Step(p, "walk", to) /\ Handles(p, Readidx(p, n)) /\ idx' = idx /\ dat' = dat /\ store' = store
      /\ n \in DOMAIN idx /\ idx[n].key = call[p].key
      /\ IF call[p].flag = "DB_INSERT" THEN Answer(p, Abs!Result(1, call[p].key, NONE)) ELSE ret' = ret
  BY DEF Found, files
<1>2. /\ pc[p] = "walk" /\ pc'[p] = to /\ call' = call /\ Alone(p)
      /\ db'[p] = Readidx(p, n) /\ db[p] \in Handle
  BY <1>1, StepEffect, ProcType
<1>3. /\ db'[p].idxoff = n /\ db'[p].datoff = idx[n].datoff /\ db'[p].datlen = idx[n].datlen
  BY <1>2 DEF Handle, Readidx
<1>4. /\ call[p].op \in {"fetch", "delete", "store"} /\ call[p].key \in Keys
      /\ call[p].flag = "DB_INSERT" => call[p].op = "store"
      /\ pc[p] \in ChainHeld /\ ~Unlinked(p) /\ ~Storing(p) /\ ret[p] = Abs!Pending
  <2>1. pc[p] \in KeyPoints /\ pc[p] \in ChainHeld /\ ~Unlinked(p) /\ ~Storing(p)
    BY <1>2 DEF KeyPoints, FindPoints, ChainHeld, Unlinked, Storing, KeyGonePoints, FreePoints, AppendPoints, StorePoints
  <2>2. call[p] \in Abs!Calls /\ call[p].key \in Keys
    BY <2>1, KeyedCall
  <2>3. "DB_INSERT" # NONE
    BY ConstantsAssumption DEF Abs!Flags
  <2>. QED
    BY <1>2, <2>1, <2>2, <2>3, CallFields, Waits DEF CallOK, Before, FindPoints
<1>5. /\ to \in {"readdat", "unlock_chain", "overwrite", "del_lock"}
      /\ to = "unlock_chain" <=> call[p].flag = "DB_INSERT"
      /\ to = "readdat" => call[p].op = "fetch"
  <2>1. call[p].flag # "DB_INSERT" \/ call[p].op = "store"
    BY <1>4
  <2>. QED
    BY <1>4, <2>1 DEF AfterFound
<1>. HIDE DEF to
<1>6. n \in Records /\ Records' = Records
  BY <1>1, Sets DEF Records
<1>. HIDE DEF n
<1>7. SameStore
  BY <1>1, SameFiles
<1>8. CASE call[p].flag = "DB_INSERT"
  <2>1. /\ Answer(p, Abs!Result(1, call[p].key, NONE)) /\ call[p].op = "store"
        /\ Abs!Result(1, call[p].key, NONE) # Abs!Pending
    BY <1>1, <1>4, <1>8, Given
  <2>2. ret'[p] # Abs!Pending /\ \A q \in Procs : q # p => ret'[q] = ret[q]
    BY <2>1, AnswerEffect
  <2>3. CallKnows(p, K)'
    BY <1>2, <1>5, <1>8, <2>2, PlainKnows DEF After
  <2>4. StoreInv(K)'
    BY <1>2, <1>4, <1>7, <2>2, <2>3, SameStoreParts
  <2>5. K = Keys => store[call[p].key] # NONE
    BY <1>1, <1>4, <1>6, Present
  <2>6. K = Keys => Abs!StoreOutcome(call[p].flag, store[call[p].key] # NONE) = 1 /\ 1 # 0
    BY <1>8, <2>5 DEF Abs!StoreOutcome
  <2>7. K = Keys => Promise
    <3>. SUFFICES ASSUME K = Keys PROVE Promise
      OBVIOUS
    <3>1. PICK r : r = Abs!Result(1, call[p].key, NONE)
      OBVIOUS
    <3>2. /\ r = Abs!Result(Abs!StoreOutcome(call[p].flag, store[call[p].key] # NONE), call[p].key, NONE)
          /\ Abs!StoreOutcome(call[p].flag, store[call[p].key] # NONE) # 0
      BY <2>6, <3>1
    <3>3. Answer(p, r) /\ store' = store /\ call' = call
      BY <1>1, <1>2, <2>1, <3>1
    <3>. QED
      BY <1>4, <2>1, <3>2, <3>3, StorePromise
  <2>. QED
    BY <2>4, <2>7
<1>9. CASE call[p].flag # "DB_INSERT"
  <2>1. ret' = ret /\ to \in {"readdat", "overwrite", "del_lock"}
    BY <1>1, <1>5, <1>9
  <2>2. HasRecord(p)'
    BY <1>1, <1>2, <1>3, <1>6 DEF HasRecord
  <2>3. ~Storing(p)' /\ ~Answered(p)' /\ pc'[p] # "scan_dat" /\ pc'[p] \notin FilledPoints
    BY <1>2, <2>1 DEF Storing, Answered, KeyGonePoints, FreePoints, AppendPoints, StorePoints, FilledPoints, FreshPoints
  <2>4. CallKnows(p, K)'
    BY <1>2, <1>4, <1>5, <1>9, <2>1, <2>2, <2>3 DEF CallKnows
  <2>5. StoreInv(K)'
    BY <1>2, <1>4, <1>7, <2>1, <2>4, SameStoreParts
  <2>. QED
    BY <1>1, <1>2, <2>1, <2>5 DEF Promise
<1>. QED
  BY <1>8, <1>9

LEMMA NotFoundStore ==
  ASSUME NEW K \in SUBSET Keys, TypeOK, TypeOK', CallOK, LockOK, DataInv, StoreInv(K), NEW nxt, NEW gone,
         ListInv(nxt, gone), Safe(K, gone), NEW p \in Procs, NotFound(p)
  PROVE  StoreInv(K)' /\ (K = Keys => Promise)
<1>1. /\ pc[p] = "walk" /\ call' = call /\ Alone(p) /\ idx' = idx /\ dat' = dat /\ store' = store /\ db' = db
      /\ db[p].cur = 0
      /\ IF call[p].flag \in {"DB_INSERT", "DB_STORE"}
         THEN pc'[p] = "read_head" /\ ret' = ret
         ELSE pc'[p] = "unlock_chain" /\ Answer(p, Abs!Result(-1, call[p].key, NONE))
  <2>1. CASE call[p].flag \in {"DB_INSERT", "DB_STORE"}
    BY <2>1, StepEffect DEF NotFound, files
  <2>2. CASE call[p].flag \notin {"DB_INSERT", "DB_STORE"}
    BY <2>2, StepEffect DEF NotFound, files
  <2>. QED
    BY <2>1, <2>2
<1>2. /\ pc[p] \in ChainHeld /\ ~Unlinked(p) /\ ~Storing(p) /\ ret[p] = Abs!Pending
      /\ call[p].key \in Keys /\ call[p] \in Abs!Calls /\ call[p].op \in {"fetch", "delete", "store"}
  <2>1. pc[p] \in KeyPoints /\ pc[p] \in ChainHeld /\ ~Unlinked(p) /\ ~Storing(p)
    BY <1>1 DEF KeyPoints, FindPoints, ChainHeld, Unlinked, Storing, KeyGonePoints, FreePoints, AppendPoints, StorePoints
  <2>. QED
    BY <1>1, <2>1, KeyedCall, Waits DEF CallOK, Before, FindPoints
<1>3. ASSUME call[p].key \in K PROVE \A n \in Records : idx[n].key # call[p].key
  <2>a. ~Astray(p, ChainOff(p), gone)
    BY <1>3 DEF Astray, Safe, ChainOff
  <2>1. PICK c \in Chains : c = ChainOff(p) /\ Walked(p, c, nxt, gone)
    BY <1>1, <2>a, WalkAt
  <2>2. PICK V \in SUBSET Members(c, gone) :
            /\ nxt[c] \in V \cup {0}
            /\ \A n \in V : nxt[n] \in V \cup {0} /\ idx[n].key # call[p].key
    BY <1>1, <2>1 DEF Walked
  <2>3. IsList(c, Members(c, gone), nxt) /\ 0 \notin Members(c, gone)
    BY InvParts, Sets
  <2>4. Members(c, gone) \subseteq V
    BY <2>2, <2>3, ListWithin
  <2>. QED
    BY <1>2, <1>3, <2>1, <2>2, <2>4, OnChain
<1>4. call[p].key \in K => store[call[p].key] = NONE
  BY <1>2, <1>3, Absent
<1>5. SameStore
  BY <1>1, SameFiles
<1>6. CASE call[p].flag \in {"DB_INSERT", "DB_STORE"}
  <2>1. pc'[p] = "read_head" /\ ret' = ret
    BY <1>1, <1>6
  <2>2. "DB_INSERT" # "DB_REPLACE" /\ "DB_STORE" # "DB_REPLACE"
    OBVIOUS
  <2>3. StoringOK(p, K)'
    BY <1>1, <1>4, <1>6, <2>2 DEF StoringOK
  <2>4. /\ pc'[p] \notin RecordPoints /\ pc'[p] \notin DeletePoints \cup {"overwrite", "reread_head"}
        /\ pc'[p] # "scan_dat" /\ pc'[p] \notin FilledPoints /\ ~Answered(p)'
    BY <2>1 DEF RecordPoints, DeletingPoints, DeletePoints, FilledPoints, FreshPoints, Answered
  <2>5. CallKnows(p, K)'
    BY <1>2, <2>1, <2>3, <2>4 DEF CallKnows
  <2>6. StoreInv(K)'
    BY <1>1, <1>2, <1>5, <2>1, <2>5, SameStoreParts
  <2>. QED
    BY <1>1, <2>1, <2>6 DEF Promise
<1>7. CASE call[p].flag \notin {"DB_INSERT", "DB_STORE"}
  <2>1. pc'[p] = "unlock_chain" /\ Answer(p, Abs!Result(-1, call[p].key, NONE))
    BY <1>1, <1>7
  <2>2. ret'[p] # Abs!Pending /\ \A q \in Procs : q # p => ret'[q] = ret[q]
    BY <2>1, AnswerEffect, Given
  <2>3. CallKnows(p, K)'
    BY <2>1, <2>2, PlainKnows DEF After
  <2>4. StoreInv(K)'
    BY <1>1, <1>2, <1>5, <2>2, <2>3, SameStoreParts
  <2>a. PICK r : r = Abs!Result(-1, call[p].key, NONE)
    OBVIOUS
  <2>b. Answer(p, r) /\ store' = store /\ call' = call
    BY <1>1, <2>1, <2>a
  <2>c. K = Keys => Promise
    <3>. SUFFICES ASSUME K = Keys PROVE Promise
      OBVIOUS
    <3>1. store[call[p].key] = NONE
      BY <1>2, <1>4
    <3>5. CASE call[p].op = "fetch"
      <4>1. r = Abs!Result(IF store[call[p].key] = NONE THEN -1 ELSE 0, call[p].key, store[call[p].key])
        BY <2>a, <3>1
      <4>. QED
        BY <1>2, <2>b, <3>5, <4>1, FetchPromise
    <3>6. CASE call[p].op = "delete"
      <4>1. store' = [store EXCEPT ![call[p].key] = NONE]
        BY <1>1, <1>2, <3>1 DEF TypeOK
      <4>2. r = Abs!Result(IF store[call[p].key] = NONE THEN -1 ELSE 0, call[p].key, NONE)
        BY <2>a, <3>1
      <4>. QED
        BY <1>2, <2>b, <3>6, <4>1, <4>2, DeletePromise
    <3>7. CASE call[p].op = "store"
      <4>1. call[p].flag = "DB_REPLACE"
        BY <1>2, <1>7, <3>7, CallFields DEF Abs!Flags
      <4>2. Abs!StoreOutcome(call[p].flag, store[call[p].key] # NONE) = -1 /\ -1 # 0
        BY <3>1, <4>1 DEF Abs!StoreOutcome
      <4>3. /\ r = Abs!Result(Abs!StoreOutcome(call[p].flag, store[call[p].key] # NONE), call[p].key, NONE)
            /\ Abs!StoreOutcome(call[p].flag, store[call[p].key] # NONE) # 0
        BY <2>a, <4>2
      <4>. QED
        BY <1>2, <2>b, <3>7, <4>3, StorePromise
    <3>. QED
      BY <1>2, <3>5, <3>6, <3>7
  <2>. QED
    BY <2>4, <2>c
<1>. QED
  BY <1>6, <1>7

-----------------------------------------------------------------------------
\* The instant at which a fetch takes effect, and the returns

LEMMA ReturnStore ==
  ASSUME NEW K \in SUBSET Keys, TypeOK, TypeOK', DataInv, StoreInv(K), NEW p \in Procs,
         UnlockChain(p) \/ ScanUnlock(p)
  PROVE  StoreInv(K)' /\ Promise
<1>1. PICK from, r : Return(p, from, r) /\ from \in After
  BY DEF UnlockChain, ScanUnlock, After
<1>2. /\ pc[p] = from /\ pc'[p] = "idle" /\ Alone(p) /\ idx' = idx /\ dat' = dat /\ store' = store
      /\ ret'[p] = Abs!Pending /\ \A q \in Procs : q # p => ret'[q] = ret[q]
  BY <1>1, ReturnEffect DEF Return, files, TypeOK
<1>3. ret[p] # Abs!Pending
  BY <1>1, <1>2, Waits
<1>4. Promise
  BY <1>1, <1>3, ReturnPromise
<1>5. CallKnows(p, K)'
  BY <1>2, PlainKnows DEF Before
<1>6. SameStore
  BY <1>2, SameFiles
<1>7. ~Storing(p) /\ pc[p] \notin {"del_readfree", "del_idx"}
  BY <1>1, <1>2 DEF After, Storing, KeyGonePoints, FreePoints, AppendPoints, StorePoints
<1>8. StoreInv(K)'
  BY <1>2, <1>5, <1>6, <1>7, SameStoreParts
<1>. QED
  BY <1>4, <1>8

LEMMA FetchStore ==
  ASSUME NEW K \in SUBSET Keys, TypeOK, TypeOK', CallOK, LockOK, DataInv, StoreInv(K), NEW p \in Procs, FetchData(p)
  PROVE  StoreInv(K)' /\ (K = Keys => Promise)
<1>1. /\ Step(p, "readdat", "unlock_chain") /\ idx' = idx /\ dat' = dat /\ db' = db /\ store' = store
      /\ Answer(p, Abs!Result(0, call[p].key, dat[db[p].datoff].data))
  BY DEF FetchData, files
<1>2. pc[p] = "readdat" /\ pc'[p] = "unlock_chain" /\ call' = call /\ Alone(p)
  BY <1>1, StepEffect
<1>3. HasRecord(p) /\ call[p].op = "fetch" /\ ret[p] = Abs!Pending
  BY <1>2, Waits DEF StoreInv, CallKnows, RecordPoints
<1>4. pc[p] \in ChainHeld /\ ~Storing(p) /\ call[p].key \in Keys
  BY <1>2, HasChain DEF ChainHeld, KeyPoints, Storing, KeyGonePoints, FreePoints, AppendPoints, StorePoints
<1>5. PICK n \in Records : idx[n].key = call[p].key /\ idx[n].datoff = db[p].datoff
  BY <1>3 DEF HasRecord
<1>6. K = Keys => store[call[p].key] # NONE /\ dat[db[p].datoff].data = store[call[p].key]
  BY <1>2, <1>4, <1>5, Present
<1>7. ret'[p] # Abs!Pending /\ \A q \in Procs : q # p => ret'[q] = ret[q]
  BY <1>1, <1>4, AnswerEffect, Given
<1>8. CallKnows(p, K)'
  BY <1>2, <1>7, PlainKnows DEF After
<1>9. SameStore
  BY <1>1, SameFiles
<1>10. StoreInv(K)'
  BY <1>2, <1>4, <1>7, <1>8, <1>9, SameStoreParts
<1>11. K = Keys => Promise
  <2>. SUFFICES ASSUME K = Keys PROVE Promise
    OBVIOUS
  <2>1. PICK r : r = Abs!Result(0, call[p].key, dat[db[p].datoff].data)
    OBVIOUS
  <2>2. r = Abs!Result(IF store[call[p].key] = NONE THEN -1 ELSE 0, call[p].key, store[call[p].key])
    BY <1>6, <2>1
  <2>3. Answer(p, r)
    BY <1>1, <2>1
  <2>. QED
    BY <1>1, <1>2, <1>3, <2>2, <2>3, FetchPromise
<1>. QED
  BY <1>10, <1>11

-----------------------------------------------------------------------------
\* Steps of a writer of a key, and of the record n that it writes if any

\* The invariant after the step: what concerns record n and the key is to be
\* shown, and that nothing else has changed.
LEMMA WriterParts ==
  ASSUME NEW K \in SUBSET Keys, TypeOK, TypeOK', CallOK, LockOK, DataInv, StoreInv(K), NEW p \in Procs, Alone(p),
         pc[p] \in ChainHeld, call[p].op # "fetch", call'[p] = call[p],
         \A q \in Procs : q # p => ret'[q] = ret[q],
         NEW k \in Keys, k = call[p].key, NEW n,
         \A j \in Keys \ {k} : store'[j] = store[j],
         Records' \subseteq Records \cup {n}, Records \subseteq Records',
         \A m \in Records \ {n} :
            /\ idx'[m].key = idx[m].key /\ dat'[idx[m].datoff].data = dat[idx[m].datoff].data,
         \A m \in Records : idx'[m].datoff = idx[m].datoff /\ idx'[m].datlen = idx[m].datlen,
         n \in Records => idx[n].key \in {BLANK, k}, n \in Records' => idx'[n].key \in {BLANK, k},
         idx' = idx \/ pc[p] \in FreeHeld \/ (n \in Records => idx[n].key = BLANK),
         k \in K => \A m \in Records \ {n} : idx[m].key # k,
         pc[p] \in {"del_readfree", "del_idx"} => db[p].idxoff = n,
         \A q \in Procs : q # p /\ pc[q] \in FilledPoints =>
            db[q].datoff \in DOMAIN dat' /\ dat'[db[q].datoff].data = dat[db[q].datoff].data,
         CallKnows(p, K)',
         k \in K /\ n \in Records' /\ idx'[n].key = k =>
            store'[k] # NONE /\ (Blanked(n)' \/ dat'[idx'[n].datoff].data = store'[k]),
         k \in K /\ store'[k] # NONE => (n \in Records' /\ idx'[n].key = k) \/ Storing(p)'
  PROVE  StoreInv(K)'
<1>1. ASSUME NEW q \in Procs, q # p, pc[q] \in ChainHeld PROVE call[q].key # k /\ call[q].key \in Keys
  BY <1>1, KeyApart, HasChain DEF ChainHeld
<1>2. k # BLANK /\ BLANK \notin K
  BY ConstantsAssumption
<1>3. ASSUME NEW q \in Procs, q # p PROVE CallKnows(q, K)'
  <2>1. pc'[q] = pc[q] /\ db'[q] = db[q] /\ call'[q] = call[q] /\ ret'[q] = ret[q] /\ CallKnows(q, K)
    BY <1>3 DEF Alone, StoreInv
  <2>. DEFINE m == db[q].idxoff
  <2>3. ASSUME pc[q] \in RecordPoints PROVE m \in Records /\ idx'[m].key = idx[m].key
    <3>1. m \in Records /\ idx[m].key = call[q].key
      BY <2>1, <2>3 DEF CallKnows, HasRecord
    <3>2. pc[q] \in ChainHeld
      BY <2>3 DEF RecordPoints, DeletingPoints, ChainHeld, KeyPoints, DeletePoints, StoreOnlyPoints, StorePoints
    <3>3. call[q].key # k /\ call[q].key \in Keys /\ call[q].key # BLANK
      BY <1>1, <1>3, <3>2, ConstantsAssumption
    <3>4. m # n
      BY <3>1, <3>3
    <3>. QED
      BY <3>1, <3>4
  <2>4. ASSUME pc[q] = "scan_dat" PROVE m \in Records /\ idx'[m].key = idx[m].key
    <3>1. m \in Records /\ idx[m].key # BLANK
      BY <2>1, <2>4 DEF CallKnows, ScanHas
    <3>2. pc[p] \notin FreeHeld
      BY <1>3, <2>4, LocksGuard DEF CriticalSections, ScanHeld, ScanPoints
    <3>. QED
      BY <3>1, <3>2
  <2>5. pc[q] \in RecordPoints \cup {"scan_dat"} =>
           /\ m \in Records' /\ idx'[m].key = idx[m].key
           /\ idx'[m].datoff = idx[m].datoff /\ idx'[m].datlen = idx[m].datlen
    BY <2>3, <2>4
  <2>6. Storing(q) => store'[call[q].key] = store[call[q].key]
    <3>. SUFFICES ASSUME Storing(q) PROVE store'[call[q].key] = store[call[q].key]
      OBVIOUS
    <3>1. pc[q] \in ChainHeld
      BY StoringHeld DEF Storing, StoringPoints
    <3>. QED
      BY <1>1, <1>3, <3>1
  <2>7. pc[q] \in FilledPoints => db[q].datoff \in DOMAIN dat' /\ dat'[db[q].datoff].data = dat[db[q].datoff].data
    BY <1>3
  <2>. QED
    BY <2>1, <2>5, <2>6, <2>7, OthersKnow
<1>4. StoreFiled(K)'
  <2>. SUFFICES ASSUME NEW m \in Records', idx'[m].key \in K
                PROVE  /\ store'[idx'[m].key] # NONE
                       /\ Blanked(m)' \/ dat'[idx'[m].datoff].data = store'[idx'[m].key]
    BY DEF StoreFiled
  <2>1. CASE m = n
    BY <1>2, <2>1
  <2>2. CASE m # n
    <3>1. m \in Records /\ idx'[m].key = idx[m].key /\ idx'[m].datoff = idx[m].datoff
          /\ dat'[idx[m].datoff].data = dat[idx[m].datoff].data /\ idx[m].key # k
      BY <2>2
    <3>2. idx[m].key \in Keys
      BY <3>1, Sets, ReadidxType DEF IdxRec
    <3>3. store'[idx[m].key] = store[idx[m].key]
      BY <3>1, <3>2
    <3>4. store[idx[m].key] # NONE /\ (Blanked(m) \/ dat[idx[m].datoff].data = store[idx[m].key])
      BY <3>1 DEF StoreInv, StoreFiled
    <3>5. Blanked(m) => Blanked(m)'
      <4>. SUFFICES ASSUME Blanked(m) PROVE Blanked(m)'
        OBVIOUS
      <4>1. PICK q \in Procs : pc[q] \in {"del_readfree", "del_idx"} /\ db[q].idxoff = m
        BY DEF Blanked
      <4>2. q # p
        BY <2>2, <4>1
      <4>3. pc'[q] = pc[q] /\ db'[q] = db[q]
        BY <4>2 DEF Alone
      <4>. QED
        BY <4>1, <4>3 DEF Blanked
    <3>. QED
      BY <3>1, <3>3, <3>4, <3>5
  <2>. QED
    BY <2>1, <2>2
<1>5. StoreFound(K)'
  <2>. SUFFICES ASSUME NEW j \in K, store'[j] # NONE
                PROVE  \/ \E m \in Records' : idx'[m].key = j
                       \/ \E q \in Procs : Storing(q)' /\ call'[q].key = j
    BY DEF StoreFound
  <2>1. CASE j = k
    BY <2>1
  <2>2. CASE j # k
    <3>1. store[j] # NONE /\ j # BLANK
      BY <2>2, ConstantsAssumption
    <3>2. CASE \E m \in Records : idx[m].key = j
      <4>1. PICK m \in Records : idx[m].key = j
        BY <3>2
      <4>2. m # n
        BY <2>2, <3>1, <4>1
      <4>. QED
        BY <4>1, <4>2
    <3>3. ASSUME NEW q \in Procs, Storing(q), call[q].key = j PROVE Storing(q)' /\ call'[q].key = j
      <4>1. q # p
        BY <2>2, <3>3
      <4>2. pc'[q] = pc[q] /\ call'[q] = call[q]
        BY <4>1 DEF Alone
      <4>. QED
        BY <3>3, <4>2 DEF Storing
    <3>. QED
      BY <3>1, <3>2, <3>3 DEF StoreInv, StoreFound
  <2>. QED
    BY <2>1, <2>2
<1>. QED
  BY <1>3, <1>4, <1>5 DEF StoreInv

-----------------------------------------------------------------------------
\* The data of record n are written, and no others.
LEMMA DataWritten ==
  ASSUME NEW K \in SUBSET Keys, TypeOK, TypeOK', DataInv, StoreInv(K), NEW p \in Procs,
         NEW n \in Records, NEW rec, dat' = Put(dat, idx[n].datoff, rec),
         \A q \in Procs : q # p /\ pc[q] = "reuse_idx" => db[q].idxoff # n
  PROVE  /\ DOMAIN dat' = DOMAIN dat /\ dat'[idx[n].datoff] = rec /\ idx[n].datoff \in DOMAIN dat
         /\ \A m \in Records \ {n} : dat'[idx[m].datoff] = dat[idx[m].datoff]
         /\ \A q \in Procs : q # p /\ pc[q] \in FilledPoints =>
               db[q].datoff \in DOMAIN dat' /\ dat'[db[q].datoff] = dat[db[q].datoff]
<1>1. PICK o : o = idx[n].datoff /\ o \in DOMAIN dat
  BY Sets DEF DataInv, DataOwned
<1>2. \A m \in Records : m # n => idx[m].datoff # o /\ idx[m].datoff \in DOMAIN dat
  BY <1>1, Sets DEF DataInv, DataOwned
<1>3. DOMAIN dat = 1 .. Len(dat) /\ Len(dat) \in Nat
  BY Domains
<1>4. dat' = [dat EXCEPT ![o] = rec]
  <2>1. o # Len(dat) + 1
    BY <1>1, <1>3
  <2>. QED
    BY <1>1, <2>1 DEF Put
<1>5. DOMAIN dat' = DOMAIN dat /\ dat'[o] = rec /\ \A i \in DOMAIN dat : i # o => dat'[i] = dat[i]
  BY <1>1, <1>4
<1>6. ASSUME NEW q \in Procs, q # p, pc[q] \in FilledPoints PROVE db[q].datoff \in DOMAIN dat /\ db[q].datoff # o
  <2>1. db[q].datoff \in DOMAIN dat
    BY <1>6 DEF StoreInv, CallKnows, Filled
  <2>2. CASE pc[q] \in FreshPoints
    <3>1. Fresh(q)
      BY <2>2 DEF DataInv, HandleOK
    <3>. QED
      BY <1>1, <2>1, <3>1, Sets DEF Fresh
  <2>3. CASE pc[q] = "reuse_idx"
    <3>1. Matches(q) /\ db[q].idxoff # n
      BY <1>6, <2>3 DEF DataInv, HandleOK, HasFreeRecord, ReusePoints
    <3>. QED
      BY <1>2, <2>1, <3>1, Sets DEF Matches
  <2>. QED
    BY <1>6, <2>2, <2>3 DEF FilledPoints
<1>. QED
  BY <1>1, <1>2, <1>5, <1>6

\* The record that a writer of a key is at is the one of its key.
LEMMA AtRecord ==
  ASSUME NEW K \in SUBSET Keys, TypeOK, CallOK, LockOK, StoreInv(K), NEW nxt, NEW gone, ListInv(nxt, gone),
         Safe(K, gone), NEW p \in Procs,
         pc[p] \in DeletingPoints \cup {"overwrite"}
  PROVE  /\ pc[p] \in ChainHeld /\ ~Unlinked(p) /\ ~Storing(p) /\ call[p].op \in {"delete", "store"}
         /\ call[p].key \in Keys /\ call[p].flag # "DB_INSERT" /\ ret[p] = Abs!Pending /\ HasRecord(p)
         /\ call[p].key \in K =>
               /\ \A m \in Records : m # db[p].idxoff => idx[m].key # call[p].key
               /\ store[call[p].key] # NONE
         /\ \A q \in Procs : pc[q] = "reuse_idx" => db[q].idxoff # db[p].idxoff
<1>1. /\ pc[p] \in ChainHeld /\ ~Unlinked(p) /\ ~Storing(p) /\ call[p].op \in {"delete", "store"}
      /\ pc[p] \in RecordPoints /\ pc[p] \in DeletePoints \cup {"overwrite", "reread_head"}
  BY DEF DeletingPoints, ChainHeld, KeyPoints, DeletePoints, StoreOnlyPoints, StorePoints, Unlinked, Storing,
         KeyGonePoints, FreePoints, AppendPoints, CallOK, RecordPoints
<1>2. call[p].key \in Keys /\ call[p].key # BLANK
  BY <1>1, HasChain, ConstantsAssumption DEF ChainHeld
<1>3. HasRecord(p) /\ call[p].flag # "DB_INSERT" /\ ret[p] = Abs!Pending
  BY <1>1, Waits DEF StoreInv, CallKnows
<1>4. PICK n \in Records : n = db[p].idxoff /\ idx[n].key = call[p].key
  BY <1>3 DEF HasRecord
<1>5. call[p].key \in K => \A m \in Records : m # n => idx[m].key # call[p].key
  BY <1>1, <1>4, OneRecord
<1>6. call[p].key \in K => store[call[p].key] # NONE
  BY <1>1, <1>4, Present
<1>7. ASSUME NEW q \in Procs, pc[q] = "reuse_idx" PROVE db[q].idxoff # n
  <2>1. idx[db[q].idxoff].key = BLANK
    BY <1>7, InvParts DEF OffListsOK, OffLists, Took
  <2>. QED
    BY <1>2, <1>4, <2>1
<1>. QED
  BY <1>1, <1>2, <1>3, <1>4, <1>5, <1>6, <1>7

LEMMA DelWritedatStore ==
  ASSUME NEW K \in SUBSET Keys, TypeOK, TypeOK', CallOK, LockOK, DataInv, StoreInv(K), NEW nxt, NEW gone,
         ListInv(nxt, gone), Safe(K, gone), NEW p \in Procs, DelWritedat(p)
  PROVE  StoreInv(K)' /\ Promise
<1>. DEFINE rec == [len |-> db[p].datlen, data |-> BLANK]
<1>1. /\ Step(p, "del_dat", "del_readfree") /\ dat' = Put(dat, db[p].datoff, rec)
      /\ idx' = idx /\ db' = db /\ store' = store /\ ret' = ret
  BY DEF DelWritedat, hist
<1>2. pc[p] = "del_dat" /\ pc'[p] = "del_readfree" /\ call' = call /\ Alone(p)
  BY <1>1, StepEffect
<1>3. /\ pc[p] \in ChainHeld /\ ~Storing(p) /\ call[p].op \in {"delete", "store"} /\ call[p].op # "fetch"
      /\ call[p].flag # "DB_INSERT" /\ ret[p] = Abs!Pending /\ HasRecord(p)
      /\ \A q \in Procs : pc[q] = "reuse_idx" => db[q].idxoff # db[p].idxoff
  BY <1>2, AtRecord DEF DeletingPoints
<1>4. PICK k \in Keys : /\ k = call[p].key
                        /\ k \in K => store[k] # NONE /\ \A m \in Records \ {db[p].idxoff} : idx[m].key # k
  BY <1>2, AtRecord DEF DeletingPoints
<1>5. PICK n \in Records : n = db[p].idxoff /\ idx[n].key = k /\ idx[n].datoff = db[p].datoff
  BY <1>3, <1>4 DEF HasRecord
<1>. HIDE DEF rec
<1>6. /\ DOMAIN dat' = DOMAIN dat /\ dat'[idx[n].datoff] = rec /\ idx[n].datoff \in DOMAIN dat
      /\ \A m \in Records \ {n} : dat'[idx[m].datoff] = dat[idx[m].datoff]
      /\ \A q \in Procs : q # p /\ pc[q] \in FilledPoints =>
            db[q].datoff \in DOMAIN dat' /\ dat'[db[q].datoff] = dat[db[q].datoff]
  <2>1. dat' = Put(dat, idx[n].datoff, rec)
    BY <1>1, <1>5
  <2>2. \A q \in Procs : q # p /\ pc[q] = "reuse_idx" => db[q].idxoff # n
    BY <1>3, <1>5
  <2>. QED
    BY ONLY K \in SUBSET Keys, TypeOK, TypeOK', DataInv, StoreInv(K), <2>1, <2>2, DataWritten
<1>7. HasRecord(p)' /\ ~Storing(p)' /\ ~Answered(p)' /\ pc'[p] \notin FilledPoints /\ pc'[p] \notin {"readdat", "scan_dat"}
  BY <1>1, <1>2, <1>3 DEF HasRecord, Records, Storing, Answered, KeyGonePoints, FreePoints, AppendPoints,
     StorePoints, FilledPoints, FreshPoints
<1>8. CallKnows(p, K)'
  BY <1>1, <1>2, <1>3, <1>7 DEF CallKnows
<1>9. Records' = Records /\ n \in Records' /\ idx'[n].key = k
  BY <1>1, <1>5 DEF Records
<1>10. Blanked(n)'
  BY <1>1, <1>2, <1>5 DEF Blanked
<1>11. StoreInv(K)'
  BY <1>1, <1>2, <1>3, <1>4, <1>5, <1>6, <1>8, <1>9, <1>10, WriterParts
<1>. QED
  BY <1>1, <1>2, <1>11 DEF Promise

\* A store takes effect.
LEMMA StoredPromise ==
  ASSUME NEW p \in Procs, call[p].op = "store", ret[p] = Abs!Pending, call' = call, Stored(p),
         call[p].flag = "DB_INSERT" => store[call[p].key] = NONE,
         call[p].flag = "DB_REPLACE" => store[call[p].key] # NONE
  PROVE  Promise
<1>1. Abs!StoreOutcome(call[p].flag, store[call[p].key] # NONE) = 0
  BY DEF Abs!StoreOutcome
<1>2. PICK r : r = Abs!Result(0, call[p].key, NONE)
  OBVIOUS
<1>3. Answer(p, r) /\ store' = [store EXCEPT ![call[p].key] = call[p].data]
  BY <1>2 DEF Stored
<1>4. r = Abs!Result(Abs!StoreOutcome(call[p].flag, store[call[p].key] # NONE), call[p].key, NONE)
  BY <1>1, <1>2
<1>. QED
  BY <1>1, <1>3, <1>4, StorePromise

LEMMA StoredEffect ==
  ASSUME TypeOK, CallOK, NEW p \in Procs, pc[p] \in StoreOnlyPoints, Stored(p)
  PROVE  /\ call[p].op = "store" /\ call[p].key \in Keys
         /\ store'[call[p].key] = call[p].data /\ call[p].data # NONE
         /\ \A j \in Keys \ {call[p].key} : store'[j] = store[j]
         /\ ret'[p] # Abs!Pending /\ \A q \in Procs : q # p => ret'[q] = ret[q]
<1>1. call[p].op = "store" /\ call[p].key \in Keys /\ call[p].data \in Data /\ call[p].data # NONE
  BY StoreCallData, ConstantsAssumption
<1>2. \A q \in Procs : q # p => ret'[q] = ret[q]
  BY AnswerEffect DEF Stored
<1>3. ret'[p] # Abs!Pending
  BY <1>1, AnswerEffect, Given DEF Stored
<1>. QED
  BY <1>1, <1>2, <1>3 DEF Stored, TypeOK

LEMMA OverwriteStore ==
  ASSUME NEW K \in SUBSET Keys, TypeOK, TypeOK', CallOK, LockOK, DataInv, StoreInv(K), NEW nxt, NEW gone,
         ListInv(nxt, gone), Safe(K, gone), NEW p \in Procs, Overwrite(p)
  PROVE  StoreInv(K)' /\ (K = Keys => Promise)
<1>. DEFINE rec == [len |-> DatLen[call[p].data], data |-> call[p].data]
<1>1. /\ Step(p, "overwrite", "unlock_chain") /\ dat' = Put(dat, db[p].datoff, rec)
      /\ Handles(p, [db[p] EXCEPT !.datlen = DatLen[call[p].data]]) /\ idx' = idx /\ Stored(p)
  BY DEF Overwrite, WritedatAt
<1>13. rec.data = call[p].data
  OBVIOUS
<1>. HIDE DEF rec
<1>2. pc[p] = "overwrite" /\ pc'[p] = "unlock_chain" /\ call' = call /\ Alone(p)
  BY <1>1, StepEffect
<1>3. /\ pc[p] \in ChainHeld /\ call[p].op \in {"delete", "store"} /\ call[p].op # "fetch"
      /\ call[p].flag # "DB_INSERT" /\ ret[p] = Abs!Pending /\ HasRecord(p)
      /\ \A q \in Procs : pc[q] = "reuse_idx" => db[q].idxoff # db[p].idxoff
  BY <1>2, AtRecord
<1>4. PICK k \in Keys : /\ k = call[p].key
                        /\ k \in K => store[k] # NONE /\ \A m \in Records \ {db[p].idxoff} : idx[m].key # k
  BY <1>2, AtRecord
<1>5. PICK n \in Records : n = db[p].idxoff /\ idx[n].key = k /\ idx[n].datoff = db[p].datoff
  BY <1>3, <1>4 DEF HasRecord
<1>6. /\ DOMAIN dat' = DOMAIN dat /\ dat'[idx[n].datoff] = rec /\ idx[n].datoff \in DOMAIN dat
      /\ \A m \in Records \ {n} : dat'[idx[m].datoff] = dat[idx[m].datoff]
      /\ \A q \in Procs : q # p /\ pc[q] \in FilledPoints =>
            db[q].datoff \in DOMAIN dat' /\ dat'[db[q].datoff] = dat[db[q].datoff]
  <2>1. dat' = Put(dat, idx[n].datoff, rec)
    BY <1>1, <1>5
  <2>2. \A q \in Procs : q # p /\ pc[q] = "reuse_idx" => db[q].idxoff # n
    BY <1>3, <1>5
  <2>. QED
    BY ONLY K \in SUBSET Keys, TypeOK, TypeOK', DataInv, StoreInv(K), <2>1, <2>2, DataWritten
<1>7. /\ call[p].op = "store" /\ store'[k] = call[p].data /\ store'[k] # NONE
      /\ \A j \in Keys \ {k} : store'[j] = store[j]
      /\ ret'[p] # Abs!Pending /\ \A q \in Procs : q # p => ret'[q] = ret[q]
  BY <1>1, <1>2, <1>4, StoredEffect DEF StoreOnlyPoints, StorePoints
<1>8. CallKnows(p, K)'
  BY <1>2, <1>7, PlainKnows DEF After
<1>9. Records' = Records /\ n \in Records' /\ idx'[n].key = k /\ dat'[idx'[n].datoff].data = store'[k]
  BY <1>1, <1>5, <1>6, <1>7, <1>13 DEF Records
<1>10. pc[p] \notin {"del_readfree", "del_idx"}
  BY <1>2
<1>11. StoreInv(K)'
  <2>1. call'[p] = call[p] /\ Records' \subseteq Records \cup {n} /\ Records \subseteq Records'
    BY <1>2, <1>9
  <2>2. \A m \in Records \ {n} :
           /\ idx'[m].key = idx[m].key /\ dat'[idx[m].datoff].data = dat[idx[m].datoff].data
    BY <1>1, <1>6
  <2>3. \A m \in Records : idx'[m].datoff = idx[m].datoff /\ idx'[m].datlen = idx[m].datlen
    BY <1>1
  <2>4. (n \in Records => idx[n].key \in {BLANK, k}) /\ (n \in Records' => idx'[n].key \in {BLANK, k})
    BY <1>5, <1>9
  <2>5. \A q \in Procs : q # p /\ pc[q] \in FilledPoints =>
           db[q].datoff \in DOMAIN dat' /\ dat'[db[q].datoff].data = dat[db[q].datoff].data
    BY <1>6
  <2>6. k \in K => \A m \in Records \ {n} : idx[m].key # k
    BY <1>4, <1>5
  <2>7. idx' = idx /\ k = call[p].key
    BY <1>1, <1>4
  <2>. QED
    BY <1>2, <1>3, <1>7, <1>8, <1>9, <1>10, <2>1, <2>2, <2>3, <2>4, <2>5, <2>6, <2>7, WriterParts
<1>12. K = Keys => Promise
  BY <1>1, <1>2, <1>3, <1>4, <1>7, StoredPromise
<1>. QED
  BY <1>11, <1>12

\* The record that a store has taken off the free list is blank.
LEMMA ReuseWritedatStore ==
  ASSUME NEW K \in SUBSET Keys, TypeOK, TypeOK', CallOK, LockOK, DataInv, StoreInv(K), NEW nxt, NEW gone,
         ListInv(nxt, gone), Safe(K, gone), NEW p \in Procs, ReuseWritedat(p)
  PROVE  StoreInv(K)' /\ Promise
<1>. DEFINE rec == [len |-> DatLen[call[p].data], data |-> call[p].data]
            h == [db[p] EXCEPT !.datlen = DatLen[call[p].data]]
<1>1. /\ Step(p, "reuse_dat", "reuse_idx") /\ dat' = Put(dat, db[p].datoff, rec)
      /\ Handles(p, h) /\ idx' = idx /\ store' = store /\ ret' = ret
  BY DEF ReuseWritedat, WritedatAt, hist
<1>2. /\ pc[p] = "reuse_dat" /\ pc'[p] = "reuse_idx" /\ call' = call /\ Alone(p)
      /\ db'[p] = h /\ db[p] \in Handle
  BY <1>1, StepEffect, ProcType
<1>3. rec.data = call[p].data /\ db'[p].datoff = db[p].datoff
  BY <1>2 DEF Handle
<1>. HIDE DEF rec, h
<1>4. /\ pc[p] \in ChainHeld /\ pc[p] \in StoringPoints /\ Storing(p) /\ call[p].op = "store" /\ call[p].op # "fetch"
      /\ pc[p] \in SearchPoints /\ pc[p] \notin {"del_readfree", "del_idx"} /\ ret[p] = Abs!Pending
  <2>1. pc[p] \in StoreOnlyPoints /\ pc[p] \in StoringPoints /\ pc[p] \in SearchPoints
    BY <1>2 DEF StoringPoints, KeyGonePoints, StoreOnlyPoints, StorePoints, SearchPoints
  <2>. QED
    BY <1>2, <2>1, StoringHeld, Waits DEF CallOK, Storing, StoringPoints
<1>5. PICK k \in Keys : k = call[p].key /\ (k \in K => \A m \in Records : idx[m].key # k)
  BY <1>4, HasChain, NoRecord DEF ChainHeld
<1>6. PICK n \in Records : n = db[p].idxoff /\ idx[n].key = BLANK /\ idx[n].datoff = db[p].datoff
  <2>1. OffLists(p)
    BY <1>2 DEF OffLists, Took
  <2>2. Matches(p)
    BY <1>2 DEF DataInv, HandleOK, HasFreeRecord, ReusePoints
  <2>. QED
    BY <2>1, <2>2, InvParts DEF OffListsOK, Matches
<1>7. \A q \in Procs : q # p /\ pc[q] = "reuse_idx" => db[q].idxoff # n
  BY <1>2, <1>6, InvParts DEF OffListsOK, OffLists, Took
<1>8. dat' = Put(dat, idx[n].datoff, rec)
  BY <1>1, <1>6
<1>9. /\ DOMAIN dat' = DOMAIN dat /\ dat'[idx[n].datoff] = rec /\ idx[n].datoff \in DOMAIN dat
      /\ \A m \in Records \ {n} : dat'[idx[m].datoff] = dat[idx[m].datoff]
      /\ \A q \in Procs : q # p /\ pc[q] \in FilledPoints =>
            db[q].datoff \in DOMAIN dat' /\ dat'[db[q].datoff] = dat[db[q].datoff]
  BY <1>7, <1>8, DataWritten
<1>10. Filled(p)'
  BY <1>2, <1>3, <1>6, <1>9 DEF Filled
<1>11. Storing(p)' /\ ~Answered(p)' /\ pc'[p] \notin RecordPoints /\ pc'[p] \notin {"readdat", "scan_dat", "reread_head", "overwrite"}
       /\ pc'[p] \notin DeletePoints
  BY <1>2, <1>4 DEF Storing, Answered, RecordPoints, DeletingPoints, DeletePoints, KeyGonePoints, StorePoints
<1>12. StoringOK(p, K)'
  <2>1. StoringOK(p, K)
    BY <1>4 DEF StoreInv, CallKnows
  <2>. QED
    BY <1>1, <1>2, <1>4, <2>1 DEF StoringOK
<1>13. CallKnows(p, K)'
  BY <1>1, <1>4, <1>10, <1>11, <1>12 DEF CallKnows
<1>14. Records' = Records /\ idx'[n].key = BLANK /\ BLANK # k
  BY <1>1, <1>6, ConstantsAssumption DEF Records
<1>15. StoreInv(K)'
  BY <1>1, <1>2, <1>4, <1>5, <1>6, <1>9, <1>11, <1>13, <1>14, WriterParts
<1>. QED
  BY <1>1, <1>2, <1>15 DEF Promise

\* A data record is appended.
LEMMA DatAppendStore ==
  ASSUME NEW K \in SUBSET Keys, TypeOK, TypeOK', CallOK, LockOK, DataInv, StoreInv(K), NEW nxt, NEW gone,
         ListInv(nxt, gone), Safe(K, gone), NEW p \in Procs, DatAppend(p)
  PROVE  StoreInv(K)' /\ Promise
<1>. DEFINE rec == [len |-> db[p].datlen, data |-> call[p].data]
<1>1. /\ Step(p, "dat_append", "dat_unlock") /\ dat' = Put(dat, db[p].datoff, rec)
      /\ db' = db /\ idx' = idx /\ store' = store /\ ret' = ret
  BY DEF DatAppend, hist
<1>2. pc[p] = "dat_append" /\ pc'[p] = "dat_unlock" /\ call' = call /\ Alone(p)
  BY <1>1, StepEffect
<1>3. /\ pc[p] \in ChainHeld /\ pc[p] \in StoringPoints /\ Storing(p) /\ call[p].op = "store" /\ call[p].op # "fetch"
      /\ pc[p] \in StoreOnlyPoints /\ pc[p] \notin {"del_readfree", "del_idx"} /\ ret[p] = Abs!Pending
  <2>1. pc[p] \in StoreOnlyPoints /\ pc[p] \in StoringPoints
    BY <1>2 DEF StoringPoints, KeyGonePoints, StoreOnlyPoints, AppendPoints
  <2>. QED
    BY <1>2, <2>1, StoringHeld, Waits DEF CallOK, Storing, StoringPoints
<1>4. PICK k \in Keys : k = call[p].key /\ (k \in K => \A m \in Records : idx[m].key # k)
  BY <1>3, HasChain, NoRecord DEF ChainHeld
<1>5. DOMAIN dat' = 1 .. Len(dat) + 1 /\ dat'[Len(dat) + 1] = rec /\ \A i \in DOMAIN dat : dat'[i] = dat[i]
  <2>1. db[p].datoff = Len(dat) + 1
    BY <1>2 DEF DataInv, HandleOK
  <2>2. rec \in DatRec
    BY <1>3, StoreCallData, ProcType DEF DatRec, Handle
  <2>3. dat \in Seq(DatRec) /\ dat' = Put(dat, Len(dat) + 1, rec)
    BY <1>1, <2>1, Domains
  <2>. HIDE DEF rec
  <2>. QED
    BY <2>2, <2>3, Appended
<1>6. DOMAIN dat \subseteq DOMAIN dat' /\ Len(dat) + 1 \in DOMAIN dat'
  BY <1>5, Domains
<1>7. Filled(p)'
  <2>1. db'[p].datoff = Len(dat) + 1 /\ call'[p] = call[p]
    BY <1>1, <1>2 DEF DataInv, HandleOK
  <2>. QED
    BY <1>5, <1>6, <2>1 DEF Filled
<1>. HIDE DEF rec
<1>8. Storing(p)' /\ ~Answered(p)' /\ pc'[p] \notin RecordPoints /\ pc'[p] \notin {"readdat", "scan_dat", "reread_head", "overwrite"}
       /\ pc'[p] \notin DeletePoints /\ pc'[p] \notin SearchPoints
  BY <1>2, <1>3 DEF Storing, Answered, RecordPoints, DeletingPoints, DeletePoints, KeyGonePoints, StorePoints,
     AppendPoints, SearchPoints, FreePoints
<1>9. StoringOK(p, K)'
  <2>1. StoringOK(p, K)
    BY <1>3 DEF StoreInv, CallKnows
  <2>. QED
    BY <1>1, <1>2, <1>8, <2>1 DEF StoringOK
<1>10. CallKnows(p, K)'
  BY <1>1, <1>3, <1>7, <1>8, <1>9 DEF CallKnows
<1>11. \A m \in Records : idx[m].datoff \in DOMAIN dat
  BY Sets DEF DataInv, DataOwned
<1>12. \A q \in Procs : pc[q] \in FilledPoints => db[q].datoff \in DOMAIN dat
  BY DEF StoreInv, CallKnows, Filled
<1>13. PICK n : n = 0 /\ n \notin Records /\ Records' = Records
  BY <1>1, Sets DEF Records
<1>14. /\ \A m \in Records : dat'[idx[m].datoff] = dat[idx[m].datoff]
       /\ \A q \in Procs : q # p /\ pc[q] \in FilledPoints =>
             db[q].datoff \in DOMAIN dat' /\ dat'[db[q].datoff] = dat[db[q].datoff]
  BY <1>5, <1>6, <1>11, <1>12
<1>15. StoreInv(K)'
  BY <1>1, <1>2, <1>3, <1>4, <1>8, <1>10, <1>13, <1>14, WriterParts
<1>. QED
  BY <1>1, <1>2, <1>15 DEF Promise

\* The index record of a new key is written, new or reused.
LEMMA FillStore ==
  ASSUME NEW K \in SUBSET Keys, TypeOK, TypeOK', CallOK, LockOK, DataInv, StoreInv(K), NEW nxt, NEW gone,
         ListInv(nxt, gone), Safe(K, gone), NEW p \in Procs, Alone(p),
         pc[p] \in {"reuse_idx", "idx_append"}, pc'[p] \in {"link", "idx_unlock"}, call' = call, dat' = dat, Stored(p),
         NEW n, Records' = Records \cup {n}, \A m \in Records \ {n} : idx'[m] = idx[m],
         n \in Records => /\ idx[n].key = BLANK
                          /\ idx'[n].datoff = idx[n].datoff /\ idx'[n].datlen = idx[n].datlen,
         idx'[n].key = call[p].key, idx'[n].datoff = db[p].datoff
  PROVE  StoreInv(K)' /\ (K = Keys => Promise)
<1>1. /\ pc[p] \in ChainHeld /\ pc[p] \in StoringPoints /\ Storing(p) /\ call[p].op = "store" /\ call[p].op # "fetch"
      /\ pc[p] \in StoreOnlyPoints /\ pc[p] \notin {"del_readfree", "del_idx"} /\ ret[p] = Abs!Pending
      /\ pc[p] \in FilledPoints
  <2>1. pc[p] \in StoreOnlyPoints /\ pc[p] \in StoringPoints /\ pc[p] \in FilledPoints
    BY DEF StoringPoints, KeyGonePoints, StoreOnlyPoints, AppendPoints, StorePoints, FilledPoints, FreshPoints
  <2>. QED
    BY <2>1, StoringHeld, Waits DEF CallOK, Storing, StoringPoints
<1>2. PICK k \in Keys : k = call[p].key /\ (k \in K => \A m \in Records : idx[m].key # k)
  BY <1>1, HasChain, NoRecord DEF ChainHeld
<1>3. Filled(p) /\ StoringOK(p, K)
  BY <1>1 DEF StoreInv, CallKnows
<1>4. /\ store'[k] = call[p].data /\ store'[k] # NONE
      /\ \A j \in Keys \ {k} : store'[j] = store[j]
      /\ ret'[p] # Abs!Pending /\ \A q \in Procs : q # p => ret'[q] = ret[q]
  BY <1>1, <1>2, StoredEffect
<1>5. CallKnows(p, K)'
  <2>1. /\ pc'[p] \notin RecordPoints /\ pc'[p] # "readdat" /\ pc'[p] \notin DeletePoints \cup {"overwrite", "reread_head"}
        /\ pc'[p] # "scan_dat" /\ pc'[p] \notin FilledPoints /\ ~Storing(p)' /\ Answered(p)'
    BY DEF RecordPoints, DeletingPoints, DeletePoints, FilledPoints, FreshPoints, Storing, Answered
  <2>. QED
    BY <1>4, <2>1 DEF CallKnows
<1>6. dat'[idx'[n].datoff].data = store'[k]
  BY <1>3, <1>4 DEF Filled
<1>7. \A q \in Procs : pc[q] \in FilledPoints => db[q].datoff \in DOMAIN dat
  BY DEF StoreInv, CallKnows, Filled
<1>8. \A m \in Records : idx'[m].datoff = idx[m].datoff /\ idx'[m].datlen = idx[m].datlen
  OBVIOUS
<1>9. StoreInv(K)'
  BY <1>1, <1>2, <1>4, <1>5, <1>6, <1>7, <1>8, WriterParts
<1>10. K = Keys => Promise
  BY <1>1, <1>2, <1>3, StoredPromise DEF StoringOK
<1>. QED
  BY <1>9, <1>10

LEMMA ReuseWriteidxStore ==
  ASSUME NEW K \in SUBSET Keys, TypeOK, TypeOK', CallOK, LockOK, DataInv, StoreInv(K), NEW nxt, NEW gone,
         ListInv(nxt, gone), Safe(K, gone), NEW p \in Procs, ReuseWriteidx(p)
  PROVE  StoreInv(K)' /\ (K = Keys => Promise)
<1>1. /\ Step(p, "reuse_idx", "link") /\ \E h : Handles(p, h)
      /\ idx' = Put(idx, db[p].idxoff, NewIdx(p)) /\ dat' = dat /\ head' = head /\ Stored(p)
  BY DEF ReuseWriteidx
<1>2. pc[p] = "reuse_idx" /\ pc'[p] = "link" /\ call' = call /\ Alone(p)
  BY <1>1, StepEffect
<1>3. OffLists(p) /\ Matches(p)
  BY <1>2 DEF OffLists, Took, DataInv, HandleOK, HasFreeRecord, ReusePoints
<1>4. PICK n \in Records : /\ n = db[p].idxoff /\ idx[n].key = BLANK
                           /\ idx[n].datoff = db[p].datoff /\ idx[n].datlen = db[p].datlen
  BY <1>3, InvParts DEF OffListsOK, Matches
<1>5. /\ NewIdx(p) \in IdxRec /\ NewIdx(p).key = call[p].key
      /\ NewIdx(p).datoff = db[p].datoff /\ NewIdx(p).datlen = db[p].datlen
  BY <1>2, NewIdxFields DEF NewIdx, StoreOnlyPoints, StorePoints
<1>6. /\ Records' = Records /\ idx'[n] = NewIdx(p)
      /\ \A m \in Records \ {n} : idx'[m] = idx[m]
  BY <1>1, <1>4, <1>5, RecordWritten
<1>7. Records' = Records \cup {n} /\ pc[p] \in {"reuse_idx", "idx_append"} /\ pc'[p] \in {"link", "idx_unlock"}
  BY <1>2, <1>6
<1>8. /\ idx'[n].datoff = idx[n].datoff /\ idx'[n].datlen = idx[n].datlen
      /\ idx'[n].key = call[p].key /\ idx'[n].datoff = db[p].datoff
  BY <1>4, <1>5, <1>6
<1>. QED
  BY <1>1, <1>2, <1>4, <1>6, <1>7, <1>8, FillStore

LEMMA IdxAppendStore ==
  ASSUME NEW K \in SUBSET Keys, TypeOK, TypeOK', CallOK, LockOK, DataInv, StoreInv(K), NEW nxt, NEW gone,
         ListInv(nxt, gone), Safe(K, gone), NEW p \in Procs, IdxAppend(p)
  PROVE  StoreInv(K)' /\ (K = Keys => Promise)
<1>1. /\ Step(p, "idx_append", "idx_unlock") /\ db' = db /\ dat' = dat /\ Stored(p)
      /\ idx' = Put(idx, db[p].idxoff, NewIdx(p))
  BY DEF IdxAppend
<1>2. pc[p] = "idx_append" /\ pc'[p] = "idx_unlock" /\ call' = call /\ Alone(p)
  BY <1>1, StepEffect
<1>3. PICK n : n = db[p].idxoff /\ n = Len(idx) + 1
  BY <1>2 DEF DataInv, HandleOK
<1>4. n \notin Records
  BY <1>3, Sets DEF Records
<1>5. NewIdx(p) \in IdxRec /\ NewIdx(p).key = call[p].key /\ NewIdx(p).datoff = db[p].datoff
  BY <1>2, NewIdxFields DEF NewIdx, StoreOnlyPoints, AppendPoints
<1>6. /\ Len(idx') = Len(idx) + 1
      /\ \A i \in DOMAIN idx : idx'[i] = idx[i]
      /\ idx'[n] = NewIdx(p)
  BY <1>1, <1>3, <1>5, Domains, Appended
<1>7. Records' = Records \cup {n}
  BY <1>3, <1>6, Sets DEF Records
<1>8. /\ \A m \in Records \ {n} : idx'[m] = idx[m]
      /\ idx'[n].key = call[p].key /\ idx'[n].datoff = db[p].datoff
  BY <1>5, <1>6, Sets
<1>9. pc[p] \in {"reuse_idx", "idx_append"} /\ pc'[p] \in {"link", "idx_unlock"}
  BY <1>2
<1>. QED
  BY <1>1, <1>2, <1>4, <1>7, <1>8, <1>9, FillStore

\* The record leaves the index: a deletion takes effect.
LEMMA DelWriteidxStore ==
  ASSUME NEW K \in SUBSET Keys, TypeOK, TypeOK', CallOK, LockOK, DataInv, StoreInv(K), NEW nxt, NEW gone,
         ListInv(nxt, gone), Safe(K, gone), NEW p \in Procs, DelWriteidx(p)
  PROVE  StoreInv(K)' /\ (K = Keys => Promise)
<1>. DEFINE rec == [ptr |-> db[p].freeptr, key |-> BLANK, keylen |-> db[p].keylen,
                    datoff |-> db[p].datoff, datlen |-> db[p].datlen]
<1>1. /\ Step(p, "del_idx", "del_setfree") /\ \E h : Handles(p, h)
      /\ idx' = Put(idx, db[p].idxoff, rec) /\ dat' = dat /\ head' = head
      /\ IF call[p].op = "delete"
         THEN /\ store' = [store EXCEPT ![call[p].key] = NONE]
              /\ Answer(p, Abs!Result(0, call[p].key, NONE))
         ELSE store' = store /\ ret' = ret
  BY DEF DelWriteidx, hist
<1>2. pc[p] = "del_idx" /\ pc'[p] = "del_setfree" /\ call' = call /\ Alone(p)
  BY <1>1, StepEffect
<1>3. /\ pc[p] \in ChainHeld /\ ~Storing(p) /\ call[p].op \in {"delete", "store"} /\ call[p].op # "fetch"
      /\ call[p].flag # "DB_INSERT" /\ ret[p] = Abs!Pending /\ HasRecord(p)
      /\ pc[p] \in FreeHeld
  BY <1>2, AtRecord DEF DeletingPoints, FreeHeld, DeletePoints
<1>4. PICK k \in Keys : /\ k = call[p].key
                        /\ k \in K => store[k] # NONE /\ \A m \in Records \ {db[p].idxoff} : idx[m].key # k
  BY <1>2, AtRecord DEF DeletingPoints
<1>5. PICK n \in Records : /\ n = db[p].idxoff /\ idx[n].key = k
                           /\ idx[n].datoff = db[p].datoff /\ idx[n].datlen = db[p].datlen
  BY <1>3, <1>4 DEF HasRecord
<1>6. /\ rec \in IdxRec /\ rec.key = BLANK /\ rec.datoff = idx[n].datoff /\ rec.datlen = idx[n].datlen
  BY <1>5, ProcType DEF Handle, IdxRec
<1>. HIDE DEF rec
<1>7. /\ Records' = Records /\ idx'[n] = rec /\ \A m \in Records \ {n} : idx'[m] = idx[m]
  BY <1>1, <1>5, <1>6, RecordWritten
<1>8. /\ \A m \in Records : idx'[m].datoff = idx[m].datoff /\ idx'[m].datlen = idx[m].datlen
      /\ idx'[n].key = BLANK /\ BLANK # k
  BY <1>6, <1>7, ConstantsAssumption
<1>9. \A q \in Procs : pc[q] \in FilledPoints => db[q].datoff \in DOMAIN dat
  BY DEF StoreInv, CallKnows, Filled
<1>10. /\ pc'[p] \notin RecordPoints /\ pc'[p] # "readdat" /\ pc'[p] # "scan_dat" /\ pc'[p] \notin FilledPoints
       /\ pc'[p] \notin SearchPoints /\ (Storing(p)' <=> call[p].op = "store")
       /\ (Answered(p)' <=> call[p].op = "delete")
  BY <1>2 DEF RecordPoints, DeletingPoints, FilledPoints, FreshPoints, SearchPoints, FreePoints, Storing, Answered,
     KeyGonePoints
<1>11. CASE call[p].op = "delete"
  <2>1. /\ store' = [store EXCEPT ![k] = NONE] /\ Answer(p, Abs!Result(0, k, NONE))
    BY <1>1, <1>4, <1>11
  <2>2. /\ ret'[p] # Abs!Pending /\ \A q \in Procs : q # p => ret'[q] = ret[q]
    BY <2>1, AnswerEffect, Given
  <2>3. store'[k] = NONE /\ \A j \in Keys \ {k} : store'[j] = store[j]
    BY <2>1 DEF TypeOK
  <2>4. CallKnows(p, K)'
    BY <1>2, <1>3, <1>10, <1>11, <2>2 DEF CallKnows
  <2>5. StoreInv(K)'
    BY <1>1, <1>2, <1>3, <1>4, <1>5, <1>7, <1>8, <1>9, <2>2, <2>3, <2>4, WriterParts
  <2>6. K = Keys => Promise
    <3>. SUFFICES ASSUME K = Keys PROVE Promise
      OBVIOUS
    <3>1. PICK r : r = Abs!Result(0, k, NONE)
      OBVIOUS
    <3>2. r = Abs!Result(IF store[call[p].key] = NONE THEN -1 ELSE 0, call[p].key, NONE)
      BY <1>4, <3>1
    <3>3. Answer(p, r) /\ store' = [store EXCEPT ![call[p].key] = NONE]
      BY <1>4, <2>1, <3>1
    <3>. QED
      BY <1>2, <1>3, <1>11, <3>2, <3>3, DeletePromise
  <2>. QED
    BY <2>5, <2>6
<1>12. CASE call[p].op # "delete"
  <2>1. store' = store /\ ret' = ret /\ call[p].op = "store"
    BY <1>1, <1>3, <1>12
  <2>2. StoringOK(p, K)'
    BY <1>2, <1>3, <1>4, <1>10, <2>1 DEF StoringOK
  <2>3. CallKnows(p, K)'
    BY <1>2, <1>3, <1>10, <2>1, <2>2 DEF CallKnows
  <2>4. StoreInv(K)'
    BY <1>1, <1>2, <1>3, <1>4, <1>5, <1>7, <1>8, <1>9, <1>10, <2>1, <2>3, WriterParts
  <2>. QED
    BY <1>2, <2>1, <2>4 DEF Promise
<1>. QED
  BY <1>11, <1>12

LEMMA DelUnlockStore ==
  ASSUME NEW K \in SUBSET Keys, TypeOK, TypeOK', CallOK, LockOK, DataInv, StoreInv(K), NEW p \in Procs, DelUnlock(p)
  PROVE  StoreInv(K)' /\ Promise
<1>. DEFINE to == IF call[p].op = "delete" THEN "unlock_chain" ELSE "reread_head"
<1>1. Step(p, "del_unlock", to) /\ idx' = idx /\ dat' = dat /\ db' = db /\ store' = store /\ ret' = ret
  BY DEF DelUnlock, Unlock, files, hist
<1>2. pc[p] = "del_unlock" /\ pc'[p] = to /\ call' = call /\ Alone(p)
  BY <1>1, StepEffect
<1>3. call[p].op \in {"delete", "store"} /\ call[p].flag # "DB_INSERT" /\ pc[p] \notin Ended
  BY <1>2 DEF CallOK, DeletePoints, StoreInv, CallKnows, Ended, Killed
<1>4. Answered(p) <=> call[p].op = "delete"
  BY <1>2 DEF Answered
<1>5. ret[p] # Abs!Pending <=> call[p].op = "delete"
  BY <1>3, <1>4 DEF StoreInv, CallKnows
<1>6. CallKnows(p, K)'
  <2>1. CASE call[p].op = "delete"
    BY <1>1, <1>2, <1>5, <2>1, PlainKnows DEF After
  <2>2. CASE call[p].op = "store"
    <3>1. pc'[p] = "reread_head" /\ call'[p] = call[p] /\ ret' = ret /\ Storing(p)
      BY <1>1, <1>2, <2>2 DEF Storing, KeyGonePoints
    <3>2. StoringOK(p, K)
      BY <3>1 DEF StoreInv, CallKnows
    <3>3. StoringOK(p, K)'
      BY <1>1, <3>1, <3>2 DEF StoringOK, SearchPoints, FreePoints
    <3>4. /\ pc'[p] \notin RecordPoints /\ pc'[p] # "readdat" /\ pc'[p] # "scan_dat"
          /\ pc'[p] \notin FilledPoints /\ ~Answered(p)'
      BY <3>1 DEF RecordPoints, DeletingPoints, FilledPoints, FreshPoints, Answered
    <3>. QED
      BY <1>3, <1>5, <2>2, <3>1, <3>3, <3>4 DEF CallKnows
  <2>. QED
    BY <1>3, <2>1, <2>2
<1>7. SameStore
  BY <1>1, SameFiles
<1>8. Storing(p) => Storing(p)'
  BY <1>2, <1>3 DEF Storing, KeyGonePoints, StorePoints
<1>9. StoreInv(K)'
  BY <1>1, <1>2, <1>6, <1>7, <1>8, SameStoreParts
<1>. QED
  BY <1>1, <1>2, <1>9 DEF Promise

-----------------------------------------------------------------------------
\* db_nextrec

LEMMA ScanReadStore ==
  ASSUME NEW K \in SUBSET Keys, TypeOK, TypeOK', CallOK, DataInv, StoreInv(K), NEW p \in Procs, ScanRead(p)
  PROVE  StoreInv(K)' /\ Promise
<1>. DEFINE n == pos[p]
            to == IF idx[n].key = BLANK THEN "scan_read" ELSE "scan_dat"
<1>1. /\ n \in DOMAIN idx /\ Step(p, "scan_read", to) /\ Handles(p, Readidx(p, n))
      /\ idx' = idx /\ dat' = dat /\ store' = store /\ ret' = ret
  BY DEF ScanRead, files, hist
<1>2. /\ pc[p] = "scan_read" /\ pc'[p] = to /\ call' = call /\ Alone(p)
      /\ db'[p] = Readidx(p, n) /\ db[p] \in Handle
  BY <1>1, StepEffect, ProcType
<1>3. CASE idx[n].key = BLANK
  BY <1>1, <1>2, <1>3, OnwardSteps, QuietFiles DEF RecordPoints, DeletingPoints, FilledPoints, FreshPoints
<1>4. CASE idx[n].key # BLANK
  <2>1. pc'[p] = "scan_dat"
    BY <1>2, <1>4
  <2>2. ScanHas(p)'
    <3>1. /\ db'[p].idxoff = n /\ db'[p].idxbuf = idx[n].key
          /\ db'[p].datoff = idx[n].datoff /\ db'[p].datlen = idx[n].datlen
      BY <1>2 DEF Handle, Readidx
    <3>2. n \in Records
      BY <1>1, Sets
    <3>. HIDE DEF n
    <3>. QED
      BY <1>1, <1>4, <3>1, <3>2 DEF ScanHas, Records
  <2>3. ret[p] = Abs!Pending
    BY <1>2, Waits DEF Before
  <2>4. /\ pc'[p] \notin RecordPoints /\ pc'[p] \notin DeletePoints \cup {"overwrite", "reread_head", "readdat"}
        /\ pc'[p] \notin FilledPoints /\ ~Storing(p)' /\ ~Answered(p)'
    BY <2>1 DEF RecordPoints, DeletingPoints, DeletePoints, FilledPoints, FreshPoints, Storing, KeyGonePoints,
       FreePoints, AppendPoints, StorePoints, Answered
  <2>5. CallKnows(p, K)'
    BY <1>1, <2>1, <2>2, <2>3, <2>4 DEF CallKnows
  <2>6. SameStore
    BY <1>1, SameFiles
  <2>7. ~Storing(p)
    BY <1>2 DEF Storing, KeyGonePoints, FreePoints, AppendPoints, StorePoints
  <2>8. StoreInv(K)'
    BY <1>1, <1>2, <2>5, <2>6, <2>7, SameStoreParts
  <2>. QED
    BY <1>1, <1>2, <2>8 DEF Promise
<1>. QED
  BY <1>3, <1>4

\* A scan answers: with the end of the file, or with a record that is in the
\* store, since no deletion is half done while it holds the free list.
LEMMA ScanAnswer ==
  ASSUME NEW K \in SUBSET Keys, TypeOK, TypeOK', CallOK, LockOK, DataInv, StoreInv(K), NEW p \in Procs,
         ScanEof(p) \/ ScanData(p)
  PROVE  StoreInv(K)' /\ (K = Keys => Promise)
<1>1. PICK from \in {"scan_read", "scan_dat"} :
         /\ Step(p, from, "scan_unlock") /\ idx' = idx /\ dat' = dat /\ store' = store
         /\ \E h : Handles(p, h) \/ db' = db
  BY DEF ScanEof, ScanData, files
<1>2. pc[p] = from /\ pc'[p] = "scan_unlock" /\ call' = call /\ Alone(p)
  BY <1>1, StepEffect
<1>3. call[p].op = "nextrec" /\ ret[p] = Abs!Pending /\ ~Storing(p)
  BY <1>1, <1>2, Waits DEF CallOK, ScanPoints, Abs!NextrecCall, Before, Storing, KeyGonePoints, FreePoints,
     AppendPoints, StorePoints
<1>4. PICK r : /\ Answer(p, r) /\ r # Abs!Pending
               /\ \/ r = Abs!Result(-1, NONE, NONE)
                  \/ K = Keys => \E k \in Keys : store[k] # NONE /\ r = Abs!Result(0, k, store[k])
  <2>1. CASE ScanEof(p)
    <3>1. -1 # 0
      OBVIOUS
    <3>. QED
      BY <2>1, <3>1, Given DEF ScanEof
  <2>2. CASE ScanData(p)
    <3>1. pc[p] = "scan_dat" /\ Answer(p, Abs!Result(0, db[p].idxbuf, dat[db[p].datoff].data))
      BY <2>2, StepEffect DEF ScanData
    <3>2. ScanHas(p)
      BY <3>1 DEF StoreInv, CallKnows
    <3>3. PICK n \in Records : /\ n = db[p].idxoff /\ idx[n].key = db[p].idxbuf /\ idx[n].key # BLANK
                               /\ idx[n].datoff = db[p].datoff
      BY <3>2 DEF ScanHas
    <3>4. idx[n].key \in Keys
      BY <3>3, Sets, ReadidxType DEF IdxRec
    <3>5. ~Blanked(n)
      <4>. SUFFICES ASSUME NEW q \in Procs, pc[q] \in {"del_readfree", "del_idx"} PROVE FALSE
        BY DEF Blanked
      <4>1. pc[q] \in FreeHeld /\ pc[p] \in ScanHeld /\ q # p
        BY <3>1 DEF FreeHeld, DeletePoints, ScanHeld, ScanPoints
      <4>. QED
        BY <4>1, LocksGuard DEF CriticalSections
    <3>6. K = Keys => (store[idx[n].key] # NONE /\ dat[idx[n].datoff].data = store[idx[n].key])
      BY <3>3, <3>4, <3>5 DEF StoreInv, StoreFiled
    <3>7. Abs!Result(0, db[p].idxbuf, dat[db[p].datoff].data) # Abs!Pending
      BY <3>3, <3>4, Given
    <3>. QED
      BY <3>1, <3>3, <3>4, <3>6, <3>7
  <2>. QED
    BY <2>1, <2>2
<1>5. ret'[p] # Abs!Pending /\ \A q \in Procs : q # p => ret'[q] = ret[q]
  BY <1>4, AnswerEffect
<1>6. CallKnows(p, K)'
  BY <1>2, <1>5, PlainKnows DEF After
<1>7. SameStore
  BY <1>1, SameFiles
<1>8. StoreInv(K)'
  BY <1>1, <1>2, <1>3, <1>5, <1>6, <1>7, SameStoreParts
<1>9. K = Keys => Promise
  BY <1>1, <1>2, <1>3, <1>4, NextrecPromise
<1>. QED
  BY <1>8, <1>9

-----------------------------------------------------------------------------
\* The caller, and the end of a process

LEMMA CallerStore ==
  ASSUME NEW K \in SUBSET Keys, TypeOK, TypeOK', CallOK, DataInv, StoreInv(K), NEW p \in Procs,
         (\E c \in Uses[p] : Invoke(p, c)) \/ Rewind(p)
  PROVE  StoreInv(K)' /\ Promise
<1>. DEFINE Outside == /\ pc[p] = "idle" /\ Alone(p) /\ idx' = idx /\ dat' = dat /\ store' = store /\ ret' = ret
                       /\ pc'[p] \in {"idle", "scan_lock", "lock_chain"}
                       /\ call' = call \/ \E c \in Abs!Calls : call' = [call EXCEPT ![p] = c]
<1>1. Outside
  <2>1. CASE Rewind(p)
    BY <2>1 DEF Rewind, Handles, files, hist, Alone, TypeOK
  <2>2. ASSUME NEW c \in Uses[p], Invoke(p, c) PROVE Outside
    <3>1. /\ pc[p] = "idle" /\ pc' = [pc EXCEPT ![p] = FirstPoint(c)] /\ call' = [call EXCEPT ![p] = c]
          /\ idx' = idx /\ dat' = dat /\ store' = store /\ ret' = ret /\ db' = db
      BY <2>2 DEF Invoke, files, hist
    <3>2. c \in Abs!Calls /\ FirstPoint(c) \in {"scan_lock", "lock_chain"}
      BY ConstantsAssumption DEF FirstPoint
    <3>3. Alone(p) /\ pc'[p] = FirstPoint(c)
      BY <3>1 DEF Alone, TypeOK
    <3>. QED
      BY <3>1, <3>2, <3>3
  <2>. QED
    BY <2>1, <2>2
<1>2. call[p] = Abs!Idle /\ ret[p] = Abs!Pending /\ ~Storing(p)
  BY <1>1, Waits DEF CallOK, Before, Storing, KeyGonePoints, FreePoints, AppendPoints, StorePoints
<1>3. CallKnows(p, K)'
  BY <1>1, <1>2, PlainKnows DEF Before, FindPoints
<1>4. SameStore
  BY <1>1, SameFiles
<1>5. StoreInv(K)'
  BY <1>1, <1>2, <1>3, <1>4, SameStoreParts
<1>6. Promise
  BY <1>1, <1>2 DEF Promise, Abs!Next, Abs!Invoke
<1>. QED
  BY <1>5, <1>6

LEMMA EndStore ==
  ASSUME NEW K \in SUBSET Keys, TypeOK, TypeOK', DataInv, StoreInv(K), NEW p \in Procs, NEW point \in Ended,
         End(p, point),
         pc[p] \in HalfDone => call[p].key \notin K
  PROVE  StoreInv(K)' /\ Promise
<1>1. /\ pc'[p] = point /\ Alone(p) /\ idx' = idx /\ dat' = dat /\ store' = store /\ ret' = ret /\ call' = call
  BY DEF End, files, proc, hist, Alone, TypeOK
<1>2. CallKnows(p, K)'
  BY <1>1, PlainKnows
<1>3. Storing(p) /\ call[p].key \in K => store[call[p].key] = NONE
  <2>. SUFFICES ASSUME Storing(p), call[p].key \in K PROVE store[call[p].key] = NONE
    OBVIOUS
  <2>1. pc[p] \in SearchPoints
    BY DEF Storing, SearchPoints, HalfDone, KeyGonePoints, AppendPoints, StorePoints
  <2>2. StoringOK(p, K)
    BY DEF StoreInv, CallKnows
  <2>. QED
    BY <2>1, <2>2 DEF StoringOK
<1>4. SameStore
  BY <1>1, SameFiles
<1>5. pc[p] \in {"del_readfree", "del_idx"} => call[p].key \notin K
  BY DEF HalfDone
<1>6. StoreInv(K)'
  BY <1>1, <1>2, <1>3, <1>4, <1>5, SameStoreParts
<1>. QED
  BY <1>1, <1>6 DEF Promise

\* Nothing but the position of a scan can fail a sanity check.
LEMMA SaneButScan ==
  ASSUME TypeOK, CallOK, LockOK, DataInv, StoreInv(Keys), NEW nxt, ListInv(nxt, {}), Cut = {}, NEW p \in Procs,
         Insane(p)
  PROVE  pc[p] = "scan_read"
<1>1. ASSUME pc[p] = "walk" PROVE db[p].cur \in DOMAIN idx \cup {0}
  <2>1. ~Astray(p, ChainOff(p), {})
    BY DEF Astray, CutChains
  <2>2. PICK c \in Chains : db[p].cur \in Members(c, {}) \cup {0}
    BY <1>1, <2>1, WalkAt
  <2>. QED
    BY <2>2, Sets
<1>2. ASSUME pc[p] = "ff_walk" PROVE db[p].cur \in DOMAIN idx \cup {0}
  BY <1>2, FreeWalkAt, Sets
<1>3. ASSUME pc[p] \in {"readdat", "scan_dat"} PROVE DataReadable(p)
  <2>1. PICK n \in Records : idx[n].datoff = db[p].datoff /\ idx[n].datlen = db[p].datlen
    BY <1>3 DEF StoreInv, CallKnows, HasRecord, ScanHas, RecordPoints
  <2>. QED
    BY <2>1, Sets DEF DataInv, DataOwned, DataReadable
<1>. QED
  BY <1>1, <1>2, <1>3 DEF Insane

-----------------------------------------------------------------------------
LEMMA InitStore ==
  ASSUME NEW K \in SUBSET Keys, Init
  PROVE  StoreInv(K)
<1>. SUFFICES ASSUME Init PROVE StoreInv(K)
  OBVIOUS
<1>1. /\ Records = {} /\ store = [k \in Keys |-> NONE]
      /\ \A p \in Procs : pc[p] = "idle" /\ ret[p] = Abs!Pending
  BY DEF Init, Records, Abs!Init
<1>2. ASSUME NEW p \in Procs PROVE CallKnows(p, K)
  BY <1>1 DEF CallKnows, RecordPoints, DeletingPoints, DeletePoints, FilledPoints, FreshPoints, Storing, Answered,
     KeyGonePoints, FreePoints, AppendPoints, StorePoints
<1>. QED
  BY <1>1, <1>2 DEF StoreInv, StoreFiled, StoreFound

LEMMA NextStore ==
  ASSUME NEW K \in SUBSET Keys, DbInv, DbInv', NEW nxt, NEW gone, ListInv(nxt, gone), Safe(K, gone),
         StoreInv(K), [Next]_vars,
         \A p \in Procs : Crash(p) /\ pc[p] \in HalfDone => call[p].key \notin K
  PROVE  StoreInv(K)' /\ (K = Keys => Promise)
<1>. USE DEF DbInv
<1>1. CASE UNCHANGED vars
  <2>1. StoreInv(K)'
    BY <1>1 DEF vars, StoreInv, StoreFiled, StoreFound, CallKnows, HasRecord, ScanHas, Filled, Storing, StoringOK,
       Answered, Blanked, Records
  <2>. QED
    BY <1>1, <2>1 DEF vars, Promise
<1>2. ASSUME NEW p \in Procs, \/ \E c \in Uses[p] : Invoke(p, c)
                              \/ Rewind(p) \/ Progress(p) \/ Crash(p)
      PROVE  StoreInv(K)' /\ (K = Keys => Promise)
  <2>1. CASE (\E c \in Uses[p] : Invoke(p, c)) \/ Rewind(p)
    BY <2>1, CallerStore
  <2>2. CASE FindStep(p)
    BY <2>2, ReadingStore, FoundStore, NotFoundStore, FetchStore, ReturnStore DEF FindStep
  <2>3. CASE DeleteStep(p)
    BY <2>3, ReadingStore, DelWritedatStore, DelWriteidxStore, LinkingStore, DelUnlockStore DEF DeleteStep
  <2>4. CASE FreeStep(p)
    BY <2>4, ReadingStore, LinkingStore DEF FreeStep
  <2>5. CASE AppendStep(p)
    BY <2>5, ReadingStore, DatAppendStore, IdxAppendStore DEF AppendStep
  <2>6. CASE StoreStep(p)
    BY <2>6, ReadingStore, ReuseWritedatStore, ReuseWriteidxStore, LinkingStore, OverwriteStore DEF StoreStep
  <2>7. CASE ScanStep(p)
    BY <2>7, ReadingStore, ScanReadStore, ScanAnswer, ReturnStore DEF ScanStep
  <2>8. CASE Dump(p)
    <3>1. pc[p] \notin HalfDone
      BY <2>8 DEF Dump, Insane, HalfDone, AppendPoints
    <3>. QED
      BY <2>8, <3>1, EndStore DEF Dump, Ended, Killed
  <2>9. CASE Crash(p)
    <3>1. pc[p] \in HalfDone => call[p].key \notin K
      BY <2>9
    <3>. QED
      BY <2>9, <3>1, EndStore DEF Crash, Ended, Killed
  <2>. QED
    BY <1>2, <2>1, <2>2, <2>3, <2>4, <2>5, <2>6, <2>7, <2>8, <2>9 DEF Progress
<1>. QED
  BY <1>1, <1>2 DEF Next

\* Where no process is killed with a change half done, this holds of every key.
Whole == StoreInv(Keys) /\ LinksKept

LEMMA InitWhole == Init => Whole
BY InitStore, InitLists DEF Whole, LinksKept, Init, Cut

LEMMA NextWhole ==
  ASSUME Unharmed, DbInv, DbInv', Whole, [Next]_vars
  PROVE  Whole' /\ Promise
<1>1. StoreInv(Keys) /\ LinksKept
  BY DEF Whole
<1>2. PICK nxt : ListInv(nxt, {})
  BY <1>1 DEF LinksKept
<1>3. Safe(Keys, {})
  BY <1>1 DEF Safe, LinksKept, CutChains
<1>4. \A p \in Procs : Crash(p) /\ pc[p] \in HalfDone => call[p].key \notin Keys
  BY DEF Crash, Unharmed
<1>5. PICK K \in SUBSET Keys : K = Keys
  OBVIOUS
<1>6. StoreInv(K)' /\ (K = Keys => Promise)
  BY <1>1, <1>2, <1>3, <1>4, <1>5, NextStore
<1>7. LinksKept'
  BY <1>1, UnharmedLoss, LinksKeptNext
<1>. QED
  BY <1>5, <1>6, <1>7 DEF Whole

\* The library implements KeyedStore, with any number of processes, keys,
\* records and chains, and any calls: each call takes effect at one instant,
\* and answers as the map says at that instant.  A process may be killed
\* anywhere but where it leaves a change half done.
THEOREM Linear ==
  ASSUME Unharmed
  PROVE  Spec => Linearizable
<1>1. Init => Whole
  BY InitWhole
<1>2. Whole /\ DbInv /\ DbInv' /\ [Next]_vars => Whole' /\ Promise
  BY NextWhole
<1>3. Init => Abs!Init
  BY DEF Init
<1>4. Promise => [Abs!Next]_(Abs!vars)
  BY DEF Promise, Abs!vars
<1>. QED
  BY <1>1, <1>2, <1>3, <1>4, DbInvariant, PTL DEF Spec, Linearizable, Abs!Spec

-----------------------------------------------------------------------------
(***************************************************************************)
(* What a process that is killed anywhere leaves to the others.            *)
(***************************************************************************)

\* The keys that no process killed inside a call has harmed.
SafeKeys == {k \in Keys \ CrashedKeys : Hash[k] \notin CutChains}

\* Of those the files say what the store does, wherever processes were killed.
SafeInv == CutAlone => StoreInv(SafeKeys)

\* What is known of some keys is known of fewer.
LEMMA FewerKeys ==
  ASSUME NEW K \in SUBSET Keys, StoreInv(SafeKeys), K \subseteq SafeKeys
  PROVE  StoreInv(K)
<1>1. StoreFiled(K)
  BY DEF StoreInv, StoreFiled
<1>2. StoreFound(K)
  BY DEF StoreInv, StoreFound
<1>3. ASSUME NEW p \in Procs PROVE CallKnows(p, K)
  <2>1. CallKnows(p, SafeKeys)
    BY DEF StoreInv
  <2>2. Storing(p) => StoringOK(p, K)
    BY <2>1 DEF CallKnows, StoringOK
  <2>. QED
    BY <2>1, <2>2 DEF CallKnows
<1>. QED
  BY <1>1, <1>2, <1>3 DEF StoreInv

\* A step harms keys, and heals none.
LEMMA SafeBefore ==
  ASSUME TypeOK, CallOK, [Next]_vars
  PROVE  SafeKeys' \subseteq SafeKeys
<1>1. \A q \in Procs : /\ pc[q] \in Killed => pc'[q] = pc[q] /\ call'[q] = call[q]
                       /\ pc[q] = "cut" => pc'[q] = "cut"
  BY KilledStays
<1>2. CrashedKeys \subseteq CrashedKeys'
  BY <1>1 DEF CrashedKeys
<1>3. CutChains \subseteq CutChains'
  BY <1>1 DEF CutChains, Cut, Killed
<1>. QED
  BY <1>2, <1>3 DEF SafeKeys

LEMMA SafeNext ==
  ASSUME DbInv, DbInv', LossInv, SafeInv, [Next]_vars
  PROVE  SafeInv'
<1>. TypeOK /\ CallOK /\ TypeOK'
  BY DEF DbInv
<1>. SUFFICES ASSUME CutAlone' PROVE StoreInv(SafeKeys)'
  BY DEF SafeInv
<1>1. PICK nxt, gone, U : ListInv(nxt, gone) /\ StrayInv(gone, U)
  BY CutAloneBefore DEF LossInv
<1>2. PICK K \in SUBSET Keys : K = SafeKeys' /\ K \subseteq SafeKeys
  BY SafeBefore DEF SafeKeys
<1>3. StoreInv(K)
  BY <1>2, CutAloneBefore, FewerKeys DEF SafeInv
<1>4. Safe(K, gone)
  <2>1. \A k \in K : k \in Keys /\ k \notin CrashedKeys /\ Hash[k] \notin CutChains
    BY <1>2 DEF SafeKeys
  <2>2. ASSUME NEW n \in gone PROVE idx[n].key \notin K
    <3>1. idx[n].key \in {BLANK} \cup CrashedKeys \/ Hash[idx[n].key] \in CutChains
      BY <1>1 DEF StrayInv
    <3>. QED
      BY <2>1, <3>1, ConstantsAssumption
  <2>. QED
    BY <2>1, <2>2 DEF Safe
<1>5. \A p \in Procs : Crash(p) /\ pc[p] \in HalfDone => call[p].key \notin K
  <2>. SUFFICES ASSUME NEW p \in Procs, Crash(p), pc[p] \in HalfDone PROVE call[p].key \notin K
    OBVIOUS
  <2>1. call[p].op \in {"delete", "store"}
    BY DEF HalfDone, CallOK, DeletePoints, StoreOnlyPoints, FreePoints, AppendPoints, StorePoints
  <2>2. pc'[p] \in Killed /\ call'[p] = call[p]
    BY CrashEffect DEF Killed
  <2>3. call[p].key \in CrashedKeys'
    BY <2>1, <2>2 DEF CrashedKeys
  <2>. QED
    BY <1>2, <2>3 DEF SafeKeys
<1>6. StoreInv(K)'
  BY <1>1, <1>3, <1>4, <1>5, NextStore
<1>. QED
  BY <1>2, <1>6

LEMMA SafeInit == Init => SafeInv
<1>. SUFFICES ASSUME Init PROVE StoreInv(SafeKeys)
  BY DEF SafeInv
<1>1. PICK K \in SUBSET Keys : K = SafeKeys
  BY DEF SafeKeys
<1>2. StoreInv(K)
  BY InitStore
<1>. QED
  BY <1>1, <1>2

\* When nobody is changing the chain of such a key, a look up finds what the
\* store has.
LEMMA SafeThen ==
  ASSUME DbInv, LossInv, SafeInv, CutAlone, NEW k \in SafeKeys, ~WriteLocked(Hash[k])
  PROVE  Lookup(k) = {store[k]} \ {NONE}
<1>. TypeOK /\ CallOK /\ LockOK /\ DataInv
  BY DEF DbInv
<1>1. PICK nxt, gone, U : ListInv(nxt, gone) /\ StrayInv(gone, U)
  BY DEF LossInv
<1>2. StoreInv(SafeKeys)
  BY DEF SafeInv
<1>3. PICK c \in Chains \ CutChains : c = Hash[k] /\ ~WriteLocked(c)
  BY ConstantsAssumption DEF SafeKeys
<1>4. Reach(c) = Members(c, gone) /\ ChainRecords(c) \ gone = Members(c, gone)
  BY <1>1, <1>3, ChainThen
<1>5. k \in Keys /\ k # BLANK /\ k \notin CrashedKeys /\ Hash[k] \notin CutChains
  BY ConstantsAssumption DEF SafeKeys
<1>6. ASSUME NEW q \in Procs, pc[q] \in ChainHeld, call[q].op # "fetch" PROVE call[q].key # k
  <2>1. ASSUME ChainOff(q) = c PROVE FALSE
    <3>1. lock[q][c] = HeldAt(pc[q], call[q], c)
      BY DEF LockOK, LockTable, Regions
    <3>. QED
      BY <1>3, <1>6, <2>1, <3>1 DEF HeldAt, ChainOff, WriteLocked
  <2>. QED
    BY <1>3, <2>1 DEF ChainOff
<1>7. ASSUME NEW n \in Records, idx[n].key = k
      PROVE  n \in Members(c, gone) /\ store[k] # NONE /\ dat[idx[n].datoff].data = store[k]
  <2>1. n \notin gone
    BY <1>1, <1>5, <1>7 DEF StrayInv
  <2>2. n \in Members(c, gone)
    BY <1>3, <1>4, <1>5, <1>7, <2>1, Sets DEF ChainRecords, Live
  <2>3. store[k] # NONE /\ (Blanked(n) \/ dat[idx[n].datoff].data = store[k])
    BY <1>2, <1>7 DEF StoreInv, StoreFiled
  <2>4. ASSUME Blanked(n) PROVE FALSE
    <3>1. PICK q \in Procs : pc[q] \in {"del_readfree", "del_idx"} /\ db[q].idxoff = n
      BY <2>4 DEF Blanked
    <3>2. idx[n].key = call[q].key
      BY <1>2, <3>1 DEF StoreInv, CallKnows, RecordPoints, DeletingPoints, HasRecord
    <3>3. pc[q] \in ChainHeld /\ call[q].op # "fetch"
      BY <3>1 DEF ChainHeld, KeyPoints, DeletePoints, CallOK
    <3>. QED
      BY <1>6, <1>7, <3>2, <3>3
  <2>. QED
    BY <2>2, <2>3, <2>4
<1>8. store[k] # NONE => \E n \in Records : idx[n].key = k
  <2>. SUFFICES ASSUME NEW q \in Procs, Storing(q), call[q].key = k PROVE FALSE
    BY <1>2 DEF StoreInv, StoreFound
  <2>1. pc[q] \in ChainHeld /\ call[q].op # "fetch"
    BY StoringHeld DEF Storing, StoringPoints
  <2>. QED
    BY <1>6, <2>1
<1>9. PICK F : F = {m \in Reach(c) : idx[m].key = k}
  OBVIOUS
<1>10. F = {n \in Records : idx[n].key = k}
  BY <1>4, <1>7, <1>9, Sets
<1>11. Lookup(k) = {dat[idx[n].datoff].data : n \in F}
  BY <1>3, <1>9 DEF Lookup
<1>12. \A n \in F : dat[idx[n].datoff].data = store[k] /\ store[k] # NONE
  BY <1>7, <1>10
<1>13. store[k] # NONE => F # {}
  BY <1>8, <1>10
<1>. QED
  BY <1>11, <1>12, <1>13

\* A process killed inside a call, at any point of it, harms at most the key of
\* that call, and the chain if it is killed between blanking the record it
\* deletes and unlinking it.
THEOREM Survivors == Spec => []SurvivorsIntact
<1>1. Init => LossInv /\ SafeInv
  BY LossInit, SafeInit
<1>2. DbInv /\ DbInv' /\ LossInv /\ SafeInv /\ [Next]_vars => LossInv' /\ SafeInv'
  BY LossNext, SafeNext
<1>3. DbInv /\ LossInv /\ SafeInv => SurvivorsIntact
  <2>. SUFFICES ASSUME DbInv, LossInv, SafeInv, CutAlone
                PROVE  /\ \A c \in Chains \ CutChains : ~WriteLocked(c) => ~Broken(c)
                       /\ \A k \in Keys \ CrashedKeys : Hash[k] \notin CutChains /\ ~WriteLocked(Hash[k]) =>
                             Lookup(k) = {store[k]} \ {NONE}
    BY DEF SurvivorsIntact
  <2>1. \A c \in Chains \ CutChains : ~WriteLocked(c) => ~Broken(c)
    BY LossThen
  <2>2. ASSUME NEW k \in Keys \ CrashedKeys, Hash[k] \notin CutChains, ~WriteLocked(Hash[k])
        PROVE  Lookup(k) = {store[k]} \ {NONE}
    <3>1. k \in SafeKeys
      BY <2>2 DEF SafeKeys
    <3>. QED
      BY <2>2, <3>1, SafeThen
  <2>. QED
    BY <2>1, <2>2
<1>. QED
  BY <1>1, <1>2, <1>3, DbInvariant, PTL DEF Spec

-----------------------------------------------------------------------------
(***************************************************************************)
(* What a scan visits.                                                     *)
(***************************************************************************)

\* A key has one index record, on its chain or about to be linked.
LEMMA LiveOnce ==
  ASSUME TypeOK, CallOK, LockOK, NEW nxt, ListInv(nxt, {}), Cut = {},
         NEW m \in Records, NEW n \in Records, idx[m].key = idx[n].key, idx[m].key # BLANK
  PROVE  m = n
<1>1. PICK C : C = Hash[idx[m].key] /\ C \in Chains
  <2>1. m \in DOMAIN idx /\ idx \in Seq(IdxRec) /\ DOMAIN idx = 1 .. Len(idx)
    BY Sets, Domains
  <2>2. idx[m] \in IdxRec
    BY <2>1, ElementOfSeq
  <2>3. idx[m].key \in Keys
    BY <2>2 DEF IdxRec
  <2>. QED
    BY <2>3, ConstantsAssumption
<1>2. ASSUME NEW q \in Procs, Unlinked(q), NEW x \in Members(C, {}) PROVE idx[x].key # call[q].key
  <2>1. idx[x].key = call[q].key => C = ChainOff(q)
    BY <1>1 DEF Members, ChainOff
  <2>2. pc[q] \in KeyGonePoints
    BY <1>2 DEF Unlinked, KeyGonePoints, AppendPoints, StorePoints
  <2>. QED
    BY <1>1, <1>2, <2>1, <2>2, InvParts DEF ChainKnown
<1>3. ASSUME NEW q \in Procs, Unlinked(q), NEW r \in Procs, Unlinked(r), call[q].key = call[r].key PROVE q = r
  <2>1. pc[q] \in ChainHeld /\ pc[r] \in ChainHeld /\ call[q].op # "fetch"
    BY <1>3 DEF Unlinked, ChainHeld, KeyPoints, StoreOnlyPoints, AppendPoints, StorePoints, CallOK
  <2>. QED
    BY <1>3, <2>1, KeyApart
<1>4. ASSUME NEW x \in Records, idx[x].key = idx[m].key, x \notin Members(C, {})
      PROVE  \E q \in Procs : Unlinked(q) /\ db[q].idxoff = x /\ call[q].key = idx[m].key
  <2>1. PICK q \in Procs : Unlinked(q) /\ db[q].idxoff = x
    BY <1>1, <1>4 DEF Members
  <2>. QED
    BY <1>4, <2>1, UnlinkedRecord
<1>5. CASE m \in Members(C, {}) /\ n \in Members(C, {})
  BY <1>1, <1>5, InvParts DEF KeyOnce
<1>6. CASE m \notin Members(C, {}) /\ n \notin Members(C, {})
  BY <1>3, <1>4, <1>6
<1>7. CASE (m \in Members(C, {})) # (n \in Members(C, {}))
  BY <1>2, <1>4, <1>7
<1>. QED
  BY <1>5, <1>6, <1>7

\* A step of p is p's own.
LEMMA OwnStep ==
  ASSUME TypeOK, NEW p \in Procs,
         (\E c \in Uses[p] : Invoke(p, c)) \/ Rewind(p) \/ Progress(p) \/ Crash(p), NEW q \in Procs, q # p
  PROVE  /\ pc'[q] = pc[q] /\ db'[q] = db[q] /\ pos'[q] = pos[q]
         /\ scanning'[q] = scanning[q] /\ ret'[q] = ret[q]
<1>. USE DEF TypeOK, Step, Handles, At, Answer, Lock, Unlock, Return, Stored, proc, hist
<1>1. CASE (\E c \in Uses[p] : Invoke(p, c)) \/ Rewind(p) \/ Dump(p) \/ Crash(p)
  BY <1>1 DEF Invoke, Rewind, Dump, Crash, End
<1>2. CASE FindStep(p)
  BY <1>2 DEF FindStep, LockChain, ReadChain, WalkOn, Found, NotFound, FetchData, UnlockChain
<1>3. CASE DeleteStep(p)
  BY <1>3 DEF DeleteStep, DelLock, DelWritedat, DelReadfree, DelWriteidx, DelSetfree, DelUnlink, DelUnlock
<1>4. CASE FreeStep(p)
  BY <1>4 DEF FreeStep, FreeLock, FreeRead, FreeWalkOn, FreeFound, FreeNone, FreeUnlink, FreeUnlock
<1>5. CASE AppendStep(p)
  BY <1>5 DEF AppendStep, DatLock, DatSeek, DatAppend, DatUnlock, IdxLock, IdxSeek, IdxAppend, IdxUnlock
<1>6. CASE StoreStep(p)
  BY <1>6 DEF StoreStep, ReadHead, ReuseWritedat, ReuseWriteidx, Link, Overwrite, WritedatAt
<1>7. CASE ScanStep(p)
  BY <1>7 DEF ScanStep, ScanLock, ScanRead, ScanEof, ScanData, ScanUnlock
<1>. QED
  BY <1>1, <1>2, <1>3, <1>4, <1>5, <1>6, <1>7 DEF Progress

\* Every record stays, and those that are not blank keep their keys.
KeysStay == \A n \in Records : n \in Records' /\ (idx[n].key # BLANK => idx'[n].key = idx[n].key)

LEMMA PointersKeys ==
  ASSUME TypeOK, NEW off \in Heads \cup Records, NEW v \in Nat, Writeptr(off, v)
  PROVE  KeysStay
BY PointerWritten DEF KeysStay

\* Only a deletion takes a key away.
LEMMA StepKeys ==
  ASSUME TypeOK, CallOK, DataInv, NEW nxt, ListInv(nxt, {}), Cut = {}, NEW p \in Procs, pc[p] # "del_idx",
         (\E c \in Uses[p] : Invoke(p, c)) \/ Rewind(p) \/ Progress(p) \/ Crash(p)
  PROVE  KeysStay
<1>1. ASSUME idx' = idx PROVE KeysStay
  BY <1>1 DEF KeysStay, Records
<1>2. CASE (\E c \in Uses[p] : Invoke(p, c)) \/ Rewind(p) \/ Dump(p) \/ Crash(p) \/ FindStep(p) \/ ScanStep(p)
  BY <1>1, <1>2 DEF Invoke, Rewind, Dump, Crash, End, files, FindStep, LockChain, ReadChain, WalkOn, Found, NotFound,
     FetchData, UnlockChain, ScanStep, ScanLock, ScanRead, ScanEof, ScanData, ScanUnlock, Lock, Unlock, Return
<1>3. ASSUME DelSetfree(p) \/ DelUnlink(p) \/ FreeUnlink(p) \/ Link(p) PROVE KeysStay
  <2>1. /\ db[p].idxoff \in Nat /\ db[p].saveptr \in Nat /\ db[p].ptrval \in Nat
    BY ProcType DEF Handle
  <2>2. CASE DelSetfree(p)
    BY <2>1, <2>2, PointersKeys DEF DelSetfree, Heads
  <2>3. CASE DelUnlink(p)
    <3>1. pc[p] = "del_unlink" /\ Writeptr(db[p].ptroff, db[p].saveptr)
      BY <2>3 DEF DelUnlink, Step
    <3>2. PICK C \in Chains : C = ChainOff(p)
      BY <3>1, HasChain DEF KeyPoints, DeletePoints
    <3>3. db[p].ptroff \in {C} \cup Members(C, {})
      BY <3>1, <3>2, InvParts DEF ChainKnown
    <3>4. db[p].ptroff \in Heads \cup Records
      BY <3>3, Sets DEF Heads
    <3>. QED
      BY <2>1, <3>1, <3>4, PointersKeys
  <2>4. CASE FreeUnlink(p)
    <3>1. pc[p] = "ff_unlink" /\ Writeptr(db[p].saveoffset, db[p].ptrval)
      BY <2>4 DEF FreeUnlink, Step
    <3>2. db[p].saveoffset \in Heads \cup Records
      BY <3>1, InvParts, Sets DEF FreeKnown, Heads
    <3>. QED
      BY <2>1, <3>1, <3>2, PointersKeys
  <2>5. CASE Link(p)
    <3>1. pc[p] = "link" /\ Writeptr(ChainOff(p), db[p].idxoff)
      BY <2>5 DEF Link, Step
    <3>2. ChainOff(p) \in Heads \cup Records
      BY <3>1, HasChain DEF KeyPoints, StoreOnlyPoints, StorePoints, Heads
    <3>. QED
      BY <2>1, <3>1, <3>2, PointersKeys
  <2>. QED
    BY <1>3, <2>2, <2>3, <2>4, <2>5
<1>4. CASE DeleteStep(p) \/ FreeStep(p)
  <2>1. ~DelWriteidx(p)
    BY DEF DelWriteidx, Step
  <2>2. CASE \/ DelLock(p) \/ DelWritedat(p) \/ DelReadfree(p) \/ DelUnlock(p)
             \/ FreeLock(p) \/ FreeRead(p) \/ FreeWalkOn(p) \/ FreeFound(p) \/ FreeNone(p) \/ FreeUnlock(p)
    BY <1>1, <2>2 DEF DelLock, DelWritedat, DelReadfree, DelUnlock, FreeLock, FreeRead, FreeWalkOn, FreeFound,
       FreeNone, FreeUnlock, Lock, Unlock, files
  <2>. QED
    BY <1>3, <1>4, <2>1, <2>2 DEF DeleteStep, FreeStep
<1>5. ASSUME IdxAppend(p) PROVE KeysStay
  <2>1. DOMAIN idx' = DOMAIN idx \cup {Len(idx) + 1} /\ \A i \in DOMAIN idx : idx'[i] = idx[i]
    BY <1>5, IdxAppended
  <2>2. pc[p] = "idx_append" /\ idx' = Put(idx, db[p].idxoff, NewIdx(p))
    BY <1>5 DEF IdxAppend, Step
  <2>3. db[p].idxoff = Len(idx) + 1 /\ NewIdx(p) \in IdxRec
    BY <2>2, NewIdxFields DEF DataInv, HandleOK, StoreOnlyPoints, AppendPoints
  <2>4. Len(idx') = Len(idx) + 1
    BY <2>2, <2>3, Domains, Appended
  <2>. QED
    BY <2>1, <2>4, Sets DEF KeysStay, Records
<1>6. ASSUME ReuseWriteidx(p) PROVE KeysStay
  <2>1. pc[p] = "reuse_idx" /\ idx' = Put(idx, db[p].idxoff, NewIdx(p)) /\ head' = head
    BY <1>6 DEF ReuseWriteidx, Step
  <2>2. db[p].idxoff \in Records /\ idx[db[p].idxoff].key = BLANK
    BY <2>1, InvParts DEF OffListsOK, OffLists, Took
  <2>3. NewIdx(p) \in IdxRec
    BY <2>1, NewIdxFields DEF StoreOnlyPoints, StorePoints
  <2>. QED
    BY <2>1, <2>2, <2>3, RecordWritten DEF KeysStay
<1>7. CASE AppendStep(p) \/ StoreStep(p)
  <2>1. CASE \/ DatLock(p) \/ DatSeek(p) \/ DatAppend(p) \/ DatUnlock(p) \/ IdxLock(p) \/ IdxSeek(p) \/ IdxUnlock(p)
             \/ ReadHead(p) \/ ReuseWritedat(p) \/ Overwrite(p)
    BY <1>1, <2>1 DEF DatLock, DatSeek, DatAppend, DatUnlock, IdxLock, IdxSeek, IdxUnlock, ReadHead, ReuseWritedat,
       Overwrite, Lock, Unlock, files
  <2>. QED
    BY <1>3, <1>5, <1>6, <1>7, <2>1 DEF AppendStep, StoreStep
<1>. QED
  BY <1>2, <1>4, <1>7 DEF Progress

\* A deletion takes that of its call, and no other.
LEMMA DeletionKeys ==
  ASSUME TypeOK, CallOK, StoreInv(Keys), NEW p \in Procs, DelWriteidx(p)
  PROVE  \A n \in Records : n \in Records' /\ (idx[n].key # call[p].key => idx'[n].key = idx[n].key)
<1>. DEFINE rec == [ptr |-> db[p].freeptr, key |-> BLANK, keylen |-> db[p].keylen,
                    datoff |-> db[p].datoff, datlen |-> db[p].datlen]
<1>1. pc[p] = "del_idx" /\ idx' = Put(idx, db[p].idxoff, rec) /\ head' = head
  BY DEF DelWriteidx, Step
<1>2. PICK n \in Records : n = db[p].idxoff /\ idx[n].key = call[p].key
  BY <1>1 DEF StoreInv, CallKnows, HasRecord, RecordPoints, DeletingPoints
<1>3. rec \in IdxRec
  BY ProcType DEF Handle, IdxRec
<1>. HIDE DEF rec
<1>. QED
  BY <1>1, <1>2, <1>3, RecordWritten

-----------------------------------------------------------------------------
(***************************************************************************)
(* What p has passed: a key that stays is among those seen when its record *)
(* lies before this point of the file.                                     *)
(***************************************************************************)
Passed(p) == IF pc[p] = "scan_dat" THEN pos[p] - 1 ELSE pos[p]
Seen(p) == {seen[p][i] : i \in DOMAIN seen[p]}

\* Key k stays; its record is before pos or not, and it has been seen or not.
Accounted(p, k) == \E n \in Records : idx[n].key = k /\ (n < Passed(p) <=> k \in Seen(p))
SeenOnce(p) == \A i, j \in DOMAIN seen[p] : seen[p][i] = seen[p][j] /\ seen[p][i] \in stable[p] => i = j

ScanOK(p) ==
    /\ pc[p] \in ScanPoints \cup Ended \cup {"idle"}
    /\ pos[p] \in 1 .. Len(idx) + 1
    /\ pc[p] = "scan_dat" => db[p].idxoff = pos[p] - 1
    /\ pc[p] \notin Ended => \A k \in stable[p] : Accounted(p, k)
    /\ pc[p] = "scan_unlock" /\ ret[p].rc = -1 => stable[p] \subseteq Seen(p)
    /\ SeenOnce(p)

ScanKnows(p) == (pc[p] \in ScanPoints => scanning[p]) /\ (scanning[p] => ScanOK(p))

HistoryOK == seen \in [Procs -> Seq(Keys)] /\ stable \in [Procs -> SUBSET Keys]
ScanInv == HistoryOK /\ \A p \in Procs : ScanKnows(p)

StepOf(p) == (\E c \in Uses[p] : Invoke(p, c)) \/ Rewind(p) \/ Progress(p) \/ Crash(p)

\* A step of another process that leaves the keys that stay in their records.
LEMMA OthersScan ==
  ASSUME TypeOK, ScanInv, NEW p \in Procs, StepOf(p), NEW q \in Procs, q # p,
         seen'[q] = seen[q], stable'[q] \subseteq stable[q], Len(idx') \in Nat, Len(idx) <= Len(idx'),
         \A n \in Records : idx[n].key \in stable'[q] => n \in Records' /\ idx'[n].key = idx[n].key
  PROVE  ScanKnows(q)'
<1>1. /\ pc'[q] = pc[q] /\ db'[q] = db[q] /\ pos'[q] = pos[q]
      /\ scanning'[q] = scanning[q] /\ ret'[q] = ret[q]
  BY OwnStep DEF StepOf
<1>2. Passed(q)' = Passed(q) /\ Seen(q)' = Seen(q)
  BY <1>1 DEF Passed, Seen
<1>3. ASSUME ScanOK(q) PROVE ScanOK(q)'
  <2>1. PICK a, b \in Nat : a = Len(idx) /\ b = Len(idx') /\ a <= b
    BY Domains
  <2>2. pos'[q] \in 1 .. Len(idx') + 1
    <3>1. PICK x : x = pos[q] /\ x \in 1 .. a + 1
      BY <1>3, <2>1 DEF ScanOK
    <3>2. x \in 1 .. b + 1
      BY <2>1, <3>1
    <3>. QED
      BY <1>1, <2>1, <3>1, <3>2
  <2>3. ASSUME pc[q] \notin Ended, NEW k \in stable'[q] PROVE Accounted(q, k)'
    <3>1. PICK n \in Records : idx[n].key = k /\ (n < Passed(q) <=> k \in Seen(q))
      BY <1>3, <2>3 DEF ScanOK, Accounted
    <3>2. n \in Records' /\ idx'[n].key = k
      BY <3>1
    <3>. QED
      BY <1>2, <3>1, <3>2 DEF Accounted
  <2>4. SeenOnce(q)'
    BY <1>3 DEF ScanOK, SeenOnce
  <2>. QED
    BY <1>1, <1>2, <1>3, <2>2, <2>3, <2>4 DEF ScanOK
<1>. QED
  BY <1>1, <1>3 DEF ScanInv, ScanKnows

\* A scan accounts for the same keys as long as it has passed and seen the same.
LEMMA SamePassed ==
  ASSUME NEW p \in Procs, ScanOK(p), pc[p] \notin Ended, idx' = idx, seen' = seen, stable' = stable,
         \A n \in Records : idx[n].key \in stable[p] => (n < Passed(p)' <=> n < Passed(p))
  PROVE  (\A k \in stable'[p] : Accounted(p, k)') /\ SeenOnce(p)'
BY DEF ScanOK, Accounted, SeenOnce, Seen, Records

\* db_rewind.
LEMMA RewoundScan ==
  ASSUME TypeOK, HistoryOK, NEW p \in Procs, Rewound(p)
  PROVE  ScanKnows(p)' /\ HistoryOK'
<1>1. /\ pc[p] = "idle" /\ pc' = pc /\ idx' = idx /\ pos'[p] = 1
      /\ stable' = [stable EXCEPT ![p] = KeysStored] /\ seen' = [seen EXCEPT ![p] = << >>]
  BY DEF Rewound, Rewind, At, files, hist, TypeOK
<1>2. stable'[p] = KeysStored /\ seen'[p] = << >>
  BY <1>1 DEF HistoryOK
<1>3. KeysStored \subseteq Keys
  <2>. SUFFICES ASSUME NEW n \in DOMAIN idx, idx[n].key # BLANK PROVE idx[n].key \in Keys
    BY DEF KeysStored, Live
  <2>1. idx[n] \in IdxRec
    BY ElementOfSeq, Domains
  <2>. QED
    BY <2>1 DEF IdxRec
<1>4. HistoryOK'
  <2>1. << >> \in Seq(Keys)
    BY EmptySeq
  <2>. QED
    BY <1>1, <1>3, <2>1 DEF HistoryOK
<1>5. Seen(p)' = {} /\ Passed(p)' = 1 /\ SeenOnce(p)'
  BY <1>1, <1>2 DEF Seen, Passed, SeenOnce
<1>6. ASSUME NEW k \in stable'[p] PROVE Accounted(p, k)'
  <2>1. PICK n \in DOMAIN idx : idx[n].key = k
    BY <1>2 DEF KeysStored, Live
  <2>2. n \in Nat /\ ~(n < 1) /\ n \in Records'
    BY <1>1, Domains DEF Records
  <2>. QED
    BY <1>1, <1>5, <2>1, <2>2 DEF Accounted
<1>7. pos'[p] \in 1 .. Len(idx') + 1
  BY <1>1, Domains
<1>. QED
  BY <1>1, <1>4, <1>5, <1>6, <1>7 DEF ScanKnows, ScanOK, ScanPoints

\* A call of p that reads no record.
LEMMA CallScan ==
  ASSUME TypeOK, MixedUse = FALSE, NEW p \in Procs, ScanKnows(p), seen' = seen, stable' = stable,
         (\E c \in Uses[p] : Invoke(p, c)) \/ ScanLock(p) \/ ScanUnlock(p) \/ Crash(p)
  PROVE  ScanKnows(p)'
<1>2. idx' = idx /\ pos' = pos
  BY DEF Invoke, ScanLock, ScanUnlock, Lock, Return, Crash, End, files, proc
<1>3. CASE \E c \in Uses[p] : Invoke(p, c)
  <2>1. PICK c \in Uses[p] : Invoke(p, c)
    BY <1>3
  <2>2. /\ pc[p] = "idle" /\ pc'[p] = FirstPoint(c)
        /\ scanning'[p] = (scanning[p] /\ c.op = "nextrec") /\ (c.op = "nextrec" => scanning[p])
    BY <2>1 DEF Invoke, Allowed, TypeOK
  <2>3. \/ pc'[p] = "scan_lock" /\ c.op = "nextrec"
        \/ pc'[p] = "lock_chain" /\ c.op # "nextrec"
    BY <2>2 DEF FirstPoint
  <2>4. ASSUME scanning'[p] PROVE ScanOK(p)'
    <3>1. ScanOK(p) /\ pc'[p] = "scan_lock"
      BY <2>2, <2>3, <2>4 DEF ScanKnows
    <3>2. Passed(p)' = Passed(p) /\ pc[p] \notin Ended
      BY <1>2, <2>2, <3>1 DEF Passed, Ended, Killed
    <3>3. (\A k \in stable'[p] : Accounted(p, k)') /\ SeenOnce(p)'
      BY <1>2, <3>1, <3>2, SamePassed
    <3>. QED
      BY <1>2, <3>1, <3>3 DEF ScanOK, ScanPoints
  <2>. QED
    BY <2>2, <2>3, <2>4 DEF ScanKnows, ScanPoints
<1>4. CASE ScanLock(p) \/ ScanUnlock(p)
  <2>1. /\ \/ pc[p] = "scan_lock" /\ pc'[p] = "scan_read"
           \/ pc[p] = "scan_unlock" /\ pc'[p] = "idle"
        /\ scanning'[p] = scanning[p]
    BY <1>4 DEF ScanLock, ScanUnlock, Lock, Step, Return, proc, TypeOK
  <2>2. ScanOK(p) /\ scanning[p]
    BY <2>1 DEF ScanKnows, ScanPoints
  <2>3. Passed(p)' = Passed(p) /\ pc[p] \notin Ended
    BY <1>2, <2>1 DEF Passed, Ended, Killed
  <2>4. (\A k \in stable'[p] : Accounted(p, k)') /\ SeenOnce(p)'
    BY <1>2, <2>2, <2>3, SamePassed
  <2>. QED
    BY <1>2, <2>1, <2>2, <2>4 DEF ScanKnows, ScanOK, ScanPoints
<1>5. CASE Crash(p)
  <2>1. pc'[p] \in Killed /\ scanning' = scanning
    BY <1>5 DEF Crash, End, Killed, proc, TypeOK
  <2>. QED
    BY <1>2, <2>1 DEF ScanKnows, ScanOK, SeenOnce, ScanPoints, Ended, Killed
<1>. QED
  BY <1>3, <1>4, <1>5

\* _db_readidx of a record, blank or not.
LEMMA ReadScan ==
  ASSUME TypeOK, NEW p \in Procs, HistoryOK, ScanKnows(p), seen' = seen, stable' = stable, ScanRead(p)
  PROVE  ScanKnows(p)'
<1>1. /\ pc[p] = "scan_read" /\ pos[p] \in DOMAIN idx /\ scanning' = scanning /\ idx' = idx
      /\ pos'[p] = pos[p] + 1 /\ db'[p].idxoff = pos[p]
      /\ pc'[p] = IF idx[pos[p]].key = BLANK THEN "scan_read" ELSE "scan_dat"
  BY DEF ScanRead, Step, At, Handles, Readidx, Handle, files, TypeOK
<1>2. ScanOK(p) /\ scanning[p] /\ Passed(p) = pos[p]
  BY <1>1 DEF ScanKnows, ScanPoints, Passed
<1>3. PICK x \in Nat : x = pos[p] /\ x \in 1 .. Len(idx) /\ x + 1 - 1 = x
  BY <1>1, Domains
<1>4. \/ pc'[p] = "scan_read" /\ idx[x].key = BLANK /\ Passed(p)' = x + 1
      \/ pc'[p] = "scan_dat" /\ idx[x].key # BLANK /\ Passed(p)' = x
  BY <1>1, <1>3 DEF Passed
<1>5. ASSUME NEW n \in Records, idx[n].key \in stable[p] PROVE n < Passed(p)' <=> n < Passed(p)
  <2>1. idx[n].key # BLANK /\ n \in Nat
    BY <1>5, Sets, ConstantsAssumption DEF HistoryOK
  <2>2. n # x \/ Passed(p)' = x
    BY <1>4, <2>1
  <2>3. CASE Passed(p)' = x
    BY <1>2, <1>3, <2>3
  <2>4. CASE n # x /\ Passed(p)' = x + 1
    <3>1. n < x + 1 <=> n < x
      BY <2>1, <2>4
    <3>. QED
      BY <1>2, <1>3, <2>4, <3>1
  <2>. QED
    BY <1>4, <2>2, <2>3, <2>4
<1>6. (\A k \in stable'[p] : Accounted(p, k)') /\ SeenOnce(p)'
  BY <1>1, <1>2, <1>5, SamePassed DEF Ended, Killed
<1>7. pos'[p] \in 1 .. Len(idx') + 1
  <2>1. x + 1 \in 1 .. Len(idx) + 1
    BY <1>3, Domains
  <2>. QED
    BY <1>1, <1>3, <2>1
<1>8. db'[p].idxoff = pos'[p] - 1
  BY <1>1, <1>3
<1>. QED
  BY <1>1, <1>2, <1>4, <1>6, <1>7, <1>8 DEF ScanKnows, ScanOK, ScanPoints

\* The end of the file: everything that stays lies before it.
LEMMA EofScan ==
  ASSUME TypeOK, NEW p \in Procs, ScanKnows(p), seen' = seen, stable' = stable, ScanEof(p)
  PROVE  ScanKnows(p)'
<1>1. /\ pc[p] = "scan_read" /\ pc'[p] = "scan_unlock" /\ scanning' = scanning /\ idx' = idx
      /\ pos' = pos /\ pos[p] = Len(idx) + 1
  BY DEF ScanEof, Step, files, TypeOK
<1>2. ScanOK(p) /\ scanning[p] /\ Passed(p) = pos[p] /\ Passed(p)' = pos[p]
  BY <1>1 DEF ScanKnows, ScanPoints, Passed
<1>3. (\A k \in stable'[p] : Accounted(p, k)') /\ SeenOnce(p)'
  BY <1>1, <1>2, SamePassed DEF Ended, Killed
<1>4. ASSUME NEW k \in stable[p] PROVE k \in Seen(p)
  <2>1. PICK n \in Records : n < Passed(p) <=> k \in Seen(p)
    BY <1>1, <1>2, <1>4 DEF ScanOK, Accounted, Ended, Killed
  <2>2. n < Len(idx) + 1
    BY Domains, Sets
  <2>. QED
    BY <1>1, <1>2, <2>1, <2>2
<1>5. stable'[p] \subseteq Seen(p)'
  BY <1>4 DEF Seen
<1>. QED
  BY <1>1, <1>2, <1>3, <1>5 DEF ScanKnows, ScanOK, ScanPoints

\* A key is returned: the record before the offset has it, and no other does.
LEMMA VisitedScan ==
  ASSUME TypeOK, CallOK, LockOK, StoreInv(Keys), NEW nxt, ListInv(nxt, {}), Cut = {},
         HistoryOK, NEW p \in Procs, ScanKnows(p), Visited(p)
  PROVE  ScanKnows(p)' /\ HistoryOK'
<1>. DEFINE old == seen[p]
            k0 == db[p].idxbuf
<1>1. /\ pc[p] = "scan_dat" /\ pc'[p] = "scan_unlock" /\ scanning' = scanning /\ idx' = idx
      /\ pos' = pos /\ ret'[p].rc = 0 /\ stable' = stable /\ seen' = [seen EXCEPT ![p] = Append(old, k0)]
  BY DEF Visited, ScanData, Step, Answer, Abs!Result, files, TypeOK
<1>2. ScanOK(p) /\ scanning[p] /\ ScanHas(p)
  BY <1>1 DEF ScanKnows, ScanPoints, StoreInv, CallKnows
<1>3. PICK m \in Records : m = db[p].idxoff /\ idx[m].key = k0 /\ k0 # BLANK
  BY <1>2 DEF ScanHas
<1>4. m \in Nat /\ pos[p] = m + 1 /\ Passed(p) = m /\ Passed(p)' = m + 1
  <2>1. m \in Nat /\ pos[p] \in Nat /\ m = pos[p] - 1
    BY <1>1, <1>2, <1>3, Sets DEF ScanOK, TypeOK
  <2>2. pos[p] = m + 1
    BY <2>1
  <2>. QED
    BY <1>1, <2>1, <2>2 DEF Passed
<1>5. k0 \in Keys /\ old \in Seq(Keys)
  <2>1. m \in DOMAIN idx /\ idx \in Seq(IdxRec)
    BY Sets, Domains
  <2>2. idx[m] \in IdxRec
    BY <2>1, ElementOfSeq
  <2>. QED
    BY <1>3, <2>2 DEF IdxRec, HistoryOK
<1>. HIDE DEF old, k0
<1>6. /\ Append(old, k0) \in Seq(Keys) /\ Len(old) \in Nat
      /\ DOMAIN old = 1 .. Len(old) /\ DOMAIN Append(old, k0) = 1 .. Len(old) + 1
      /\ \A i \in 1 .. Len(old) : Append(old, k0)[i] = old[i]
      /\ Append(old, k0)[Len(old) + 1] = k0
  BY <1>5, AppendProperties, LenProperties
<1>7. PICK s : s = Append(old, k0)
  OBVIOUS
<1>8. PICK l \in Nat : l = Len(old)
  BY <1>6
<1>9. seen'[p] = s /\ seen[p] = old /\ HistoryOK'
  BY <1>1, <1>6, <1>7 DEF HistoryOK, old
<1>10. \A i \in 1 .. l + 1 : i \in 1 .. l \/ i = l + 1
  OBVIOUS
<1>11. DOMAIN s = 1 .. l + 1 /\ DOMAIN old = 1 .. l /\ s[l + 1] = k0 /\ \A i \in 1 .. l : s[i] = old[i]
  BY <1>6, <1>7, <1>8
<1>12. Seen(p)' = Seen(p) \cup {k0}
  <2>1. ASSUME NEW x \in Seen(p) PROVE x \in Seen(p)'
    <3>1. PICK i \in 1 .. l : old[i] = x
      BY <1>9, <1>11, <2>1 DEF Seen
    <3>2. i \in 1 .. l + 1
      OBVIOUS
    <3>. QED
      BY <1>9, <1>11, <3>1, <3>2 DEF Seen
  <2>2. k0 \in Seen(p)'
    <3>1. l + 1 \in 1 .. l + 1
      OBVIOUS
    <3>. QED
      BY <1>9, <1>11, <3>1 DEF Seen
  <2>3. ASSUME NEW x \in Seen(p)' PROVE x \in Seen(p) \cup {k0}
    <3>1. PICK i \in 1 .. l + 1 : s[i] = x
      BY <1>9, <1>11, <2>3 DEF Seen
    <3>. QED
      BY <1>9, <1>10, <1>11, <3>1 DEF Seen
  <2>. QED
    BY <2>1, <2>2, <2>3
<1>13. ASSUME NEW k \in stable[p]
       PROVE  \E n \in Records : idx[n].key = k /\ (n < m <=> k \in Seen(p)) /\ (k = k0 <=> n = m)
  <2>1. PICK n \in Records : idx[n].key = k /\ (n < m <=> k \in Seen(p))
    BY <1>1, <1>2, <1>4, <1>13 DEF ScanOK, Accounted, Ended, Killed
  <2>2. k = k0 => n = m
    BY <1>3, <2>1, LiveOnce
  <2>. QED
    BY <1>3, <2>1, <2>2
<1>14. ASSUME NEW k \in stable'[p] PROVE Accounted(p, k)'
  <2>1. PICK n \in Records : idx[n].key = k /\ (n < m <=> k \in Seen(p)) /\ (k = k0 <=> n = m)
    BY <1>1, <1>13
  <2>2. n \in Nat
    BY Sets
  <2>3. n < m + 1 <=> (n < m \/ n = m)
    BY <1>4, <2>2
  <2>4. n < m + 1 <=> k \in Seen(p)'
    BY <1>12, <2>1, <2>3
  <2>. QED
    BY <1>1, <1>4, <2>1, <2>4 DEF Accounted, Records
<1>15. k0 \in stable[p] => k0 \notin Seen(p)
  BY <1>4, <1>13
<1>16. SeenOnce(p)'
  <2>. SUFFICES ASSUME NEW i \in 1 .. l + 1, NEW j \in 1 .. l + 1, s[i] = s[j], s[i] \in stable[p] PROVE i = j
    BY <1>1, <1>9, <1>11 DEF SeenOnce
  <2>1. \A x \in 1 .. l : old[x] \in Seen(p)
    BY <1>9, <1>11 DEF Seen
  <2>2. CASE i \in 1 .. l /\ j \in 1 .. l
    <3>1. old[i] = old[j] /\ old[i] \in stable[p]
      BY <1>11, <2>2
    <3>. QED
      BY <1>2, <1>9, <1>11, <2>2, <3>1 DEF ScanOK, SeenOnce
  <2>. QED
    BY <1>10, <1>11, <1>15, <2>1, <2>2
<1>17. pos'[p] \in 1 .. Len(idx') + 1
  BY <1>1, <1>2 DEF ScanOK
<1>. QED
  BY <1>1, <1>2, <1>9, <1>14, <1>16, <1>17 DEF ScanKnows, ScanOK, ScanPoints

\* No other call is part of a scan.
LEMMA ElsewhereScan ==
  ASSUME TypeOK, CallOK, NEW p \in Procs, ScanKnows(p),
         FindStep(p) \/ DeleteStep(p) \/ FreeStep(p) \/ AppendStep(p) \/ StoreStep(p)
  PROVE  ScanKnows(p)' /\ pc'[p] \notin Ended
<1>. USE DEF Step, Lock, Unlock, Return, proc
<1>1. /\ pc[p] \notin ScanPoints \cup Ended \cup {"idle"} /\ pc'[p] \notin ScanPoints \cup Ended
      /\ scanning' = scanning
  <2>1. CASE FindStep(p)
    <3>1. CASE Found(p)
      <4>1. PICK to : to = AfterFound(call[p], idx[db[p].cur].datlen)
        OBVIOUS
      <4>2. pc[p] = "walk" /\ pc' = [pc EXCEPT ![p] = to] /\ scanning' = scanning
        BY <3>1, <4>1 DEF Found
      <4>3. call[p].op \in {"fetch", "delete", "store"}
        BY <4>2 DEF CallOK, KeyPoints, FindPoints
      <4>4. to \in {"readdat", "del_lock", "unlock_chain", "overwrite"}
        BY <4>1, <4>3 DEF AfterFound
      <4>. QED
        BY <4>2, <4>4 DEF TypeOK, ScanPoints, Ended, Killed
    <3>2. CASE NotFound(p)
      BY <3>2 DEF NotFound, TypeOK, ScanPoints, Ended, Killed
    <3>. QED
      BY <2>1, <3>1, <3>2 DEF FindStep, LockChain, ReadChain, WalkOn, FetchData, UnlockChain, TypeOK,
         ScanPoints, Ended, Killed
  <2>2. CASE DeleteStep(p)
    BY <2>2 DEF DeleteStep, DelLock, DelWritedat, DelReadfree, DelWriteidx, DelSetfree, DelUnlink, DelUnlock,
       TypeOK, ScanPoints, Ended, Killed
  <2>3. CASE FreeStep(p)
    BY <2>3 DEF FreeStep, FreeLock, FreeRead, FreeWalkOn, FreeFound, FreeNone, FreeUnlink, FreeUnlock,
       TypeOK, ScanPoints, Ended, Killed
  <2>4. CASE AppendStep(p)
    BY <2>4 DEF AppendStep, DatLock, DatSeek, DatAppend, DatUnlock, IdxLock, IdxSeek, IdxAppend, IdxUnlock,
       TypeOK, ScanPoints, Ended, Killed
  <2>5. CASE StoreStep(p)
    BY <2>5 DEF StoreStep, ReadHead, ReuseWritedat, ReuseWriteidx, Link, Overwrite, WritedatAt,
       TypeOK, ScanPoints, Ended, Killed
  <2>. QED
    BY <2>1, <2>2, <2>3, <2>4, <2>5
<1>. QED
  BY <1>1 DEF ScanKnows, ScanOK

-----------------------------------------------------------------------------
ScanDb == DbInv /\ Whole /\ NoDump

\* The file never shrinks.
LEMMA Longer ==
  ASSUME TypeOK, TypeOK', \A n \in Records : n \in Records'
  PROVE  Len(idx') \in Nat /\ Len(idx) <= Len(idx')
<1>1. Records = 1 .. Len(idx) /\ Records' = 1 .. Len(idx') /\ Len(idx) \in Nat /\ Len(idx') \in Nat
  <2>1. Records = DOMAIN idx /\ Records' = DOMAIN idx'
    BY DEF Records
  <2>2. DOMAIN idx = 1 .. Len(idx) /\ Len(idx) \in Nat
    BY LenProperties DEF TypeOK
  <2>3. DOMAIN idx' = 1 .. Len(idx') /\ Len(idx') \in Nat
    BY LenProperties DEF TypeOK
  <2>. QED
    BY <2>1, <2>2, <2>3
<1>2. PICK a, b \in Nat : a = Len(idx) /\ b = Len(idx')
  BY <1>1
<1>3. a <= b
  <2>1. CASE a = 0
    BY <2>1
  <2>2. CASE a # 0
    <3>1. a \in 1 .. a
      BY <2>2
    <3>2. a \in 1 .. b
      BY <1>1, <1>2, <3>1
    <3>. QED
      BY <3>2
  <2>. QED
    BY <2>1, <2>2
<1>. QED
  BY <1>2, <1>3

LEMMA ScanIsNext == ScanNext => Next
<1>. SUFFICES ASSUME NEW p \in Procs, Rewound(p) \/ Removed(p) \/ Visited(p) \/ Unobserved(p) PROVE Next
  BY DEF ScanNext
<1>1. (\E c \in Uses[p] : Invoke(p, c)) \/ Rewind(p) \/ Progress(p) \/ Crash(p)
  BY DEF Rewound, Removed, Visited, Unobserved, Progress, DeleteStep, ScanStep
<1>. QED
  BY <1>1 DEF Next

LEMMA NextScan ==
  ASSUME MixedUse = FALSE, ScanDb, ScanInv, TypeOK', [ScanNext]_scanVars
  PROVE  ScanInv' /\ NoDump'
<1>. USE DEF ScanDb, DbInv, Whole
<1>1. CASE UNCHANGED scanVars
  BY <1>1 DEF scanVars, vars, ScanInv, HistoryOK, ScanKnows, ScanOK, Accounted, Passed, Seen, SeenOnce, Records, NoDump
<1>2. ASSUME NEW p \in Procs, Rewound(p) \/ Removed(p) \/ Visited(p) \/ Unobserved(p)
      PROVE  ScanInv' /\ NoDump'
  <2>1. PICK nxt : ListInv(nxt, {}) /\ Cut = {}
    BY DEF LinksKept
  <2>2. StepOf(p)
    BY <1>2 DEF StepOf, Rewound, Removed, Visited, Unobserved, Progress, DeleteStep, ScanStep
  <2>3. HistoryOK /\ ScanKnows(p)
    BY DEF ScanInv
  <2>4. ~Insane(p)
    <3>. SUFFICES ASSUME Insane(p) PROVE FALSE
      OBVIOUS
    <3>1. pc[p] = "scan_read" /\ pos[p] \notin 1 .. Len(idx) + 1
      BY <2>1, SaneButScan DEF Insane
    <3>. QED
      BY <2>3, <3>1 DEF ScanKnows, ScanOK, ScanPoints
  <2>5. ~Dump(p)
    BY <2>4 DEF Dump
  <2>6. ScanKnows(p)' /\ pc'[p] # "dumped" /\ HistoryOK'
    <3>1. CASE Rewound(p)
      <4>1. pc' = pc
        BY <3>1 DEF Rewound, Rewind
      <4>. QED
        BY <2>3, <3>1, <4>1, RewoundScan DEF NoDump
    <3>2. CASE Visited(p)
      <4>1. pc'[p] = "scan_unlock"
        BY <3>2 DEF Visited, ScanData, Step, TypeOK
      <4>. QED
        BY <2>1, <2>3, <3>2, <4>1, VisitedScan
    <3>3. CASE Removed(p)
      <4>1. ScanKnows(p)' /\ pc'[p] \notin Ended
        BY <2>3, <3>3, ElsewhereScan DEF Removed, DeleteStep
      <4>2. HistoryOK'
        BY <2>3, <3>3 DEF Removed, HistoryOK
      <4>. QED
        BY <4>1, <4>2 DEF Ended, Killed
    <3>4. CASE Unobserved(p)
      <4>1. seen' = seen /\ stable' = stable /\ HistoryOK'
        BY <2>3, <3>4 DEF Unobserved, HistoryOK
      <4>2. CASE (\E c \in Uses[p] : Invoke(p, c)) \/ ScanLock(p) \/ ScanUnlock(p) \/ Crash(p)
        <5>1. pc'[p] # "dumped"
          BY <4>2 DEF Invoke, FirstPoint, ScanLock, ScanUnlock, Lock, Step, Return, Crash, End, TypeOK
        <5>2. ScanKnows(p)'
          BY <2>3, <4>1, <4>2, CallScan
        <5>. QED
          BY <4>1, <5>1, <5>2
      <4>3. CASE ScanRead(p)
        <5>1. pc'[p] # "dumped"
          BY <4>3 DEF ScanRead, Step, TypeOK
        <5>2. ScanKnows(p)'
          BY <2>3, <4>1, <4>3, ReadScan
        <5>. QED
          BY <4>1, <5>1, <5>2
      <4>4. CASE ScanEof(p)
        <5>1. pc'[p] # "dumped"
          BY <4>4 DEF ScanEof, Step, TypeOK
        <5>2. ScanKnows(p)'
          BY <2>3, <4>1, <4>4, EofScan
        <5>. QED
          BY <4>1, <5>1, <5>2
      <4>5. CASE FindStep(p) \/ DeleteStep(p) \/ FreeStep(p) \/ AppendStep(p) \/ StoreStep(p)
        BY <2>3, <4>1, <4>5, ElsewhereScan DEF Ended, Killed
      <4>6. ~(ScanData(p) /\ pc[p] \notin {"del_idx", "scan_dat"})
        BY DEF ScanData, Step
      <4>. QED
        BY <2>5, <3>4, <4>2, <4>3, <4>4, <4>5, <4>6 DEF Unobserved, Progress, ScanStep
    <3>. QED
      BY <1>2, <3>1, <3>2, <3>3, <3>4
  <2>7. ASSUME NEW q \in Procs, q # p PROVE ScanKnows(q)'
    <3>1. stable'[q] \subseteq stable[q] /\ seen'[q] = seen[q]
      BY <1>2, <2>3, <2>7 DEF Rewound, Removed, Visited, Unobserved, HistoryOK
    <3>2. (\A n \in Records : n \in Records')
          /\ (\A n \in Records : idx[n].key \in stable'[q] => idx'[n].key = idx[n].key)
      <4>1. CASE Removed(p)
        <5>1. DelWriteidx(p) /\ stable'[q] = stable[q] \ {call[p].key}
          BY <2>3, <4>1 DEF Removed, HistoryOK
        <5>. QED
          BY <5>1, DeletionKeys
      <4>2. CASE ~Removed(p)
        <5>1. ASSUME Crash(p) PROVE KeysStay
          BY <5>1 DEF Crash, End, files, KeysStay, Records
        <5>2. ASSUME ~Crash(p) PROVE KeysStay
          <6>1. pc[p] # "del_idx"
            BY <1>2, <2>5, <4>2, <5>2 DEF Rewound, Rewind, Visited, ScanData, Step, Unobserved, Invoke
          <6>. QED
            BY <2>1, <2>2, <6>1, StepKeys DEF StepOf
        <5>3. KeysStay
          BY <5>1, <5>2
        <5>4. \A n \in Records : idx[n].key \in stable'[q] => idx[n].key # BLANK
          BY <2>3, <3>1, ConstantsAssumption DEF HistoryOK
        <5>. QED
          BY <5>3, <5>4 DEF KeysStay
      <4>. QED
        BY <4>1, <4>2
    <3>3. Len(idx') \in Nat /\ Len(idx) <= Len(idx')
      BY <3>2, Longer
    <3>. QED
      BY <2>2, <2>7, <3>1, <3>2, <3>3, OthersScan
  <2>8. NoDump'
    <3>1. \A q \in Procs : q # p => pc'[q] = pc[q]
      BY <2>2, OwnStep DEF StepOf
    <3>. QED
      BY <2>6, <3>1 DEF NoDump
  <2>. QED
    BY <2>6, <2>7, <2>8 DEF ScanInv
<1>. QED
  BY <1>1, <1>2 DEF ScanNext

\* A scan visits every key that stays, once, and the sanity checks of the
\* library stop no process, with any number of processes and any calls around
\* the scan: as long as a process rewinds before it scans again, and is not
\* killed where it leaves a change half done.
THEOREM Scans ==
  ASSUME Unharmed, MixedUse = FALSE
  PROVE  ScanSpec => []ScanExact
<1>. DEFINE SInv == ScanInv /\ NoDump
<1>1. ScanInit => Init /\ Whole /\ SInv
  <2>. SUFFICES ASSUME ScanInit PROVE Init /\ Whole /\ SInv
    OBVIOUS
  <2>1. Init /\ Whole
    BY InitWhole DEF ScanInit
  <2>2. /\ \A p \in Procs : pc[p] = "idle" /\ pos[p] = 1 /\ seen[p] = << >> /\ stable[p] = {}
        /\ idx = << >> /\ Len(idx) = 0 /\ scanning \in [Procs -> BOOLEAN]
    BY DEF ScanInit, Init
  <2>3. HistoryOK
    BY EmptySeq DEF ScanInit, HistoryOK
  <2>4. ASSUME NEW p \in Procs PROVE ScanKnows(p)
    BY <2>2 DEF ScanKnows, ScanOK, SeenOnce, ScanPoints
  <2>5. NoDump
    BY <2>2 DEF NoDump
  <2>. QED
    BY <2>1, <2>3, <2>4, <2>5 DEF ScanInv
<1>2. [ScanNext]_scanVars => [Next]_vars
  BY ScanIsNext DEF scanVars
<1>3. Whole /\ DbInv /\ DbInv' /\ [Next]_vars => Whole'
  BY NextWhole
<1>4. DbInv /\ DbInv' /\ Whole /\ SInv /\ [ScanNext]_scanVars => SInv'
  BY NextScan DEF ScanDb, DbInv
<1>5. DbInv /\ SInv => ScanExact
  <2>. SUFFICES ASSUME SInv, NEW p \in Procs, scanning[p]
                PROVE  /\ pc[p] = "scan_unlock" /\ ret[p].rc = -1 => stable[p] \subseteq {seen[p][i] : i \in DOMAIN seen[p]}
                       /\ \A i, j \in DOMAIN seen[p] : seen[p][i] = seen[p][j] /\ seen[p][i] \in stable[p] => i = j
    BY DEF ScanExact, ScanComplete, ScanOnce
  <2>. QED
    BY DEF ScanInv, ScanKnows, ScanOK, Seen, SeenOnce
<1>. HIDE DEF SInv
<1>. QED
  BY <1>1, <1>2, <1>3, <1>4, <1>5, DbInvariant, PTL DEF Spec, ScanSpec
=============================================================================
