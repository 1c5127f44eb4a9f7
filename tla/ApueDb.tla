------------------------------- MODULE ApueDb -------------------------------
(***************************************************************************)
(* The multi-user database library of lab_1/apue.3e/db/db.c.               *)
(*                                                                         *)
(* Every process has the index file and the data file open through a       *)
(* handle of its own.  The index file starts with a table of chain         *)
(* pointers, the first of which heads the free list; index records follow  *)
(* and are linked into the chains.  The processes coordinate only through  *)
(* fcntl byte-range locks.  One step of this specification is one system   *)
(* call on a shared file (a seek of one's own offset goes with the read or *)
(* write after it, except where the code takes a lock to keep the two      *)
(* together), or one decision of the code between two such calls.          *)
(*                                                                         *)
(* Offsets into the index file are the ordinals of the index records, 0 is *)
(* the null pointer, and the table is addressed by chain or by FREE_OFF.   *)
(* Offsets into the data file are the ordinals of the data records.  A     *)
(* record is never rewritten with another length, which is what makes      *)
(* ordinals as good as byte offsets: RecordsStay and DataOwned state it.   *)
(***************************************************************************)
EXTENDS Integers, Sequences, FiniteSets

CONSTANTS
    Procs, Keys, Data, NONE,    \* as in KeyedStore
    Chains,       \* the hash chains, named by the offset of their pointer
    Hash,         \* Hash[k]: the chain of key k, see _db_hash
    KeyLen,       \* KeyLen[k]: strlen(k)
    DatLen,       \* DatLen[d]: strlen(d) + 1, the newline included
    BLANK,        \* a key or data string overwritten with blanks
    FREE_OFF,     \* offset of the free list pointer
    IDX_END,      \* the bytes of the index file after the hash table
    DAT_ALL,      \* the bytes of the data file
    Uses,         \* Uses[p]: the calls p may make
    MaxCalls,     \* MaxCalls[p]: bound on the number of calls p makes
    MixedUse,     \* whether other calls may come between two db_nextrec
    CrashAt       \* the program points at which a process may be killed

Regions == Chains \cup {FREE_OFF, IDX_END, DAT_ALL}

VARIABLES
    head,      \* head[c]: the pointer at offset c of the table
    idx,       \* the index records, in file order
    dat,       \* the data records, in file order
    lock,      \* lock[p][r]: the fcntl lock of p on region r
    pos,       \* pos[p]: file offset of p's index descriptor: the record it
               \* is at, or 0 when it is not at the start of a record
    scanning,  \* scanning[p]: p made no call but db_nextrec since db_rewind
    pc, db,    \* where process p is in the code, and its DB structure
    ncalls,    \* how many calls p has made
    store, call, ret     \* the variables of KeyedStore

Abs == INSTANCE KeyedStore

ASSUME ConstantsAssumption ==
    /\ Hash \in [Keys -> Chains]
    /\ KeyLen \in [Keys -> Nat \ {0}]
    /\ DatLen \in [Data -> Nat \ {0}]
    /\ NONE \notin Keys \cup Data \cup {BLANK} \cup Abs!Flags
    /\ BLANK \notin Keys \cup Data
    /\ Chains \cap ({FREE_OFF, IDX_END, DAT_ALL} \cup Nat) = {}
    /\ {FREE_OFF, IDX_END, DAT_ALL} \cap Nat = {}
    /\ FREE_OFF # IDX_END /\ FREE_OFF # DAT_ALL /\ IDX_END # DAT_ALL
    /\ Uses \in [Procs -> SUBSET Abs!Calls]
    /\ MaxCalls \in [Procs -> Nat]
    /\ MixedUse \in BOOLEAN

files == <<head, idx, dat>>
proc == <<pos, db, scanning, ncalls>>
hist == <<store, ret>>
vars == <<head, idx, dat, lock, pos, scanning, pc, db, ncalls, store, call, ret>>

-----------------------------------------------------------------------------
\* State

IdxRec == [ptr : Nat, key : Keys \cup {BLANK}, keylen : Nat,
           datoff : Nat, datlen : Nat]
DatRec == [len : Nat, data : Data \cup {BLANK}]

\* The fields of a DB structure that outlive the call that sets them, and
\* the locals of the functions that are running: cur is offset in
\* _db_find_and_lock and _db_findfree, chainptr is ptrval in db_store.
Cells == Chains \cup {FREE_OFF} \cup Nat
Handle == [idxoff : Nat, datoff : Nat, datlen : Nat, ptrval : Nat,
           idxbuf : Keys \cup {BLANK, NONE}, keylen : Nat,
           ptroff : Cells, cur : Nat, saveoffset : Cells,
           saveptr : Nat, freeptr : Nat, chainptr : Nat]

NewHandle == [idxoff |-> 0, datoff |-> 0, datlen |-> 0, ptrval |-> 0,
              idxbuf |-> NONE, keylen |-> 0,
              ptroff |-> 0, cur |-> 0, saveoffset |-> 0,
              saveptr |-> 0, freeptr |-> 0, chainptr |-> 0]

FindPoints   == {"lock_chain", "read_chain", "walk"}
DeletePoints == {"del_lock", "del_dat", "del_readfree", "del_idx",
                 "del_setfree", "del_unlink", "del_unlock"}
FreePoints   == {"ff_lock", "ff_read", "ff_walk", "ff_unlink", "ff_unlock"}
AppendPoints == {"dat_lock", "dat_seek", "dat_append", "dat_unlock",
                 "idx_lock", "idx_seek", "idx_append", "idx_unlock"}
StorePoints  == {"read_head", "reread_head", "reuse_dat", "reuse_idx",
                 "link", "overwrite"}
ScanPoints   == {"scan_lock", "scan_read", "scan_dat", "scan_unlock"}
Killed       == {"crashed", "cut"}
Ended        == {"dumped"} \cup Killed
Points == FindPoints \cup DeletePoints \cup FreePoints \cup AppendPoints
          \cup StorePoints \cup ScanPoints \cup Ended
          \cup {"idle", "readdat", "unlock_chain"}

\* What a call can return as far as the buffers go; that it never returns
\* blanks is part of Linearizable.
Answers == [rc : {-1, 0, 1}, key : Keys \cup {BLANK, NONE},
            data : Data \cup {BLANK, NONE}]

TypeOK ==
    /\ head \in [Chains \cup {FREE_OFF} -> Nat]
    /\ idx \in Seq(IdxRec)
    /\ dat \in Seq(DatRec)
    /\ lock \in [Procs -> [Regions -> {"none", "read", "write"}]]
    /\ pos \in [Procs -> Nat]
    /\ scanning \in [Procs -> BOOLEAN]
    /\ pc \in [Procs -> Points]
    /\ db \in [Procs -> Handle]
    /\ ncalls \in [Procs -> Nat]
    /\ store \in [Keys -> Data \cup {NONE}]
    /\ call \in [Procs -> Abs!Calls \cup {Abs!Idle}]
    /\ ret \in [Procs -> Answers]

\* What call a process is in at each point of the code.
StoreOnlyPoints == FreePoints \cup AppendPoints \cup StorePoints
KeyPoints == FindPoints \cup DeletePoints \cup StoreOnlyPoints
             \cup {"readdat", "unlock_chain"}

CallOK ==
    \A p \in Procs :
        /\ pc[p] = "idle" => call[p] = Abs!Idle
        /\ pc[p] \in ScanPoints => call[p] = Abs!NextrecCall
        /\ pc[p] \in KeyPoints => call[p].op \in {"fetch", "delete", "store"}
        /\ pc[p] \in DeletePoints => call[p].op \in {"delete", "store"}
        /\ pc[p] \in StoreOnlyPoints => call[p].op = "store"

\* The database has just been created, and everyone has it open: db_open
\* has written a table of null pointers and called db_rewind.
Init ==
    /\ head = [c \in Chains \cup {FREE_OFF} |-> 0]
    /\ idx = << >>
    /\ dat = << >>
    /\ lock = [p \in Procs |-> [r \in Regions |-> "none"]]
    /\ pos = [p \in Procs |-> 1]
    /\ scanning = [p \in Procs |-> TRUE]
    /\ pc = [p \in Procs |-> "idle"]
    /\ db = [p \in Procs |-> NewHandle]
    /\ ncalls = [p \in Procs |-> 0]
    /\ Abs!Init

-----------------------------------------------------------------------------
\* fcntl locks (F_SETLKW and F_UNLCK).  A process never conflicts with
\* itself, and a new lock on a region replaces its old one.

Compatible(t, u) == t = "none" \/ u = "none" \/ (t = "read" /\ u = "read")

Acquire(p, r, t) ==
    /\ \A q \in Procs \ {p} : Compatible(t, lock[q][r])
    /\ lock' = [lock EXCEPT ![p][r] = t]

Release(p, r) == lock' = [lock EXCEPT ![p][r] = "none"]

\* Files

\* (mutant) A list that ends with -1.
ReadptrMinusOne(off) ==
    LET v == IF off \in Nat THEN idx[off].ptr ELSE head[off]
    IN IF v = 0 THEN -1 ELSE v

Readptr(off) == IF off \in Nat THEN idx[off].ptr ELSE head[off]

Writeptr(off, v) ==
    IF off \in Nat
    THEN idx' = [idx EXCEPT ![off].ptr = v] /\ UNCHANGED head
    ELSE head' = [head EXCEPT ![off] = v] /\ UNCHANGED idx

\* Replacement of record n of a file, or an append when n is its end.
Put(file, n, rec) ==
    IF n = Len(file) + 1 THEN Append(file, rec) ELSE [file EXCEPT ![n] = rec]

ChainOff(p) == Hash[call[p].key]

\* The handle after _db_readidx at offset off, and the two variables that
\* the calls on a handle change: its fields, and its file offset.
Readidx(p, off) ==
    [db[p] EXCEPT !.idxoff = off,            !.ptrval = idx[off].ptr,
                  !.idxbuf = idx[off].key,   !.keylen = idx[off].keylen,
                  !.datoff = idx[off].datoff, !.datlen = idx[off].datlen]
Handles(p, h) == db' = [db EXCEPT ![p] = h]
At(p, n) == pos' = [pos EXCEPT ![p] = n]

\* Whether _db_readdat finds a data record of the length it expects.
DataReadable(p) ==
    db[p].datoff \in DOMAIN dat /\ dat[db[p].datoff].len = db[p].datlen

-----------------------------------------------------------------------------
\* Calls

Allowed(p, c) ==
    /\ c \in Uses[p]
    /\ c.op = "nextrec" => scanning[p] \/ MixedUse

FirstPoint(c) == IF c.op = "nextrec" THEN "scan_lock" ELSE "lock_chain"

Invoke(p, c) ==
    /\ pc[p] = "idle"
    /\ ncalls[p] < MaxCalls[p]
    /\ Allowed(p, c)
    /\ pc' = [pc EXCEPT ![p] = FirstPoint(c)]
    /\ call' = [call EXCEPT ![p] = c]
    /\ ncalls' = [ncalls EXCEPT ![p] = @ + 1]
    /\ scanning' = [scanning EXCEPT ![p] = @ /\ c.op = "nextrec"]
    /\ UNCHANGED <<files, lock, pos, db, hist>>

\* db_rewind: the offset goes to the first record; there is nothing to lock.
Rewind(p) ==
    /\ pc[p] = "idle"
    /\ Abs!NextrecCall \in Uses[p]
    /\ At(p, 1)
    /\ Handles(p, [db[p] EXCEPT !.idxoff = 1])
    /\ scanning' = [scanning EXCEPT ![p] = TRUE]
    /\ UNCHANGED <<files, lock, pc, ncalls, hist, call>>

\* A step of p inside its call.
Step(p, from, to) ==
    /\ pc[p] = from
    /\ pc' = [pc EXCEPT ![p] = to]
    /\ UNCHANGED <<call, ncalls, scanning>>

Lock(p, from, r, t, to) ==
    /\ Step(p, from, to)
    /\ Acquire(p, r, t)
    /\ UNCHANGED <<files, pos, db, hist>>

Unlock(p, from, r, to) ==
    /\ Step(p, from, to)
    /\ Release(p, r)
    /\ UNCHANGED <<files, pos, db, hist>>

\* The call of p takes effect with result r.
Answer(p, r) == ret' = [ret EXCEPT ![p] = r]

\* The last step of a call: region r is unlocked and the caller goes on.
Return(p, from, r) ==
    /\ pc[p] = from
    /\ pc' = [pc EXCEPT ![p] = "idle"]
    /\ Release(p, r)
    /\ call' = [call EXCEPT ![p] = Abs!Idle]
    /\ ret' = [ret EXCEPT ![p] = Abs!Pending]
    /\ UNCHANGED <<files, proc, store>>

-----------------------------------------------------------------------------
\* _db_find_and_lock

\* (mutant) Everyone takes the chain for reading.
LockChainShared(p) == Lock(p, "lock_chain", ChainOff(p), "read", "read_chain")

LockChain(p) == Lock(p, "lock_chain", ChainOff(p),
                     IF call[p].op = "fetch" THEN "read" ELSE "write", "read_chain")

ReadChain(p) ==
    /\ Step(p, "read_chain", "walk")
    /\ Handles(p, [db[p] EXCEPT !.ptroff = ChainOff(p), !.cur = Readptr(ChainOff(p))])
    /\ At(p, 0)
    /\ UNCHANGED <<files, lock, hist>>

\* The record at cur has another key: on to the next one.
WalkOn(p) ==
    /\ Step(p, "walk", "walk")
    /\ db[p].cur \in DOMAIN idx
    /\ idx[db[p].cur].key # call[p].key
    /\ Handles(p, [Readidx(p, db[p].cur) EXCEPT !.ptroff = db[p].cur,
                                                 !.cur = idx[db[p].cur].ptr])
    /\ At(p, db[p].cur + 1)
    /\ UNCHANGED <<files, lock, hist>>

\* (mutant) A replacement of another length is added beside the old record.
AfterFoundBeside(c, datlen) ==
    CASE c.op = "fetch"  -> "readdat"
      [] c.op = "delete" -> "del_lock"
      [] c.op = "store"  ->
            IF c.flag = "DB_INSERT" THEN "unlock_chain"
            ELSE IF DatLen[c.data] # datlen THEN "reread_head"
            ELSE "overwrite"

\* Where the caller of _db_find_and_lock goes when the record is found.
AfterFound(c, datlen) ==
    CASE c.op = "fetch"  -> "readdat"
      [] c.op = "delete" -> "del_lock"
      [] c.op = "store"  ->
            IF c.flag = "DB_INSERT" THEN "unlock_chain"
            ELSE IF DatLen[c.data] # datlen THEN "del_lock"
            ELSE "overwrite"

Found(p) ==
    /\ db[p].cur \in DOMAIN idx
    /\ idx[db[p].cur].key = call[p].key
    /\ Step(p, "walk", AfterFound(call[p], idx[db[p].cur].datlen))
    /\ Handles(p, Readidx(p, db[p].cur))
    /\ At(p, db[p].cur + 1)
    /\ IF call[p].flag = "DB_INSERT"
       THEN Answer(p, Abs!Result(1, call[p].key, NONE))
       ELSE UNCHANGED ret
    /\ UNCHANGED <<files, lock, store>>

\* The chain has ended.  DB_INSERT and DB_STORE go on to add the record;
\* everything else fails.
NotFound(p) ==
    /\ db[p].cur = 0
    /\ IF call[p].flag \in {"DB_INSERT", "DB_STORE"}
       THEN Step(p, "walk", "read_head") /\ UNCHANGED ret
       ELSE /\ Step(p, "walk", "unlock_chain")
            /\ Answer(p, Abs!Result(-1, call[p].key, NONE))
    /\ UNCHANGED <<files, lock, pos, db, store>>

\* db_fetch, db_delete and db_store end by unlocking the chain.
UnlockChain(p) == Return(p, "unlock_chain", ChainOff(p))

\* db_fetch: _db_readdat of the record found.
FetchData(p) ==
    /\ Step(p, "readdat", "unlock_chain")
    /\ DataReadable(p)
    /\ Answer(p, Abs!Result(0, call[p].key, dat[db[p].datoff].data))
    /\ UNCHANGED <<files, lock, pos, db, store>>

-----------------------------------------------------------------------------
\* _db_dodelete, of the record _db_find_and_lock has found

DelLock(p) == Lock(p, "del_lock", FREE_OFF, "write", "del_dat")

DelWritedat(p) ==
    /\ Step(p, "del_dat", "del_readfree")
    /\ dat' = Put(dat, db[p].datoff, [len |-> db[p].datlen, data |-> BLANK])
    /\ UNCHANGED <<head, idx, lock, pos, db, hist>>

DelReadfree(p) ==
    /\ Step(p, "del_readfree", "del_idx")
    /\ Handles(p, [db[p] EXCEPT !.freeptr = Readptr(FREE_OFF),
                                !.saveptr = db[p].ptrval])
    /\ At(p, 0)
    /\ UNCHANGED <<files, lock, hist>>

\* The record leaves the sight of scans here; a db_delete takes effect.
DelWriteidx(p) ==
    /\ Step(p, "del_idx", "del_setfree")
    /\ idx' = Put(idx, db[p].idxoff,
                  [ptr |-> db[p].freeptr, key |-> BLANK,
                   keylen |-> db[p].keylen,
                   datoff |-> db[p].datoff, datlen |-> db[p].datlen])
    /\ Handles(p, [db[p] EXCEPT !.ptrval = db[p].freeptr])
    /\ At(p, db[p].idxoff + 1)
    /\ IF call[p].op = "delete"
       THEN /\ store' = [store EXCEPT ![call[p].key] = NONE]
            /\ Answer(p, Abs!Result(0, call[p].key, NONE))
       ELSE UNCHANGED hist
    /\ UNCHANGED <<head, dat, lock>>

DelSetfree(p) ==
    /\ Step(p, "del_setfree", "del_unlink")
    /\ Writeptr(FREE_OFF, db[p].idxoff)
    /\ At(p, 0)
    /\ UNCHANGED <<dat, lock, db, hist>>

\* (mutant) The chain pointer is taken after _db_writeidx has rewritten it.
DelUnlinkUnsaved(p) ==
    /\ Step(p, "del_unlink", "del_unlock")
    /\ Writeptr(db[p].ptroff, db[p].ptrval)
    /\ At(p, 0)
    /\ UNCHANGED <<dat, lock, db, hist>>

DelUnlink(p) ==
    /\ Step(p, "del_unlink", "del_unlock")
    /\ Writeptr(db[p].ptroff, db[p].saveptr)
    /\ At(p, 0)
    /\ UNCHANGED <<dat, lock, db, hist>>

\* (mutant) The free list stays locked.
DelUnlockForgotten(p) ==
    /\ Step(p, "del_unlock",
            IF call[p].op = "delete" THEN "unlock_chain" ELSE "reread_head")
    /\ UNCHANGED <<files, pos, db, hist, lock>>

DelUnlock(p) == Unlock(p, "del_unlock", FREE_OFF,
                       IF call[p].op = "delete" THEN "unlock_chain" ELSE "reread_head")

-----------------------------------------------------------------------------
\* _db_findfree

\* (mutant) The free list is only read locked.
FreeLockShared(p) == Lock(p, "ff_lock", FREE_OFF, "read", "ff_read")

FreeLock(p) == Lock(p, "ff_lock", FREE_OFF, "write", "ff_read")

FreeRead(p) ==
    /\ Step(p, "ff_read", "ff_walk")
    /\ Handles(p, [db[p] EXCEPT !.saveoffset = FREE_OFF, !.cur = Readptr(FREE_OFF)])
    /\ At(p, 0)
    /\ UNCHANGED <<files, lock, hist>>

\* (mutant) The length of the key is not compared.
FitsData(p, n) == idx[n].datlen = DatLen[call[p].data]

\* A free record serves when both its key and its data have the right length.
Fits(p, n) == /\ idx[n].keylen = KeyLen[call[p].key]
              /\ idx[n].datlen = DatLen[call[p].data]

FreeWalkOn(p) ==
    /\ Step(p, "ff_walk", "ff_walk")
    /\ db[p].cur \in DOMAIN idx
    /\ ~Fits(p, db[p].cur)
    /\ Handles(p, [Readidx(p, db[p].cur) EXCEPT !.saveoffset = db[p].cur,
                                                 !.cur = idx[db[p].cur].ptr])
    /\ At(p, db[p].cur + 1)
    /\ UNCHANGED <<files, lock, hist>>

FreeFound(p) ==
    /\ Step(p, "ff_walk", "ff_unlink")
    /\ db[p].cur \in DOMAIN idx
    /\ Fits(p, db[p].cur)
    /\ Handles(p, Readidx(p, db[p].cur))
    /\ At(p, db[p].cur + 1)
    /\ UNCHANGED <<files, lock, hist>>

FreeNone(p) ==
    /\ Step(p, "ff_walk", "ff_unlock")
    /\ db[p].cur = 0
    /\ UNCHANGED <<files, lock, pos, db, hist>>

FreeUnlink(p) ==
    /\ Step(p, "ff_unlink", "ff_unlock")
    /\ Writeptr(db[p].saveoffset, db[p].ptrval)
    /\ At(p, 0)
    /\ UNCHANGED <<dat, lock, db, hist>>

FreeUnlock(p) == Unlock(p, "ff_unlock", FREE_OFF,
                        IF db[p].cur = 0 THEN "dat_lock" ELSE "reuse_dat")

-----------------------------------------------------------------------------
\* db_store, after _db_find_and_lock

\* The chain pointer becomes the new record's; reread after a deletion,
\* which may have changed it.
ReadHead(p) ==
    /\ \/ Step(p, "read_head", "ff_lock")
       \/ Step(p, "reread_head", "dat_lock")
    /\ Handles(p, [db[p] EXCEPT !.chainptr = Readptr(ChainOff(p))])
    /\ At(p, 0)
    /\ UNCHANGED <<files, lock, hist>>

\* (mutant) The append does not exclude another.
DatLockShared(p) == Lock(p, "dat_lock", DAT_ALL, "read", "dat_seek")

\* _db_writedat at the end of the data file.
DatLock(p) == Lock(p, "dat_lock", DAT_ALL, "write", "dat_seek")

DatSeek(p) ==
    /\ Step(p, "dat_seek", "dat_append")
    /\ Handles(p, [db[p] EXCEPT !.datoff = Len(dat) + 1,
                                !.datlen = DatLen[call[p].data]])
    /\ UNCHANGED <<files, lock, pos, hist>>

DatAppend(p) ==
    /\ Step(p, "dat_append", "dat_unlock")
    /\ dat' = Put(dat, db[p].datoff, [len |-> db[p].datlen, data |-> call[p].data])
    /\ UNCHANGED <<head, idx, lock, pos, db, hist>>

DatUnlock(p) == Unlock(p, "dat_unlock", DAT_ALL, "idx_lock")

\* (mutant) The new record does not lead on to the rest of the chain.
NewIdxAlone(p) == [ptr |-> 0, key |-> call[p].key,
                   keylen |-> KeyLen[call[p].key],
                   datoff |-> db[p].datoff, datlen |-> db[p].datlen]

\* The index record _db_writeidx writes for a store.
NewIdx(p) == [ptr |-> db[p].chainptr, key |-> call[p].key,
              keylen |-> KeyLen[call[p].key],
              datoff |-> db[p].datoff, datlen |-> db[p].datlen]

\* A store takes effect when its index record can be seen by a scan.
Stored(p) == /\ store' = [store EXCEPT ![call[p].key] = call[p].data]
             /\ Answer(p, Abs!Result(0, call[p].key, NONE))

\* _db_writeidx at the end of the index file.
IdxLock(p) == Lock(p, "idx_lock", IDX_END, "write", "idx_seek")

IdxSeek(p) ==
    /\ Step(p, "idx_seek", "idx_append")
    /\ Handles(p, [db[p] EXCEPT !.idxoff = Len(idx) + 1, !.ptrval = db[p].chainptr])
    /\ At(p, Len(idx) + 1)
    /\ UNCHANGED <<files, lock, hist>>

IdxAppend(p) ==
    /\ Step(p, "idx_append", "idx_unlock")
    /\ idx' = Put(idx, db[p].idxoff, NewIdx(p))
    /\ At(p, db[p].idxoff + 1)
    /\ Stored(p)
    /\ UNCHANGED <<head, dat, lock, db>>

IdxUnlock(p) == Unlock(p, "idx_unlock", IDX_END, "link")

\* _db_writedat of the caller's data at db->datoff.
WritedatAt(p) ==
    LET len == DatLen[call[p].data]
    IN /\ dat' = Put(dat, db[p].datoff, [len |-> len, data |-> call[p].data])
       /\ Handles(p, [db[p] EXCEPT !.datlen = len])

\* The free record _db_findfree has taken off the free list is filled.
ReuseWritedat(p) ==
    /\ Step(p, "reuse_dat", "reuse_idx")
    /\ WritedatAt(p)
    /\ UNCHANGED <<head, idx, lock, pos, hist>>

ReuseWriteidx(p) ==
    /\ Step(p, "reuse_idx", "link")
    /\ idx' = Put(idx, db[p].idxoff, NewIdx(p))
    /\ Handles(p, [db[p] EXCEPT !.ptrval = db[p].chainptr])
    /\ At(p, db[p].idxoff + 1)
    /\ Stored(p)
    /\ UNCHANGED <<head, dat, lock>>

\* The record, new or reused, goes to the front of its chain.
Link(p) ==
    /\ Step(p, "link", "unlock_chain")
    /\ Writeptr(ChainOff(p), db[p].idxoff)
    /\ At(p, 0)
    /\ UNCHANGED <<dat, lock, db, hist>>

\* A record whose data has the same length is replaced in place.
Overwrite(p) ==
    /\ Step(p, "overwrite", "unlock_chain")
    /\ WritedatAt(p)
    /\ Stored(p)
    /\ UNCHANGED <<head, idx, lock, pos>>

-----------------------------------------------------------------------------
\* db_nextrec

ScanLock(p) == Lock(p, "scan_lock", FREE_OFF, "read", "scan_read")

\* (mutant) A deleted record is returned like any other.
ScanReadBlank(p) ==
    /\ pos[p] \in DOMAIN idx
    /\ Step(p, "scan_read", "scan_dat")
    /\ Handles(p, Readidx(p, pos[p]))
    /\ At(p, pos[p] + 1)
    /\ UNCHANGED <<files, lock, hist>>

\* The record at the file offset; the loop skips a blank one.
ScanRead(p) ==
    /\ pos[p] \in DOMAIN idx
    /\ Step(p, "scan_read", IF idx[pos[p]].key = BLANK THEN "scan_read" ELSE "scan_dat")
    /\ Handles(p, Readidx(p, pos[p]))
    /\ At(p, pos[p] + 1)
    /\ UNCHANGED <<files, lock, hist>>

ScanEof(p) ==
    /\ Step(p, "scan_read", "scan_unlock")
    /\ pos[p] = Len(idx) + 1
    /\ Handles(p, [db[p] EXCEPT !.idxoff = pos[p]])
    /\ Answer(p, Abs!Result(-1, NONE, NONE))
    /\ UNCHANGED <<files, lock, pos, store>>

ScanData(p) ==
    /\ Step(p, "scan_dat", "scan_unlock")
    /\ DataReadable(p)
    /\ Answer(p, Abs!Result(0, db[p].idxbuf, dat[db[p].datoff].data))
    /\ UNCHANGED <<files, lock, pos, db, store>>

ScanUnlock(p) == Return(p, "scan_unlock", FREE_OFF)

-----------------------------------------------------------------------------
\* The kernel drops the locks of a process that ends.
End(p, point) ==
    /\ pc' = [pc EXCEPT ![p] = point]
    /\ lock' = [lock EXCEPT ![p] = [r \in Regions |-> "none"]]
    /\ UNCHANGED <<files, proc, hist, call>>

\* The sanity checks of _db_readidx and _db_readdat: what is at the offset is
\* not an index record, or not a data record of the right length.  err_dump
\* ends the process.
Insane(p) ==
    \/ pc[p] \in {"walk", "ff_walk"} /\ db[p].cur \notin DOMAIN idx \cup {0}
    \/ pc[p] \in {"readdat", "scan_dat"} /\ ~DataReadable(p)
    \/ pc[p] = "scan_read" /\ pos[p] \notin 1 .. Len(idx) + 1

Dump(p) == Insane(p) /\ End(p, "dumped")

\* A process is killed; the files keep what it has written.  It is "cut" where
\* _db_dodelete has blanked the index record and not yet unlinked it: the chain
\* then leads through the blank record into the free list.
CutPoints == {"del_setfree", "del_unlink"}
Crash(p) == pc[p] \in CrashAt \ Ended /\ End(p, IF pc[p] \in CutPoints THEN "cut" ELSE "crashed")

-----------------------------------------------------------------------------
FindStep(p)   == LockChain(p) \/ ReadChain(p) \/ WalkOn(p) \/ Found(p)
                 \/ NotFound(p) \/ FetchData(p) \/ UnlockChain(p)
DeleteStep(p) == DelLock(p) \/ DelWritedat(p) \/ DelReadfree(p) \/ DelWriteidx(p)
                 \/ DelSetfree(p) \/ DelUnlink(p) \/ DelUnlock(p)
FreeStep(p)   == FreeLock(p) \/ FreeRead(p) \/ FreeWalkOn(p) \/ FreeFound(p)
                 \/ FreeNone(p) \/ FreeUnlink(p) \/ FreeUnlock(p)
AppendStep(p) == DatLock(p) \/ DatSeek(p) \/ DatAppend(p) \/ DatUnlock(p)
                 \/ IdxLock(p) \/ IdxSeek(p) \/ IdxAppend(p) \/ IdxUnlock(p)
StoreStep(p)  == ReadHead(p) \/ ReuseWritedat(p) \/ ReuseWriteidx(p)
                 \/ Link(p) \/ Overwrite(p)
ScanStep(p)   == ScanLock(p) \/ ScanRead(p) \/ ScanEof(p) \/ ScanData(p)
                 \/ ScanUnlock(p)

Progress(p) == FindStep(p) \/ DeleteStep(p) \/ FreeStep(p) \/ AppendStep(p)
               \/ StoreStep(p) \/ ScanStep(p) \/ Dump(p)

Next == \E p \in Procs : \/ \E c \in Uses[p] : Invoke(p, c)
                         \/ Rewind(p)
                         \/ Progress(p)
                         \/ Crash(p)

Spec == Init /\ [][Next]_vars

\* A process inside a call keeps running.
Fairness == \A p \in Procs : WF_vars(Progress(p))
FairSpec == Spec /\ Fairness
-----------------------------------------------------------------------------
\* Properties

\* The records reached from the pointer at offset off.
Reach(off) ==
    LET reach[i \in 0 .. Len(idx)] ==
          IF i = 0 THEN {Readptr(off)} \ {0}
          ELSE reach[i - 1] \cup ({idx[n].ptr : n \in reach[i - 1]} \ {0})
    IN reach[Len(idx)]

WriteLocked(r) == \E p \in Procs : lock[p][r] = "write"

Live == {n \in DOMAIN idx : idx[n].key # BLANK}
ChainRecords(c) == {n \in Live : Hash[idx[n].key] = c}

\* The points between taking a lock and dropping it.
ChainHeld == KeyPoints \ {"lock_chain"}
FreeHeld == (DeletePoints \ {"del_lock"}) \cup (FreePoints \ {"ff_lock"})
ScanHeld == ScanPoints \ {"scan_lock"}
DatHeld == {"dat_seek", "dat_append", "dat_unlock"}
IdxHeld == {"idx_seek", "idx_append", "idx_unlock"}

\* The locks do what the comments of db.c ask of them: a chain that is being
\* changed has no other user, a record in the middle of its deletion or of
\* its reuse is not scanned, and an append is not overtaken by another.
CriticalSections ==
    \A p, q \in Procs : p # q =>
        /\ (pc[p] \in ChainHeld /\ pc[q] \in ChainHeld /\ ChainOff(p) = ChainOff(q))
              => (call[p].op = "fetch" /\ call[q].op = "fetch")
        /\ pc[p] \in FreeHeld => pc[q] \notin FreeHeld \cup ScanHeld
        /\ pc[p] \in DatHeld => pc[q] \notin DatHeld
        /\ pc[p] \in IdxHeld => pc[q] \notin IdxHeld

\* No call returns with a lock held, on any of its early exits.
NoLockKept ==
    \A p \in Procs : pc[p] \in Ended \cup {"idle"} =>
        \A r \in Regions : lock[p][r] = "none"

\* Between calls that change it, a chain holds exactly the records of its
\* keys: db_store and db_delete lose no neighbour when they link and unlink
\* (_db_dodelete, _db_findfree, _db_writeptr), no chain runs into another or
\* into the free list, none is circular, and no key is there twice.
ChainsExact ==
    \A c \in Chains : ~WriteLocked(c) =>
        /\ Reach(c) = ChainRecords(c)
        /\ \A m, n \in ChainRecords(c) : idx[m].key = idx[n].key => m = n
        /\ \A n \in ChainRecords(c) : n \notin Reach(n)

\* The record a db_store has taken off the free list and not yet filled.
Taken == {db[p].idxoff : p \in {q \in Procs :
              pc[q] \in {"reuse_dat", "reuse_idx"}
              \/ (pc[q] = "ff_unlock" /\ db[q].cur # 0)}}
Reusing == {p \in Procs : pc[p] \in {"reuse_dat", "reuse_idx"}}

\* No free record is lost and none is given out twice: outside the critical
\* sections on the free list every blank record is on the list or taken by
\* exactly one db_store, though _db_findfree unlocks the list before the
\* record is filled.
FreeListExact ==
    ~WriteLocked(FREE_OFF) =>
        /\ Reach(FREE_OFF) \cup Taken = DOMAIN idx \ Live
        /\ Reach(FREE_OFF) \cap Taken = {}
        /\ \A p, q \in Reusing : p # q => db[p].idxoff # db[q].idxoff
        /\ \A n \in Reach(FREE_OFF) : n \notin Reach(n)

\* Chains and free list together: every record is where it belongs, once.
ListsExact == ChainsExact /\ FreeListExact

\* Two index records never share a data record, and each data record has the
\* length its index record gives, whoever appends (the two locked appends of
\* db_store) or writes in place (_db_writedat at an old offset).
DataOwned ==
    \A m \in DOMAIN idx :
        /\ idx[m].datoff \in DOMAIN dat
        /\ dat[idx[m].datoff].len = idx[m].datlen
        /\ \A n \in DOMAIN idx : idx[m].datoff = idx[n].datoff => m = n

\* No legal sequence of calls makes the sanity checks of the library fail.
NoDump == \A p \in Procs : pc[p] # "dumped"

\* A step that moves and resizes no index record.
RecordsKept ==
    \A n \in DOMAIN idx : /\ n \in DOMAIN idx'
                          /\ idx'[n].keylen = idx[n].keylen
                          /\ idx'[n].datoff = idx[n].datoff
                          /\ idx'[n].datlen = idx[n].datlen

\* An index record is never moved or resized, by any writer: a db_nextrec at
\* the record after it reads on at a record boundary without a chain lock.
RecordsStay == [][RecordsKept]_vars

\* Every call takes effect as one of KeyedStore does: what db_fetch and
\* db_nextrec return and what db_store and db_delete answer is right for one
\* instant of the call.
Linearizable == Abs!Spec

\* What db_fetch of k would find now.
Lookup(k) == {dat[idx[n].datoff].data :
                 n \in {m \in Reach(Hash[k]) : idx[m].key = k}}

CrashedKeys == {call[p].key : p \in {q \in Procs : pc[q] \in Killed /\ call[q].op \in {"delete", "store"}}}
Cut == {p \in Procs : pc[p] = "cut"}
CutChains == {Hash[call[p].key] : p \in Cut}

\* A chain that runs into the free list, into another chain or into itself.
Broken(c) == \E n \in Reach(c) : \/ idx[n].key = BLANK \/ Hash[idx[n].key] # c
                                 \/ n \in Reach(n)

\* At most one process is cut, and no db_store is killed on its chain.
CutAlone ==
    \A p \in Cut, q \in Procs : p # q =>
        /\ q \notin Cut
        /\ pc[q] \in Killed /\ call[q].op = "store" => ChainOff(q) # ChainOff(p)

\* A process killed inside a call, at any point, harms at most the key of
\* that call: every other key keeps its data and its absence, and a walk of
\* its chain ends there.  Only a process that is cut harms its chain, and no
\* other one with it, though the blank record it leaves there is on the free
\* list too, and is reused in any chain.  (Two that are cut can harm a third
\* chain: each of their chains may come to run through the other.  So can one
\* that is cut and a db_store killed on its chain with a record filled and
\* not linked: that record can then be found through the blank one, by a
\* db_delete which unlinks it from a record that is in another chain by then.)
SurvivorsIntact == CutAlone =>
    /\ \A c \in Chains \ CutChains : ~WriteLocked(c) => ~Broken(c)
    /\ \A k \in Keys \ CrashedKeys : Hash[k] \notin CutChains /\ ~WriteLocked(Hash[k]) =>
          Lookup(k) = {store[k]} \ {NONE}

\* Every call returns: the locks are taken in an order that excludes
\* deadlock (chain, then free list, then the end of a file), and no walk of
\* a chain goes on for ever.
CallsReturn == \A p \in Procs : pc[p] # "idle" ~> pc[p] = "idle"
=============================================================================
