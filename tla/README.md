# Specifications of the example programs of *Advanced Programming in the UNIX Environment*

The repository keeps the programs of the third edition of the book under
`src/lab_1/apue.3e`, beside exercises of its owner (`lab_*`, `lab5`, `lab7`,
`lab8`). This directory holds TLA+ specifications of them, TLC configurations
for small instances, and theorems about the larger ones, proved with TLAPS.

Contents: 1 the system; 2 the modules and how they correspond to the code;
3 the runs; 4 bounds; 5 fairness; 6 what is proved and how; 7 where code and
comments differ; 8 what is only model-checked, and what is not modelled.

## 1. The system

The programs do not call each other: they share the library `lib/`. So the
components are independent of one another, and each is a small concurrent
system by itself. Four of them are large enough to have modules of their own: the
database, the print spooler, the open server, the semaphores. The others are programs of
a page that differ in the system calls they make and in the order of these;
they are written as sequences of statements for one model of the kernel (`Unix`).

| Component | State | Operations | Who interacts, and how | What makes it correct |
|---|---|---|---|---|
| **Database library** `db/db.c` | an index file (hash table of chain pointers, free list, index records) and a data file; a `DB` handle per process | `db_open`, `db_close`, `db_fetch`, `db_store`, `db_delete`, `db_rewind`, `db_nextrec` | processes, through the two files and `fcntl` record locks only | calls are linearizable; chains and the free list hold exactly the records they should; a data record has one owner; a scan misses nothing; no deadlock; a killed process harms nobody else |
| **Print spooler** `printer/printd.c`, `print.c`, `util.c` | the job file, the spool directory (data and control files), the job list, the next job number, the printer's address; the buffer a reply is read into | threads that serve a client, the printer thread, `SIGHUP`/`SIGTERM` thread, recovery at start, `printer_status` | threads through `joblock`, `configlock`, a condition variable; incarnations of the daemon through the directory; the printer through a stream | an accepted job is not lost, is printed, with its own data, and once by one daemon; first in, first out; nothing is left behind |
| **Open server** `ipc2/opend` | table of clients, descriptor sets or `pollfd` array | accept, read a request, answer it, end of a connection | clients, through sockets and passed descriptors | every connection is watched, answered, and answered in the name of its user |
| **Semaphore library** `lib/semaph.c` | a System V set of three members per key, undo values in the kernel | `sem_create`, `sem_open`, `sem_wait`, `sem_signal`, `sem_close`, `sem_rm` | processes that may end at any time | initialised once; counter and value exact; removed only when unused (which it is not: section 7) |
| Processes, `popen`, `system`, `tellwait` `proc/`, `ipc1/`, `relation/`, `intro/`, `lib/popen.c`, `lib/tellwait.c`, `signals/system.c` | descriptors, pipes, stdio buffers, children, variables shared or copied | fork, exec, wait, pipes, `TELL_*`, `WAIT_*` | parents and children | nothing lost in a buffer or written twice; each child waited for; ends of pipes closed; no lost wakeup |
| Signals `signals/`, `lib/sleep.c` | handlers, masks, alarms | a signal between any two calls or inside one that blocks | the user, the timer, other processes | no signal lost before the wait for it; masks put back |
| Terminals `termios/`, `pty/`, `lib/ttymodes.c` | the mode of the terminal; two copying processes | raw, cbreak, no echo; the relay and its driver | the user's keys; the two processes, by a signal | the mode is given back; both ends of the relay end |
| Threads `threads/`, `threadctl/`, `lab_1/test2.c` | objects with reference counts, a message queue, a barrier, buffers, one-shot timeouts | threads, by mutexes and conditions | threads | no data race; an object is freed once, when unused |
| Daemons and record locks `daemons/`, `advio/`, `exercises/pendlock.c`, `lib/lockreg.c` | the lock file, record locks | start, `SIGHUP`, `SIGTERM` | copies of the daemon, and an operator | one daemon at a time; nobody waits for ever |
| Uptime servers, `ipc2/open*` `sockets/`, `lib/sendfd.c`, `recvfd.c` | sockets, descriptors in flight | connect with retries, serve, pass a descriptor or an error | client and server | answered or given up; a descriptor or an error, never both |
| Job queue `threads/rwlock.c` | a list linked both ways | insert, append, remove, find | threads, by a reader-writer lock | a sequence, in both directions |
| Allocator `lab_7/mm.c` | a heap with boundary tags | `mm_init`, `mm_malloc`, `mm_free` | none | the blocks tile the heap; callers' data stay |
| Sorts `lab8/lab9` | arrays | six sorts | none | a sorted permutation |

What is hard in them is the order of system calls of several processes on
shared files and kernel objects, what survives the end of a process, what a
time limit, a signal or a failing call in the middle leaves behind, and, for the data structures,
long sequences of legal calls. `PROJECT.json` lists these hazards, each at its line.

## 2. Modules

| Module | Models | Builds on |
|---|---|---|
| `KeyedStore` | what `db.c` promises: a map on which each call takes effect at one instant | |
| `ApueDb` | the library, one action for each system call on a shared file | `KeyedStore` (instance `Abs`) |
| `DbScan` | `ApueDb` with two history variables: what a scan should and does visit | `ApueDb` |
| `DbOpen` | `db_open` and `db_close`: creating, truncating and initialising while others use the files | |
| `PrintQueue` | what the running spooler promises: a first-in first-out queue that prints nothing twice | |
| `Printd` | the spooler, with the spool directory that outlives it | `PrintQueue` |
| `PrinterStatus` | `printer_status` and `readmore` on a reply that comes in pieces | |
| `CountedSemaphore` | what `semaph.c` delivers: a semaphore that is removed when unused, or under who comes while the last user removes it | |
| `Semaph` | the library on System V sets, one action for each system call | `CountedSemaphore` |
| `Opend` | clients and the table of clients of the open server | |
| `OpendSelect`, `OpendPoll` | its two loops | `Opend` |
| `Calls` | the statements programs are written in | |
| `Unix` | the kernel and C library as the programs use them: processes, pipes, stdio, signals, threads, record locks, sockets, the terminal | `Calls` |
| `Libapue` | routines of `lib/`, `ipc1/`, `proc/` and `signals/` that programs call | `Calls` |
| `ProcPrograms`, `SignalPrograms`, `ThreadPrograms`, `DaemonPrograms`, `SocketPrograms`, `TerminalPrograms` | the programs | `Libapue` |
| `JobList`, `JobQueue` | a sequence with searches; the linked queue of `rwlock.c` | `JobQueue` uses `JobList` |
| `Heap` | the allocator on the words of the heap | |
| `Sorts` | the sorts as recursive operators | |
| `ApueDbProofs`, `PrintdProofs`, `SemaphProofs`, `OpendSelectProofs`, `OpendPollProofs` | theorems | `TLAPS` and the module in the name |
| `DbScanProofs` | theorems about what `db.c` promises its callers | `DbScan`, `ApueDbProofs` |
| `OpendProofs` | lemmas about the table of clients, for both loops | `Opend` |
| `SmallProofs` | theorems about four components, one after the other | `DbOpen`, `JobQueue`, `Heap`, `Unix` with `DaemonPrograms` |
| `MC*` | instances for TLC; `MCUnix` has the table of programs with what each promises | |

### ApueDb

A step is one system call on a shared file, or a decision between two of them.
`pc[p]` says where in the code process `p` is; the points of the record locks,
of each read and of each write are separate, so that every interleaving the
kernel may produce is there. `head`, `idx` and `dat` are the two files, with
records known by their ordinal instead of their offset (a record is never
rewritten with another length; that this is so is the property `RecordsStay`).
`lock[p][r]` is the table of `fcntl` locks, where taking a lock one has
already replaces it, and a process that ends loses all of them. `db[p]` holds
those fields of the handle, and those locals, that one function leaves for
another. `pos[p]` is the offset of the index descriptor, which `db_nextrec`
relies on and every other call moves. `store`, `call` and `ret` are history:
they name the instant at which a call takes effect (a found or missing key
under the chain lock; the write that links a new record; the blanking of a deleted
one). By function:

| Code | Actions |
|---|---|
| `_db_find_and_lock` | `LockChain ReadChain WalkOn Found NotFound` |
| `db_fetch`, `_db_readdat` | `FetchData UnlockChain` |
| `_db_dodelete` | `DelLock DelWritedat DelReadfree DelWriteidx DelSetfree DelUnlink DelUnlock` |
| `_db_findfree` | `FreeLock FreeRead FreeWalkOn FreeFound FreeNone FreeUnlink FreeUnlock` |
| `_db_writedat`, `_db_writeidx` when appending | `DatLock DatSeek DatAppend DatUnlock IdxLock IdxSeek IdxAppend IdxUnlock` |
| `db_store` | `ReadHead ReuseWritedat ReuseWriteidx Link Overwrite` |
| `db_rewind`, `db_nextrec` | `Rewind ScanLock ScanRead ScanEof ScanData ScanUnlock` |
| `err_dump`, kill | `Dump Crash` |

Every process has one handle; the blank string is not a key; `PTR_MAX` and
the width of the ASCII fields are not modelled. Calls of `db_store` have one of the three flags and data of
a legal length: the tests of these (644-652) come before anything is read or written. An index
record, which `_db_readidx` reads in two calls, is read in one step: both are under one lock, and
an unlocked scan reads the length first, which no write changes (`RecordsStay`).

### DbOpen

`ApueDb` starts from an initialised database that everyone has open. `DbOpen`
has what comes before: the unlocked `open()` that may create and truncate, the
lock on the whole file, the test of its size and the table that is written.
The use is reduced to one `db_store`, which shows whether the table is there.

### Printd and PrinterStatus

One thread for each client (`cpc`, from the header to `add_job`), the printer
thread (`ppc`), the signal thread (`Hangup`; `Stop` for `SIGTERM`, fatal errors
and crashes) and the main thread (`Start`, `Qonstart` for each control file in
any order, `Connect`). `Stop` may come at any step. `jobno`, `data` and `req` are the job file and the two
spool directories; they are all `Stop` leaves. A critical section of `joblock`
or `configlock` is one step. `add_job` with its signal is one: `Wait` looks at
the list under the same lock, so the step between unlock and signal makes no
difference. `unsaved` is history: the numbers that had been given out, and were not in the job file, when a
daemon ended. Every system call of a client thread on a spool file may fail, and each
exit removes what the code removes there. `before` is history: what earlier daemons have
printed, and may be printed again after a restart.

A client is a file of `Size[c]` buffers. `print` keeps its end of the connection
open while it waits for the answer, so that it is the 20 seconds of `tread` that
end the loop of `client_thread` (`ReadEnd`); clients in `Stalls` may be silent
for that long earlier.

In `Printd` the outcome of `printer_status` is a choice; `PrinterStatus` is that
function. A reply is a sequence of units none of which is cut (a line without its
newline, the newline, the IPP header), and each read brings any number of them.

### Semaph

The set of three members, the values the kernel would undo (`adj`), and for each
process where it is. `semop` is the kernel's: all or nothing, with `SEM_UNDO`;
`SETVAL` clears undo values; `IPC_RMID` makes the identifier invalid; `Exit`
undoes. `Lock` is the `semop` of `sem_create` that succeeds; `Block` one that
waits. What is removed before the call is `EINVAL` (`Again`), what is removed
during the wait is `EIDRM` (`CantLock`). The application uses the
value as a lock and closes only what it does not hold. Any call on a set that is gone
ends the process (`Removed`). `sem_open` may come at any time, in particular between the two
calls by which a `sem_close` finds that it is the last and removes the set; `late` is history: who has done so.

### Opend

`Opend` has the clients, the table `client[]` with its growth and the two operations
on it, and the answer to a request. `OpendSelect` keeps `allset`, `maxfd` and `maxi`, and
the set `rset` as `select` returned it, which ages while the loop runs over the
clients. `OpendPoll` keeps `pollfd[]`, which is packed while the loop runs over it.
Descriptors are the lowest free numbers, so that they are used again at once. A client that
leaves before its answer is sent ends the server through `SIGPIPE`, and so do a connection that cannot be
accepted and one that cannot be read (`Fails`, `log_sys`; `up`).

### Unix and the programs

A program is a sequence of statements: a constructor of `Calls` for each system
call or library call, and control (`If`, `While`, `Forever`, `Either` for what the program
does not decide). A task, which is a thread of a process, carries
the statements it has still to execute, so that a function with an early return, a
handler that runs on top, `longjmp` and `exec` all change that sequence.
`Libapue` and the `*Programs` modules translate the C functions statement by statement and keep
their names; arguments, messages and files become short strings, one for each
write.

`Unix` has one action for each kind of call. Between any two calls of a task any other may
run, a pending signal may be delivered (`Deliver`; inside a blocking call `Interrupt`) and a
timer may ring (`Ring`). `Press` is the user at the keyboard, or the operator who sends a signal.
`Fault` makes one pipe, fork, exec or thread creation of the run fail. What is written with
stdio stays in the buffer of the process (line by line on a terminal, at exit to a file), is copied by
fork and lost by exec and `_exit`. A pipe holds `PIPE_CAP` writes; its reader sees the end
when no process has the writing end, and a writer without readers gets
`SIGPIPE`. `vfork` shares variables and suspends the parent. Record locks belong to the
process and are not inherited; a cycle of waits is `EDEADLK`. A condition variable may wake
without being signalled (`Spurious`). The kernel is not under `src/`: its definitions
are marked external and translate how the programs use it.

`MCUnix` gives each program what it runs with (input, keys, a terminal or a file) and what it promises: the
outputs it may write when no call fails, the exit status, whether it ends, whether it waits for its children, and the
signals it neither catches nor blocks while the terminal is changed (`unguarded`). These are read off
its comments and code, and where the program itself is meant to show a difference
(output to a terminal or a file, a race, a variable in a register) the promise lists both.

### Heap, JobQueue, Sorts

`Heap` counts in words; `mem` holds tags, what callers store, or junk. Each action is a whole
`mm_malloc` or `mm_free`. Addresses only reach a block through its tags, as in the code.
In `JobQueue` a writer is one step, since it excludes everyone, and a search is one step
for each job it goes over. In `Sorts` an array is a function, and what a C function
leaves in it is the value of the operator.

## 3. Runs

| Run | Instance | Shows |
|---|---|---|
| `db_calls` | 2 processes, 3 keys on 2 chains, data of 2 lengths, 2 calls each, fair | `TypeOK`, `ListsExact`, `DataOwned`, `CriticalSections`, `NoLockKept`, `RecordsStay`, refinement of `KeyedStore` (`Linearizable`), `CallsReturn` |
| `db_scan` | a scanner and a writer, 2 keys on one chain | `ScanExact` (every key that stays is visited, none twice, and the sanity checks do not stop the scan), `Linearizable` with a scan |
| `db_crash` | 2 processes, 3 keys on 2 chains; one may be killed at any point, the other goes on to reuse its records in either chain, and may be stopped by the sanity checks (`MixedUse`) | `SurvivorsIntact` |
| `printd` | 2 clients, 1 failure, 2 ends of the daemon anywhere, any changes of the configuration, too few descriptors, fair | `JobsDistinct`, `AckedIsSpooled`, `PendingQueued`, `NoOrphans`, `RereadHonoured`, refinement of `PrintQueue` (`IsFifo`), `AckedIsPrinted` |
| `opend_select` | 2 users, 3 connections, 4 calls, tables that grow by 1, fair | `TablesExact`, `RightUser`, `EveryoneAnswered` |
| `opend_poll` | 2 users, 3 connections, 4 calls, tables that grow by 2, fair | `TablesExact`, `NoneSkipped`, `EveryoneAnswered` |
| `unix_programs` | over eighty programs, each by itself, with its keys, and one failing call, fair | `OutputAsPromised`, `ChildrenWaitedFor`, `OneDaemon`, `NoDataRace`, `NoUseAfterFree`, `TerminalRestored`, `EveryoneEnds` |
| `parts` | the parts that share no state, one at a time, fair: a heap of 20 words; a queue of 3 jobs of 2 threads that search; 2 creators and a user who open the database twice each; 3 processes that come to a semaphore, two of them twice, all by `sem_create`, 2 by `sem_open`, 1 removes it, ends anywhere; the sorts, as assumptions | `HeapWhole`; `BothWays`, refinement of `JobList` (`IsJobList`); `OnlyTruncationLoses`, `OpenReturns`; `CountsExact`, `OnlyLateOpens`, refinement of `CountedSemaphore` (`IsCountedSemaphore`), `CallsReturn`; `SortsSort`, `HeapSortUpToFour` |
| `opend_poll_uid`, `printer_split`, `printd_reuse`, `semaph_removed` | the smallest that shows it | a counterexample each: see section 7 |

Deadlock is not checked where the number of calls is bounded, since a
process that has made its calls stops. That nobody waits for ever is what the
liveness properties `CallsReturn`, `OpenReturns`, `AckedIsPrinted`,
`EveryoneAnswered` and `EveryoneEnds` say. In `unix_programs` and `printer_split` it is checked: a state of `Unix` without a step is one in which a program
that should end, with no key left to press, waits for ever.

For each property there is a change of the code (`mutants` in `PROJECT.json`, the
definitions marked `(mutant)`) under which the run fails.

## 4. Bounds

- `ApueDb`: `MaxCalls` bounds the calls of each process. Two or three are enough for
  a record to be inserted, deleted and reused (with the same or another
  length) while another process walks, scans or appends; two keys in one chain give a
  predecessor to relink; a second chain lets processes meet in the free list alone;
  two lengths of data make a free record fit or not. `CrashAt` names the points of the code at which
  a process may be killed: in `db_crash` all that are inside a call.
- `DbOpen`: `MaxDbOpens` 2 lets a process come back to a database that was truncated.
- `Printd`: `MaxFails`, `MaxStops`, `OpenMax` and the number of clients. Two
  ends of the daemon put one into the recovery from the other, and let a number be given out again and the
  daemon end once more. The configuration may change any number of times. `MaxId` is where the
  job number wraps around: 3, so that the two clients do not come to it, as `Distinct` asks
  (`NumbersSuffice`). `OpenMax` 1 lets the descriptors run out with two
  pending jobs.
- `PrinterStatus`: the headers have one or two fields, with the length last or not; the
  body is two units long, so that each cut the code can meet is there.
- `Semaph`: `MaxOpens` for each process, `MaxSets`; there are more sets than can be removed, so that
  the bound stops nobody. `BIGCOUNT` is 4 instead of 10000; `SemaphAssumption` asks
  that it exceeds the number of processes. Three processes are the one that removes the set, the one that comes
  by `sem_open` meanwhile, and the one that creates it again.
- `Opend`: `MaxCalls`, `MaxConns`; `NALLOC` is 1 or 2, so that the tables grow.
- `Unix`: `PROCS` 7 and `TASKS` 5 are what the largest programs need (`pty` with its
  driver; the shell commands of `system`). A fork or a new thread that finds no room (processes that have ended count for `PROCS`) waits, so
  that a bound too small for a program would show in `EveryoneEnds`. `PIPE_CAP` 2 lets a
  writer of three lines block. Loops over data run two or three times, the retries of
  `connect_retry` stop after `TRIES`. The keys for `getpass` and `t_raw` are those that stop or end
  a process, `SIGQUIT` included. One call fails in a run; a program
  that would need two to go wrong is not examined.
- `Heap`: `MAX_HEAP` 20 and `CHUNKSIZE` 8 words let the heap be extended and run out;
  `Requests` {0, 1, 3, 5, 30}: refused, the smallest block, one with padding, one that
  leaves too little to split, one that exceeds `int` (`INT_MAX` 20). Three jobs put one in the
  middle of the queue. The sorts are compared on all arrays up to 5 elements of 3 values.

## 5. Fairness

- `ApueDb`, `DbOpen`, `Semaph`: weak fairness of a process inside a call: the kernel
  runs it, and wakes it when the lock it waits for is free. A process does not have to
  make a call, nor to live (`Crash`, `Exit`). `fcntl` and `semop` do not queue in order;
  with a bounded number of calls of the others weak fairness suffices.
- `Semaph` also lets a process that holds the semaphore give it back.
- `Printd`: weak fairness of each thread, and of `Start`: the daemon is started
  again after it has ended. Failures and ends are bounded, which is the assumption that
  the printer works at last. A client does not have to connect.
- `PrinterStatus`: weak fairness of the step, since each read waits for a few seconds only.
- `Opend`: weak fairness of the server's loop. The calls are bounded: the loop of
  `loop.select.c` starts again at every new connection, and an endless stream of
  them would hold up the rest.
- `Unix`: weak fairness of each task and of each timer: the scheduler runs who can run and
  alarms ring. Nobody has to press a key, and no call has to fail.

## 6. Proofs

No theorem bounds the number of processes, clients, keys or calls. Each is proved from the
assumption named in its module, that the constants have their types and special values
differ. Some name one more, where the code does not keep its promise without it. (Most need none: `Survivors`, which lets
processes be killed anywhere, the theorems about `Semaph` and all but one about `Printd`, in which processes end anywhere, say
in the property itself what the code cannot keep then.)

| Assumption | Says | Why (section 7) | Theorems |
|---|---|---|---|
| `NoLoss` | no process is killed while it has a record off the lists (`CrashAt` has no such point) | a blank record stays in a chain, or a record is on no list | `Lists` |
| `Unharmed` | no process is killed where a deletion, a replacement or an insertion is half done; it may be anywhere else, also in a call | a key is lost, or has no data | `Linear`, `Scans` |
| `MixedUse = FALSE` | a process calls `db_rewind` before it scans again | `db_nextrec` reads at an offset that is not its own | `Scans` |
| `NumbersSuffice` | there are more job numbers than clients, so that they do not come round | after the last number `get_newjobno` starts again with 1 | `Distinct` |
| `CopiesRun` | the program run is copies of one daemon and operators who signal them | `Unix` runs any program; the promise is that of the daemons | `OneCopyWorks` |

1. `TypeCorrect` (`ApueDbProofs`): `Spec => [](TypeOK /\ CallOK)`. `CallOK`
   says which call a process is in at each point of the code; without it the
   types of the results are not inductive (a point of `db_store` needs `call[p].data` to be
   data). One lemma for each group of actions (`FindType`, `DeleteType`,
   `FreeType`, `AppendType`, `StoreType`, `ScanType`), and under it one step
   for each action.
2. `Exclusive` and `Released` (`ApueDbProofs`): `CriticalSections` and `NoLockKept`
   from the invariant `LockOK`. It is the conjunction of `LockTable`, which gives
   the locks of a process as a function `HeldAt` of the point of the code and
   the call it is in, and `Exclusion`, that no two processes have locks on a region
   that conflict. Neither property is inductive alone, since they speak of points
   of the code and the actions of locks. `LocksGuard` then reads the critical
   sections off the table.
3. `Owned` and `Stay` (`ApueDbProofs`): `DataOwned` and `RecordsStay` from
   `DataInv`: what a handle knows of the record it is at (`Matches`: its length
   and its data record are those in the file, through the two lock releases between which it
   deletes, reuses or overwrites), that a data record just appended belongs to no
   index record yet (`Fresh`), and that two such are different (`FreshDistinct`). The
   offset an append writes at is the end of the file, because of the locks
   (`LocksGuard`): this is the one place where one proof needs the other.
   `ShapeKept` covers all actions that move nothing, so that only the two appends and the
   in-place writes need an argument of their own.
4. `Lists` (`ApueDbProofs`): `ListsExact`. The links in the file are not enough to say which list a
   record is on, because a record that is being moved has the links of two. So the invariant
   `ListInv(nxt, gone)` has logical pointers `nxt` and the set `gone` of the records that killed processes have
   left on no list (none here, by `NoLoss`). Each list is a set of records that `nxt` leads through
   once (`IsList`, with a rank instead of an induction along the list), and the file
   differs from `nxt` only at a process that is between two writes of a relinking. The invariant also says what each process
   knows of its neighbours (`ChainKnown`, `FreeKnown`), which the locks keep true. A relinking is
   then the removal of a member of a set or a push at the head (`ListRemove`, `ListPush`), any
   other step keeps `nxt`. `ReachList` leads back from sets to what is reached along the links, by
   a least counterexample.
5. `Linear` (`DbScanProofs`): `Linearizable`, that `ApueDb` implements `KeyedStore`. `StoreInv(K)` says that the
   two files and the abstract map agree on the keys `K` (here all of them) but for the calls that are between
   the write that counts and the others: each record that is not blank has a key of the map, with its data unless a deletion has blanked
   them (`StoreFiled`); each key of the map has a record, or is on its way
   (`StoreFound`); and what each process has found, or found missing, is still so (`CallKnows`).
   That one key has one record at most follows from the chain locks and the lists
   (`KeyApart`, `OneRecord`, `NoRecord`): a key found missing at the end of the walk is missing because the walk follows
   all of the chain. Each action is then shown to be a step of `KeyedStore` or a stutter. That no
   sanity check of the library fails but that of `db_nextrec` on its offset is a consequence (`SaneButScan`).
6. `Scans` (`DbScanProofs`): `ScanExact`. `ScanInv` says of a key that stays that it has been seen exactly if its
   record lies before the offset (`Accounted`). Only the deletion of a key takes it out of its record
   (`StepKeys`, `DeletionKeys`), and no two records have the same key (`LiveOnce`), so that a second return
   would be the same record again, which the offset has passed.
7. `Survivors` (`DbScanProofs`): `SurvivorsIntact`, with processes killed anywhere. The lists are again
   `ListInv(nxt, gone)`, which now loses records to `gone`: the one that a killed process was moving (`KillLists`), and, when a
   process is cut, all that followed in its chain (`CutOff`, `CutLists`). A cut chain ends, for `nxt`, where the
   file leads on from it into the blank record, and so astray (`Astray`, `StrayCell`). That this harms no other chain does
   not follow from `nxt`: a walk of the cut chain may read any list, and may find a record and write to it. So
   `StrayInv(gone, U)` adds a set `U` of records that are lost, or taken off the free list and not yet filled, to which no
   pointer outside it leads (`Closed`), and which no process is about to walk to or to write the offset of (`AwayFrom`). All lost
   records that have a key of the cut chain are in it, and so a walk that has gone astray meets no record it looks for
   (`StrayFound`), and writes to none. Both together are `LossInv`. For the data,
   `SafeInv` is `StoreInv(SafeKeys)`, the keys no killed call was about and whose chain is not cut. These
   only become fewer (`SafeBefore`), so that each step is a step of the proof of `Linear` for the keys that are safe after it
   (`NextStore`). `CutAlone`, the condition in the property, is used where two cut chains, or an insertion killed
   on the cut chain, would let a lost record be reached (section 7).
8. `Kept` (`SmallProofs`): `OnlyTruncationLoses`, an action property. The invariant says who
   holds which lock (`LocksHeld`, `Alone`), that the file is still empty for a creator that
   has found it so (`StillEmpty`: only `open()` changes it without a lock, and it
   truncates), and that records are linked in a table. So the one step that resets the links writes
   over an empty file.
9. `Reread` (`PrintdProofs`): `RereadHonoured`, together with the fact that the printer thread
   exists while the daemon is up. All other threads leave the configuration alone (`OthersIInv`).
10. `Distinct`, `Spools`, `Queues` and `Cleans` (`PrintdProofs`): `JobsDistinct`, `AckedIsSpooled`,
   `PendingQueued` and `NoOrphans`, with a daemon that ends anywhere, all four read off the invariant `SInv`, because none is
   inductive alone: that files are not mixed up rests on numbers being distinct, and that a number
   is fresh on what the directory holds. A number that is given out twice makes two clients share files, and nothing can be
   promised to either. So the properties except the numbers in `Reused`, and `SInv` speaks of a number that has one owner
   at most (`Sole`); this is enough, because a step at a shared number touches no file of
   another (`SoleOwner`, `SoleBefore`). `ThreadOK` says which files a client thread has at each point of the code, `Spooled`
   which a job has, and `SpoolOK` that every other file is one the next daemon will read. When a number is shared is `Distinct`:
   only those that were ahead of the job file when a daemon ended (`unsaved`). `NumbersOK` is its invariant; it ties `nextjob` to
   how many clients have a number, for which `NumbersSuffice` is needed. Three lemmas say what a
   kind of step leaves alone (`OwnFiles`, a thread at its own files; `Unnumbered`; `Quiet`, a
   printer thread that neither takes nor puts back a job), so that an argument is left for a fresh
   number (`NumberedStep`), the four changes of the list, the two unlinks, and the start and end of the
   daemon.
11. `Fifo` (`PrintdProofs`): `IsFifo`, that `Printd` implements `PrintQueue`, from `SInv` and
   `OnceOK`, that the request of what this daemon has printed is gone, or about to go. The
   abstract list is what the printer thread holds followed by the list (`Waiting`), so that to pick up
   a job and to put it back are stutters. A step of `add_job` needs that the job is nowhere yet
   (`Submits`), a printed job that its data are its own. A job of a shared number keeps its place too, but what is printed for
   it may be the file of the other (`OfReused`).
12. `Exact` and `Unused` (`SemaphProofs`): `CountsExact` and `OnlyLateOpens`,
   from `SInv`. Its heart is `UndoOK`: what the kernel would undo for a process is, member by member,
   what the process has done and not undone itself, and nothing once its set is
   gone. With it the end of a process at any point is as good as the calls it did not make
   (`EndKept`). `SETVAL` clears undo values, so that the proof needs that nobody has the
   semaphore open then: `CreateOK`, that the counter is still 0 where it is initialised, because
   the initialiser has the lock. The counter is tied to the users by the lemmas on
   cardinality (`OneMore`, `OneLess`), and `SemaphAssumption` (fewer processes than `BIGCOUNT`)
   keeps it from 0. For `Unused`, a process comes to remove the set only when there are no users (`ComesToRemove`), and from then
   on it has the lock, so that a process comes to use the set by `sem_open` alone (`ComesToUse`, `LateKept`).
13. `Counts` (`SemaphProofs`): `IsCountedSemaphore`, that `Semaph` implements `CountedSemaphore`.
   The semaphore exists from the moment its counter is set; the value is member 0 from then on, and
   the users are those between `sem_open` and `sem_close`. `ValueOK` adds that the value is `InitVal` before anyone can
   see it, and that nothing is left of a set that is gone. The end of a user at any point is `Leave`, because the kernel
   undoes what it did; that of a process about to remove the set is `Spare`, that of any other a stutter. In `CountedSemaphore` the last one to
   leave decides to remove the semaphore, and only who enters after that can lose it (`Decide`, `Remove`).
14. `SelectTables` and `SelectUser` (`OpendSelectProofs`): `TablesExact` and `RightUser` of the select loop. `WatchOK` says
   that `allset` is the listening socket and the connections, that `maxfd` bounds them and `maxi` the entries in
   use. The lemmas on the table (`OpendProofs`) say that `client_add` makes one entry for a new connection, wherever the
   table is full, and `client_del` removes one. `rset` may be old: what matters is that the entry the loop looks at has
   an open connection, whoever it belongs to.
15. `PollTables` and `PollComplete` (`OpendPollProofs`): `TablesExact` and `NoneSkipped` of the poll loop. `PollEach` says
   that the first `numfd` entries of `pollfd[]` are the listening socket and each connection once; `Grown` and
   `Packed` that a new connection and a closed one keep this, the second with the last entry moved
   to where the loop looks next; `Acted`, that every entry the loop has passed is dealt with. The two
   tables grow at different times; `EnoughClients` counts that `client[i]` exists for each entry of `pollfd[]`.
16. `Mirrored` and `SequenceOfJobs` (`SmallProofs`): `BothWays`, and `IsJobList`, that `JobQueue` implements `JobList`. The
   invariant `QueueInv` says that there is a sequence of different jobs of which `j_next` and `j_prev` are the
   neighbours and `q_head` and `q_tail` the ends (`Linked`), and that a search is at one of its jobs, with none of its own
   before it (`SearchesOK`). Insertion, appending and removal are then a push at the front or the back (`IsFirst`, `IsLast`) and
   `RemoveAt`. That what is read along the links is this sequence is shown by a least counterexample on the
   number of steps, and needs that a sequence of different jobs is no longer than there are jobs. `Jobs` is finite.
17. `HeapStaysWhole` (`SmallProofs`): `HeapWhole`, for a heap of any size. The words do not show which of them are
   tags, since callers store what they like. So `HeapInv` says that there is a set of addresses, with a size and a
   use for each, that fill the heap (`Tiles`), that the words at both ends of each block say so (`Tagged`), that no two free blocks
   are neighbours (`Apart`), and that callers hold the blocks in use, and what they stored (`Held`). `coalesce` and
   `place` make one block of several (`JoinTiles`), or two of one (`CutTiles`), and `extend_heap` puts one behind the
   others (`GrowTiles`); each has a lemma that the tags written are those of the new blocks and lie in no other
   (`JoinTagged`, `CutTagged`, `GrowTagged`). While `coalesce` has not joined it, a block may have free neighbours
   (`ApartBut`). `BlocksAre` shows that `find_fit`, which goes from tag to tag, meets exactly these blocks.
   `CHUNKSIZE` is even and `Requests` fit in a tag (`HeapAssumption`).
18. `OneCopyWorks` (`SmallProofs`): `OneDaemon`, when what is run is copies of the daemons and operators who send them
   signals (`CopiesRun`, which the entries `reread` and `reread2` of `MCUnix` satisfy: any number of copies,
   started at any times or as daemons already, with any signals, processes and threads). The property speaks of one
   statement of the daemons; `CopiesInv` says at each statement what a task has (`CodeOK`): it is before the lock, or
   its process has the lock and is about to write its number, or has the lock and its number is in the file. What
   a task is still to do is a suffix of its program (`Reached`), perhaps behind handlers, which do nothing of this
   kind. A record lock belongs to a process, not to a thread, and is not inherited by a child. So the proof needs that locks belong to
   processes that are up (`LocksOK`), and that of two threads of one process one only takes
   signals or is on its way to exit (`OneMain`). Each action of `Unix` then needs one step, for the statements
   these programs do not have as well: that a task is never at one is shown from the suffix it has to do.

Everything but the last step of each theorem is without temporal operators; that one is
`PTL`.

## 7. Where code and comments differ

Four runs with an expected violation; `PROJECT.json` quotes the lines.

- `opend_poll_uid`: the poll loop looks up the user with the wrong index.
- `printer_split`: `printer_status` goes wrong on a reply that comes in pieces: cut in its header, it
  loops for ever; cut elsewhere, data are counted twice or read over.
- `printd_reuse`: the job file is written at pick-up, not when a number is given out. A daemon that ends
  between the two, which is usual right after the reply, leaves a job whose number the next daemon gives out again; `creat` then empties
  the data of the accepted job (`AlwaysSpooled`). `JobsDistinct` and the other properties of `Printd` say that
  this is the only way to share a number, and what holds for the jobs of all others.
- `semaph_removed`: `sem_open` takes no lock and may come between the test and the
  removal of `sem_close`, which then removes a set that is in use (`RemovedByLast`). `OnlyLateOpens` and `IsCountedSemaphore` say that
  nobody else loses a semaphore to `sem_close`.

The models show these as well; a property that holds leaves the case out by a constant or
an entry of the table of programs, and says so:

- `ApueDb`, with `MixedUse`: `db_nextrec` after a call other than itself reads at an offset
  that call has moved, and the library aborts (`NoDump` fails); the comment asks for one `db_rewind`.
- `ApueDb`: a process killed between the blanking of a record and the write that unlinks
  it (`CutPoints`) leaves a blank record in its chain, which goes on into the free list. What followed the record in the chain
  is lost; when it is reused in another chain, the first chain runs into that one, and when it is reused in its
  own, the chain runs in a circle and a search that does not find its key never ends. `SurvivorsIntact` allows this for the
  chain of the process that was cut and for nothing else. With two processes cut in different chains a third
  chain can lose a record: one chain comes to run through the other, a deletion that waits for the free list holds a
  record of the other as its predecessor, that record is freed and reused in the third chain, and the deletion then writes
  over its pointer. The same happens in the chain of a process that is cut when a `db_store` is killed there with its record
  filled and not linked: that record can be found through the blank one. (The proof of `Survivors` led to this case: it takes four
  processes, more than `db_crash` has.) So the property speaks of one process that is cut, and of no such `db_store` (`CutAlone`).
- `DbOpen`: the truncation that belongs to "atomically" (`db.c` 136-138) happens in
  `open()`, before the lock, so that a second creator empties a database in use and its
  user is stopped by the next call (`OnlyTruncationLoses` allows the step of an
  `open()` with `O_TRUNC`); and a database created with `O_CREAT` alone is not
  initialised (`Creates`, 134).
- `Printd`: a client that is silent for 20 seconds has its file cut there, and accepted
  (`Stalls`; the loop at 447 never compares with `req.size`). `build_qonstart` keeps
  a descriptor for each job and passes over the rest when there are no more (`leaked`,
  `skipped`). A printed job whose daemon ends before the unlinks is printed again.
- `Semaph`: a `sem_open` whose creator has ended before the set is initialised waits for the next creator, for ever if
  there is none (`Uninitialised`, the one exception of `CallsReturn`). And the retry of `sem_create` expects `EINVAL` (125), but a `semop` that
  waits while the set is removed fails with `EIDRM`, and the process ends (`CantLock`).
- `lib/tellwait.c`: `WAIT_PARENT` and `WAIT_CHILD` unblock the signals when they return, so
  that a second wait may lose a signal; `ipc1/devzero.c` waits a thousand times and may hang
  (`devzero` in `MCUnix` promises no end; with the pipes of `ipc1/tellwait.c`, `devzeroPipes` does).
- `signals/sleep1.c`, `sleep2.c`, `read1.c`: their races (an alarm before `pause` or `read`; a
  `longjmp` out of another handler) are in the promises of `tsleep1`, `tsleep2` and `read1`.
- The terminal is left changed in three cases, which are the exceptions of `TerminalRestored`: `termios/getpass.c` (22-24)
  blocks `SIGINT` and `SIGTSTP` but not `SIGQUIT`, which leaves the echo off; `termios/t_raw.c` catches `SIGINT`, `SIGQUIT` and `SIGTERM`
  but not `SIGTSTP`, which stops it in cbreak mode (`Unguarded`); and `lib/ttymodes.c` (109-136 in `tty_raw`)
  sets `ttystate` only after it has changed the mode, so that a handler that runs between
  the two finds nothing to restore (`Unaware`, by the history value `CHANGING`). The keys of the run reach all three.
- When a call fails the children are still waited for (`ChildrenWaitedFor`), but a program may have written some of its output, or none:
  no comment says which, and `OutputAsPromised` speaks of runs without such a failure.
- `lib/popen.c` leaves both ends of the pipe open when `fork` fails (47). A child of
  `ruptimed-fd.c` whose `exec` fails goes on in the server's loop (`ruptimeFd` is run
  without a failing call), and a client that leaves ends the server `ruptimed.c` by `SIGPIPE`.
- `lab8/lab9/insert_sort.cpp`: `creat_heap` exchanges each element once and makes no heap
  from five elements on; `heap_sort` then fails (`HeapSortUpToFour`).
- `lab_7/mm.c`: a request of nearly 2^32 bytes or more wraps around in the rounding; such requests are
  not in `Requests`.

## 8. Only model-checked, and not modelled

Only model-checked: all liveness (TLAPS does not reason about fairness and
`ENABLED` here); what `Sorts` computes (recursive operators); the programs of
`Unix` but for `OneDaemon`, each of which is a finite run whose promise is its own; and `PrinterStatus`.

Not modelled, or in part (`PROJECT.json` has the reason for each):

- Of the spooler the list of workers, from which `kill_workers` takes the threads at an exit and `client_cleanup` the socket of
  its client to close it, and the bytes of the headers; of the client `print` its options and configuration file; of the open server the parsing
  of a request.
- The variants of descriptor passing (credentials, STREAMS, an exec for each request): the
  same steps with other fields. The hash chains of `threads/mutex2.c` and `mutex3.c`: one object is looked for.
- The `sa_mask` of the handlers of `daemons/reread2.c` (56-57, 64-65): they may interrupt each other in the model, which
  only adds behaviours.
- `advio/rot13c2.c.in`: what asynchronous reads and writes may do to each other is the
  kernel's and is not in this code.
- Programs that print the answers of one system call (`filedir/`, `fileio/`, `environ/`, `stdio/`,
  `datafiles/`, much of `exercises/`): no state of their own.
- `lab_1/test.c`, `test3.c`, `test5.c`, `lab_2/opend.c`, `test.c` and `test1.c` do not compile: they are the texts of
  several programs in one file. `lab_1/test4.c` prints the answers of `getaddrinfo`.
