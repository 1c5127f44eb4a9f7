------------------------------- MODULE Printd -------------------------------
(***************************************************************************)
(* The print spooler of lab_1/apue.3e/printer/printd.c: the threads that   *)
(* serve clients, the printer thread, the signal thread, and the spool     *)
(* directory, which is what is left when the daemon ends.                  *)
(*                                                                         *)
(* Every client submits one file.  A critical section of joblock or of     *)
(* configlock is one step; so is every system call on a spool file, except *)
(* that the printer thread reads a whole data file in one step.            *)
(***************************************************************************)
EXTENDS Integers, Sequences, FiniteSets

CONSTANTS
    Clients,
    Size,        \* Size[c]: how many buffers the file of c takes
    Stalls,      \* the clients that may fall silent before the end of the file
    NONE,
    OpenMax,     \* how many descriptors build_qonstart may use up
    MaxId,       \* the largest job number
    MaxFails,    \* bound on failing system calls and printer errors
    MaxStops     \* bound on the ends of the daemon

ASSUME PrintdAssumption ==
    /\ Size \in [Clients -> Nat]
    /\ Stalls \subseteq Clients
    /\ NONE \notin Clients \cup {"partial"} /\ "partial" \notin Clients
    /\ OpenMax \in Nat /\ MaxId \in Nat \ {0} /\ MaxFails \in Nat
    /\ MaxStops \in Nat

JobIds == 1 .. MaxId

VARIABLES
    jobno,      \* the number in the job file, 0 when it is empty
    data, req,  \* the spool directory: data files and control files by job
    up,         \* whether the daemon runs
    scan,       \* the control files build_qonstart has still to read
    leaked,     \* the descriptors it has left open
    skipped,    \* history: the control files it could not open
    nextjob, queue,          \* the next job number and the list of jobs
    cpc, id, reply,          \* the thread of each client, and its answer
    ppc, job,                \* the printer thread, and the job it has
    reread,                  \* the request to read the configuration again
    current,                 \* whether the address in use is the configured one
    fails, stops,
    done, cancelled,         \* history: what was printed, what was canceled
    before,                  \* history: how many jobs earlier daemons have printed
    unsaved                  \* history: the numbers that were given out, but not yet
                             \* passed in the job file, when a daemon ended

disk == <<jobno, data, req>>
daemon == <<up, scan, leaked, skipped>>
config == <<reread, current>>
client == <<cpc, id, reply>>
printer == <<ppc, job>>
past == <<done, cancelled, before, unsaved>>
bounds == <<fails, stops>>
vars == <<jobno, data, req, up, scan, leaked, skipped, nextjob, queue, cpc, id, reply, ppc, job,
          reread, current, fails, stops, done, cancelled, before, unsaved>>

-----------------------------------------------------------------------------
\* A data file holds the first len buffers of the file of its owner.
DataFile == [owner : Clients, len : Nat]
NoFile == [owner |-> NONE, len |-> 0]

\* A struct job: the copy of the request says whose it is.
Job == [id : JobIds, owner : Clients]
NoJob == [id |-> 0, owner |-> NONE]

ClientPoints == {"none", "header", "getid", "creat", "read", "creatreq", "writereq",
                 "unlinkreq", "unlinkdata", "reply", "add", "done", "lost"}
Running == ClientPoints \ {"none", "done", "lost"}
PrinterPoints == {"get", "waiting", "update", "config", "init_printer", "open",
                  "connect", "send", "status", "unlink_data", "unlink_req",
                  "defer", "sleep", "down"}

TypeOK ==
    /\ jobno \in 0 .. MaxId
    /\ data \in [JobIds -> DataFile \cup {NoFile}]
    /\ req \in [JobIds -> Clients \cup {NONE, "partial"}]
    /\ up \in BOOLEAN
    /\ scan \subseteq JobIds
    /\ leaked \in 0 .. OpenMax
    /\ skipped \subseteq JobIds
    /\ nextjob \in JobIds
    /\ queue \in Seq(Job)
    /\ cpc \in [Clients -> ClientPoints]
    /\ id \in [Clients -> JobIds \cup {0}]
    /\ reply \in [Clients -> {"none", "ok", "error"}]
    /\ ppc \in PrinterPoints
    /\ job \in Job \cup {NoJob}
    /\ reread \in BOOLEAN /\ current \in BOOLEAN
    /\ fails \in 0 .. MaxFails /\ stops \in 0 .. MaxStops
    /\ done \in Seq(Clients)
    /\ cancelled \subseteq Clients
    /\ before \in 0 .. Len(done)
    /\ unsaved \subseteq JobIds

Init ==
    /\ jobno = 0
    /\ data = [i \in JobIds |-> NoFile]
    /\ req = [i \in JobIds |-> NONE]
    /\ up = FALSE
    /\ scan = {} /\ leaked = 0 /\ skipped = {}
    /\ nextjob = 1
    /\ queue = << >>
    /\ cpc = [c \in Clients |-> "none"]
    /\ id = [c \in Clients |-> 0]
    /\ reply = [c \in Clients |-> "none"]
    /\ ppc = "down" /\ job = NoJob
    /\ reread = FALSE /\ current = TRUE
    /\ fails = 0 /\ stops = 0
    /\ done = << >> /\ cancelled = {} /\ before = 0 /\ unsaved = {}

\* A system call fails.
Fail == fails < MaxFails /\ fails' = fails + 1

-----------------------------------------------------------------------------
\* The daemon starts and ends

\* What init_request finds in the job file.
SavedJobno == IF jobno = 0 THEN 1 ELSE jobno

\* main, up to the creation of the threads.
Start ==
    /\ ~up
    /\ up' = TRUE
    /\ nextjob' = SavedJobno
    /\ scan' = {i \in JobIds : req[i] # NONE}
    /\ leaked' = 0 /\ skipped' = {}
    /\ ppc' = "get"
    /\ current' = TRUE
    /\ reread' = FALSE
    /\ before' = Len(done)
    /\ UNCHANGED <<disk, queue, client, job, bounds, done, cancelled, unsaved>>

\* SIGTERM, a fatal error, or a crash, at any point: the threads and the list
\* are gone, and so is what nextjob is ahead of the job file.  kill_workers
\* changes nothing that outlives the exit(0) after it.
Stop ==
    /\ up
    /\ stops < MaxStops
    /\ stops' = stops + 1
    /\ up' = FALSE
    /\ scan' = {} /\ leaked' = 0 /\ skipped' = {}
    /\ queue' = << >>
    /\ ppc' = "down" /\ job' = NoJob
    /\ cpc' = [c \in Clients |-> IF cpc[c] \in Running THEN "lost" ELSE cpc[c]]
    /\ unsaved' = unsaved \cup SavedJobno .. nextjob - 1
    /\ UNCHANGED <<disk, nextjob, id, reply, config, fails, done, cancelled, before>>

\* (mutant) The printer thread is not woken.
AddJobSilently(j) ==
    /\ queue' = Append(queue, j)
    /\ UNCHANGED ppc

\* add_job: the condition variable is signalled right after the unlock, and
\* the printer thread, if it waits, looks at the list again.
AddJob(j) ==
    /\ queue' = Append(queue, j)
    /\ ppc' = IF ppc = "waiting" THEN "get" ELSE ppc

\* (mutant) The job is not queued.
QonstartSkips(i) ==
    /\ up /\ i \in scan
    /\ scan' = scan \ {i}
    /\ UNCHANGED <<disk, up, nextjob, queue, leaked, skipped, client, printer, config,
                   bounds, past>>

\* build_qonstart reads a control file, and keeps its descriptor open when
\* it adds the job; a file cut short goes, with its data; one that cannot be
\* opened stays where it is.
Qonstart(i) ==
    /\ up /\ i \in scan
    /\ scan' = scan \ {i}
    /\ \/ /\ leaked < OpenMax /\ req[i] \in Clients
          /\ AddJob([id |-> i, owner |-> req[i]])
          /\ leaked' = leaked + 1
          /\ UNCHANGED <<data, req, skipped>>
       \/ /\ leaked < OpenMax /\ req[i] = "partial"
          /\ req' = [req EXCEPT ![i] = NONE]
          /\ data' = [data EXCEPT ![i] = NoFile]
          /\ UNCHANGED <<queue, ppc, leaked, skipped>>
       \/ /\ leaked = OpenMax
          /\ skipped' = skipped \cup {i}
          /\ UNCHANGED <<data, req, queue, ppc, leaked>>
    /\ UNCHANGED <<jobno, up, nextjob, client, job, config, bounds, past>>

-----------------------------------------------------------------------------
\* client_thread

\* A step of the thread of c from one point to another.
Goto(c, from, to) == cpc[c] = from /\ cpc' = [cpc EXCEPT ![c] = to]

\* The rest of the state for a step that stays within the thread.
Elsewhere == UNCHANGED <<jobno, daemon, printer, config, stops, past>>

Answer(c, r) == reply' = [reply EXCEPT ![c] = r]

\* main accepts connections only after build_qonstart.
Connect(c) ==
    /\ up /\ scan = {}
    /\ Goto(c, "none", "header")
    /\ UNCHANGED <<data, req, nextjob, queue, id, reply, fails>> /\ Elsewhere

\* treadn of the request; a short one is refused.
ReadHeader(c) ==
    /\ \/ Goto(c, "header", "getid") /\ UNCHANGED <<fails, reply>>
       \/ Goto(c, "header", "done") /\ Fail /\ Answer(c, "error")
    /\ UNCHANGED <<data, req, nextjob, queue, id>> /\ Elsewhere

\* (mutant) Without joblock an increment may be lost.
GetJobnoUnlocked(c) ==
    /\ Goto(c, "getid", "creat")
    /\ id' = [id EXCEPT ![c] = nextjob]
    /\ nextjob' \in {nextjob, IF nextjob = MaxId THEN 1 ELSE nextjob + 1}
    /\ UNCHANGED <<data, req, queue, reply, fails>> /\ Elsewhere

\* get_newjobno
GetJobno(c) ==
    /\ Goto(c, "getid", "creat")
    /\ id' = [id EXCEPT ![c] = nextjob]
    /\ nextjob' = IF nextjob = MaxId THEN 1 ELSE nextjob + 1
    /\ UNCHANGED <<data, req, queue, reply, fails>> /\ Elsewhere

\* creat empties a data file that is there.
CreatData(c) ==
    /\ \/ /\ Goto(c, "creat", "read")
          /\ data' = [data EXCEPT ![id[c]] = [owner |-> c, len |-> 0]]
          /\ UNCHANGED <<fails, reply>>
       \/ Goto(c, "creat", "done") /\ Fail /\ Answer(c, "error") /\ UNCHANGED data
    /\ UNCHANGED <<req, nextjob, queue, id>> /\ Elsewhere

\* The data file of c is in the directory.  With a number that was given out
\* before, the printer thread may unlink it while c writes to it.
InPlace(c) == data[id[c]].owner = c

\* The client has more to send.
Unread(c) == cpc[c] = "read" /\ (InPlace(c) => data[id[c]].len < Size[c])

\* The buffer is in the data file, if that has still a name.
Stored(c) == data' = IF InPlace(c) THEN [data EXCEPT ![id[c]].len = @ + 1] ELSE data

\* (mutant) The data file stays behind when it cannot be written.
ReadBufferLeaves(c) ==
    /\ Unread(c)
    /\ \/ /\ Goto(c, "read", "read")
          /\ Stored(c)
          /\ UNCHANGED <<fails, reply>>
       \/ Goto(c, "read", "done") /\ Fail /\ Answer(c, "error") /\ UNCHANGED data
    /\ UNCHANGED <<req, nextjob, queue, id>> /\ Elsewhere

\* A buffer from the client is written to the data file.
ReadBuffer(c) ==
    /\ Unread(c)
    /\ \/ /\ Goto(c, "read", "read")
          /\ Stored(c)
          /\ UNCHANGED <<fails, reply>>
       \/ Goto(c, "read", "unlinkdata") /\ Fail /\ Answer(c, "error") /\ UNCHANGED data
    /\ UNCHANGED <<req, nextjob, queue, id>> /\ Elsewhere

\* (mutant) The client is answered before its request is on the disk.
ReadEndReplies(c) ==
    /\ Goto(c, "read", "creatreq")
    /\ (InPlace(c) => data[id[c]].len = Size[c]) \/ c \in Stalls
    /\ Answer(c, "ok")
    /\ UNCHANGED <<data, req, nextjob, queue, id, fails>> /\ Elsewhere

\* tread returns 0 or -1.  The print command keeps its end of the connection
\* open while it waits for the answer, so that it is the time limit which
\* ends the loop; a client that stalls, or dies, ends it as well.
ReadEnd(c) ==
    /\ Goto(c, "read", "creatreq")
    /\ (InPlace(c) => data[id[c]].len = Size[c]) \/ c \in Stalls
    /\ UNCHANGED <<data, req, nextjob, queue, id, reply, fails>> /\ Elsewhere

CreatReq(c) ==
    /\ \/ /\ Goto(c, "creatreq", "writereq")
          /\ req' = [req EXCEPT ![id[c]] = "partial"]
          /\ UNCHANGED <<fails, reply>>
       \/ Goto(c, "creatreq", "unlinkdata") /\ Fail /\ Answer(c, "error") /\ UNCHANGED req
    /\ UNCHANGED <<data, nextjob, queue, id>> /\ Elsewhere

\* The control file may be gone as well.
WriteReq(c) ==
    /\ \/ /\ Goto(c, "writereq", "reply")
          /\ req' = [req EXCEPT ![id[c]] = IF @ = "partial" THEN c ELSE @]
          /\ UNCHANGED <<fails, reply>>
       \/ Goto(c, "writereq", "unlinkreq") /\ Fail /\ Answer(c, "error") /\ UNCHANGED req
    /\ UNCHANGED <<data, nextjob, queue, id>> /\ Elsewhere

UnlinkReqFile(c) ==
    /\ Goto(c, "unlinkreq", "unlinkdata")
    /\ req' = [req EXCEPT ![id[c]] = NONE]
    /\ UNCHANGED <<data, nextjob, queue, id, reply, fails>> /\ Elsewhere

UnlinkDataFile(c) ==
    /\ Goto(c, "unlinkdata", "done")
    /\ data' = [data EXCEPT ![id[c]] = NoFile]
    /\ UNCHANGED <<req, nextjob, queue, id, reply, fails>> /\ Elsewhere

\* The client is told its job number, and gone.
Reply(c) ==
    /\ Goto(c, "reply", "add")
    /\ Answer(c, "ok")
    /\ UNCHANGED <<data, req, nextjob, queue, id, fails>> /\ Elsewhere

Enqueue(c) ==
    /\ Goto(c, "add", "done")
    /\ AddJob([id |-> id[c], owner |-> c])
    /\ UNCHANGED <<disk, daemon, nextjob, id, reply, job, config, bounds, past>>

ClientStep(c) ==
    \/ ReadHeader(c) \/ GetJobno(c) \/ CreatData(c) \/ ReadBuffer(c) \/ ReadEnd(c)
    \/ CreatReq(c) \/ WriteReq(c) \/ UnlinkReqFile(c) \/ UnlinkDataFile(c)
    \/ Reply(c) \/ Enqueue(c)

-----------------------------------------------------------------------------
\* printer_thread

PGoto(from, to) == ppc = from /\ ppc' = to

PickUp ==
    /\ PGoto("get", "update")
    /\ queue # << >>
    /\ job' = Head(queue)
    /\ queue' = Tail(queue)
    /\ UNCHANGED <<disk, daemon, nextjob, client, config, bounds, past>>

Wait ==
    /\ PGoto("get", "waiting")
    /\ queue = << >>
    /\ UNCHANGED <<disk, daemon, nextjob, queue, client, job, config, bounds, past>>

\* The printer thread reads nextjob without joblock.
UpdateJobno ==
    /\ PGoto("update", "config")
    /\ jobno' = nextjob
    /\ UNCHANGED <<data, req, daemon, nextjob, queue, client, job, config, bounds, past>>

CheckConfig ==
    /\ PGoto("config", IF reread THEN "init_printer" ELSE "open")
    /\ reread' = FALSE
    /\ UNCHANGED <<disk, daemon, nextjob, queue, client, job, current, bounds, past>>

InitPrinter ==
    /\ PGoto("init_printer", "open")
    /\ current' = TRUE
    /\ UNCHANGED <<disk, daemon, nextjob, queue, client, job, reread, bounds, past>>

\* (mutant) The request to reread is cleared after the file was read.
ReconfigureLate ==
    \/ /\ PGoto("config", IF reread THEN "init_printer" ELSE "open")
       /\ current' = (reread \/ current)
       /\ UNCHANGED <<disk, daemon, nextjob, queue, client, job, reread, bounds, past>>
    \/ /\ PGoto("init_printer", "open")
       /\ reread' = FALSE
       /\ UNCHANGED <<disk, daemon, nextjob, queue, client, job, current, bounds, past>>

\* The request is cleared under configlock, then the file is read.
Reconfigure == CheckConfig \/ InitPrinter

\* The data file is opened; if it cannot be, the job is dropped.
OpenJob ==
    /\ \/ /\ PGoto("open", "connect")
          /\ data[job.id] # NoFile
          /\ UNCHANGED <<job, fails, cancelled>>
       \/ /\ PGoto("open", "get")
          /\ IF data[job.id] = NoFile THEN UNCHANGED fails ELSE Fail
          /\ job' = NoJob
          /\ cancelled' = cancelled \cup {job.owner}
    /\ UNCHANGED <<disk, daemon, nextjob, queue, client, config, stops, done, before, unsaved>>

ConnectPrinter ==
    /\ \/ PGoto("connect", "send") /\ UNCHANGED fails
       \/ PGoto("connect", "defer") /\ Fail
    /\ UNCHANGED <<disk, daemon, nextjob, queue, client, job, config, stops, past>>

SendJob ==
    /\ \/ PGoto("send", "status") /\ UNCHANGED fails
       \/ PGoto("send", "defer") /\ Fail
    /\ UNCHANGED <<disk, daemon, nextjob, queue, client, job, config, stops, past>>

\* Whose data the printer got: the file that was opened is that of one of the
\* clients with this number, if it has lost its name meanwhile.
Sent == IF data[job.id] # NoFile THEN {data[job.id].owner}
        ELSE {c \in Clients : id[c] = job.id}

\* printer_status says whether the printer took the job; a job that was
\* printed counts as the one whose data it was.
PrinterStatus ==
    /\ \/ /\ PGoto("status", "unlink_data")
          /\ \E c \in Sent : done' = Append(done, c)
          /\ UNCHANGED fails
       \/ PGoto("status", "defer") /\ Fail /\ UNCHANGED done
    /\ UNCHANGED <<disk, daemon, nextjob, queue, client, job, config, stops, cancelled, before, unsaved>>

UnlinkData ==
    /\ PGoto("unlink_data", "unlink_req")
    /\ data' = [data EXCEPT ![job.id] = NoFile]
    /\ UNCHANGED <<jobno, req, daemon, nextjob, queue, client, job, config, bounds, past>>

UnlinkReq ==
    /\ PGoto("unlink_req", "get")
    /\ req' = [req EXCEPT ![job.id] = NONE]
    /\ job' = NoJob
    /\ UNCHANGED <<jobno, data, daemon, nextjob, queue, client, config, bounds, past>>

\* (mutant) A deferred job goes to the end of the list.
ReplaceJobLast ==
    /\ PGoto("defer", "sleep")
    /\ queue' = Append(queue, job)
    /\ job' = NoJob
    /\ UNCHANGED <<disk, daemon, nextjob, client, config, bounds, past>>

\* replace_job, and a minute of sleep.
ReplaceJob ==
    /\ PGoto("defer", "sleep")
    /\ queue' = <<job>> \o queue
    /\ job' = NoJob
    /\ UNCHANGED <<disk, daemon, nextjob, client, config, bounds, past>>

Awake ==
    /\ PGoto("sleep", "get")
    /\ UNCHANGED <<disk, daemon, nextjob, queue, client, job, config, bounds, past>>

PrinterStep ==
    \/ PickUp \/ Wait \/ UpdateJobno \/ Reconfigure \/ OpenJob
    \/ ConnectPrinter \/ SendJob \/ PrinterStatus \/ UnlinkData \/ UnlinkReq
    \/ ReplaceJob \/ Awake

-----------------------------------------------------------------------------
\* signal_thread: the configuration has been edited and SIGHUP sent.
Hangup ==
    /\ up
    /\ current' = FALSE
    /\ reread' = TRUE
    /\ UNCHANGED <<disk, daemon, nextjob, queue, client, printer, bounds, past>>

Next ==
    \/ Start \/ Stop \/ Hangup \/ PrinterStep
    \/ \E i \in JobIds : Qonstart(i)
    \/ \E c \in Clients : Connect(c) \/ ClientStep(c)

Spec == Init /\ [][Next]_vars

\* The threads run, and somebody starts the daemon again.
Fairness ==
    /\ WF_vars(Start)
    /\ \A i \in JobIds : WF_vars(Qonstart(i))
    /\ \A c \in Clients : WF_vars(ClientStep(c))
    /\ WF_vars(PrinterStep)

FairSpec == Spec /\ Fairness
-----------------------------------------------------------------------------
\* Properties

Printed == {done[i] : i \in DOMAIN done}

\* The numbers that two clients were given.
Reused == {i \in JobIds : \E c, d \in Clients : c # d /\ id[c] = i /\ id[d] = i}

\* The variables have their types; a number is given out again only if a
\* daemon ended before the job file was past it, however many threads ask at
\* once; and no other two jobs in the hands of the daemon have one number, so
\* that none prints or unlinks the files of another (get_newjobno, add_job,
\* replace_job, update_jobno, init_request, build_qonstart).
JobsDistinct ==
    /\ TypeOK
    /\ Reused \subseteq unsaved
    /\ \A m, n \in DOMAIN queue : queue[m].id = queue[n].id => m = n \/ queue[m].id \in Reused
    /\ \A n \in DOMAIN queue : queue[n].id = job.id => job.id \in Reused

\* What "request ID" tells c: its file stays in the spool directory, with its
\* request, until it has been printed.
Kept(c) == reply[c] = "ok" /\ c \notin Printed =>
    \E i \in JobIds : req[i] = c /\ data[i].owner = c

\* Once a client has been told "request ID", its file and its request stay
\* in the spool directory until it has been printed, wherever the daemon
\* ends, so that build_qonstart finds both; unless its number is given out
\* again, to another client, which JobsDistinct says when to expect.
AckedIsSpooled == \A c \in Clients : id[c] \notin Reused => Kept(c)

\* A client gets "the next job number" (printd.c 252), which the job ID file
\* holds (234): so whatever was accepted stays, and no later job takes its
\* files.  The code does not keep this.
AlwaysSpooled == \A c \in Clients : Kept(c)

\* The daemon will come to the files of job i by itself: a client thread or
\* a job in its hands has this number.
Known(i) ==
    \/ \E c \in Clients : id[c] = i /\ cpc[c] \in Running
    \/ job.id = i
    \/ \E n \in DOMAIN queue : queue[n].id = i

\* No exit of client_thread and no path of printer_thread leaves a file in
\* the spool directory that nobody will remove: every file belongs to a
\* running client thread or to a job of the list.  Left over are the files
\* of a canceled job, those build_qonstart could not open, and those of a
\* client thread that went down with an earlier daemon.  This is said of the
\* numbers that were given out once.
NoOrphans ==
    up /\ scan = {} => \A i \in JobIds \ (skipped \cup Reused) : data[i] # NoFile \/ req[i] # NONE =>
        \/ Known(i)
        \/ {data[i].owner, req[i]} \cap cancelled # {}
        \/ data[i].owner \in {c \in Clients : cpc[c] = "lost"}

\* Once build_qonstart has read the directory, every complete control file
\* it could open has its job, in the list or at the printer, or its client
\* thread, whenever the last daemon ended.  This is said of the numbers that
\* were given out once.
PendingQueued ==
    up /\ scan = {} => \A i \in JobIds \ (skipped \cup Reused) : req[i] \in Clients \ cancelled => Known(i)

\* After SIGHUP the next job goes to the newly configured printer: a request
\* that comes while the file is being read is not lost.
RereadHonoured == (up /\ ~reread /\ ppc # "init_printer") => current

\* A job that was accepted is printed at last, through deferrals, restarts
\* and other jobs, or its cancellation is logged; as long as build_qonstart
\* can open its control file, and unless its number is given out again after
\* a daemon that ended before the job file was past it.
AckedIsPrinted ==
    \A c \in Clients : reply[c] = "ok" ~>
        c \in Printed \cup cancelled \cup {req[i] : i \in skipped} \/ id[c] \in Reused

\* While the daemon runs it is a first-in first-out queue (PrintQueue).  What
\* is done is the owner of the data that were sent, what waits is the owner
\* of the request: each job is printed with its own data.  A job is printed
\* again only by another daemon, when the last one ended between the answer
\* of the printer and the unlink of the control file.  A job whose number was
\* given out twice is printed in its turn too, but maybe with other data.
Owners(q) == [n \in DOMAIN q |-> q[n].owner]
Held == IF ppc \in {"unlink_data", "unlink_req"} \/ job = NoJob THEN << >> ELSE <<job.owner>>
FirstInFirstOut == INSTANCE PrintQueue WITH waiting <- Held \o Owners(queue)
Spooler == <<up, Held \o Owners(queue), done, before>>

\* A step that adds, prints or drops a job whose number was given out twice.
OfReused == \E j \in Job : /\ j.id \in Reused
                           /\ queue' = Append(queue, j) \/ (job = j /\ queue' = queue)

IsFifo == FirstInFirstOut!Init /\ [][FirstInFirstOut!Next \/ OfReused]_Spooler
=============================================================================
