---------------------------- MODULE PrintdProofs ----------------------------
(***************************************************************************)
(* Theorems about Printd, for any number of clients, failures and ends of  *)
(* the daemon.  In three parts:                                            *)
(*   - no SIGHUP is lost (RereadHonoured);                                 *)
(*   - the jobs, wherever the daemon ends: a number is given out twice     *)
(*     only after an end at which the job file was behind (JobsDistinct),  *)
(*     and the jobs of all other numbers are safe from it, in that an      *)
(*     accepted job is in the spool directory until it is printed          *)
(*     (AckedIsSpooled) and the list and the directory agree               *)
(*     (PendingQueued, NoOrphans);                                         *)
(*   - the spooler implements the queue of PrintQueue: the jobs of those   *)
(*     numbers are printed in the order in which they were added to the    *)
(*     list, each with its own data, and none twice by one daemon          *)
(*     (IsFifo).                                                           *)
(***************************************************************************)
EXTENDS Printd, FiniteSetTheorems, SequenceTheorems, TLAPS

-----------------------------------------------------------------------------
\* The configuration

\* The printer thread exists while the daemon runs.
HasPrinter == up <=> ppc # "down"
IInv == HasPrinter /\ RereadHonoured

LEMMA InitIInv == Init => IInv
BY DEF Init, IInv, HasPrinter, RereadHonoured

\* No client thread, and not build_qonstart, touches the configuration; they
\* may wake the printer thread.
LEMMA OthersIInv ==
    ASSUME IInv,
           \/ \E i \in JobIds : Qonstart(i)
           \/ \E c \in Clients : Connect(c) \/ ClientStep(c)
    PROVE  IInv'
<1>1. UNCHANGED <<up, reread, current>>
  BY DEF Qonstart, Connect, ClientStep, ReadHeader, GetJobno, CreatData, ReadBuffer, ReadEnd,
         CreatReq, WriteReq, UnlinkReqFile, UnlinkDataFile, Reply, Enqueue, Elsewhere, daemon, config
<1>2. ppc' = ppc \/ (ppc = "waiting" /\ ppc' = "get")
  <2>1. \A j : AddJob(j) => ppc' = ppc \/ (ppc = "waiting" /\ ppc' = "get")
    BY DEF AddJob
  <2> QED
    BY <2>1 DEF Qonstart, Connect, ClientStep, ReadHeader, GetJobno, CreatData, ReadBuffer, ReadEnd,
         CreatReq, WriteReq, UnlinkReqFile, UnlinkDataFile, Reply, Enqueue, Elsewhere, printer
<1> QED
  BY <1>1, <1>2 DEF IInv, HasPrinter, RereadHonoured

\* The steps of the printer thread that leave the configuration alone.
LEMMA PrinterIInv ==
    ASSUME IInv,
           \/ PickUp \/ Wait \/ UpdateJobno \/ OpenJob \/ ConnectPrinter \/ SendJob
           \/ PrinterStatus \/ UnlinkData \/ UnlinkReq \/ ReplaceJob \/ Awake
    PROVE  IInv'
<1>1. UNCHANGED <<up, reread, current>>
  BY DEF PickUp, Wait, UpdateJobno, OpenJob, ConnectPrinter, SendJob, PrinterStatus, UnlinkData,
         UnlinkReq, ReplaceJob, Awake, daemon, config
<1>2. {ppc, ppc'} \cap {"down", "init_printer"} = {}
  BY DEF PickUp, Wait, UpdateJobno, OpenJob, ConnectPrinter, SendJob, PrinterStatus, UnlinkData,
         UnlinkReq, ReplaceJob, Awake, PGoto
<1> QED
  BY <1>1, <1>2 DEF IInv, HasPrinter, RereadHonoured

LEMMA NextIInv == IInv /\ [Next]_vars => IInv'
<1> SUFFICES ASSUME IInv, [Next]_vars PROVE IInv'
  OBVIOUS
<1>1. CASE UNCHANGED vars
  BY <1>1 DEF vars, IInv, HasPrinter, RereadHonoured
<1>2. CASE Start \/ Stop
  BY <1>2 DEF Start, Stop, IInv, HasPrinter, RereadHonoured
\* The signal comes: whatever the printer thread is doing, it will look.
<1>3. CASE Hangup
  BY <1>3 DEF Hangup, daemon, printer, IInv, HasPrinter, RereadHonoured
\* The request is cleared before the file is read, not after it.
<1>4. CASE Reconfigure
  BY <1>4 DEF Reconfigure, CheckConfig, InitPrinter, PGoto, daemon, IInv, HasPrinter, RereadHonoured
<1>5. CASE PrinterStep /\ ~Reconfigure
  BY <1>5, PrinterIInv DEF PrinterStep
<1>6. CASE (\E i \in JobIds : Qonstart(i)) \/ (\E c \in Clients : Connect(c) \/ ClientStep(c))
  BY <1>6, OthersIInv
<1> QED
  BY <1>1, <1>2, <1>3, <1>4, <1>5, <1>6 DEF Next

\* After a SIGHUP the configuration is reread, however often it changes and
\* whatever happens meanwhile.
THEOREM Reread == Spec => []RereadHonoured
<1>1. IInv => RereadHonoured
  BY DEF IInv
<1> QED
  BY InitIInv, NextIInv, <1>1, PTL DEF Spec

-----------------------------------------------------------------------------
\* The jobs

\* The invariant

Before == {"none", "header", "getid"}     \* without a number yet

\* One client at most was given number i.
Sole(i) == i \in JobIds \ Reused

\* A thread has a number from get_newjobno on.
IdsOK == \A c \in Clients :
    /\ cpc[c] \in Before => id[c] = 0
    /\ cpc[c] \in Running \ Before => id[c] # 0

\* Client threads only run beside a daemon that has read the directory, and
\* the daemon has nothing in its hands while it is down.
DaemonOK ==
    /\ \A c \in Clients : cpc[c] \in Running => up /\ scan = {} /\ (Sole(id[c]) => id[c] \notin skipped)
    /\ scan \cap skipped = {}
    /\ up <=> ppc # "down"
    /\ ~up => queue = << >> /\ scan = {} /\ skipped = {}
    /\ job = NoJob <=> ppc \in {"get", "waiting", "sleep", "down"}

\* The files of a client thread, at each point of the code.
ThreadOK(c) == Sole(id[c]) =>
    /\ cpc[c] = "creat" => data[id[c]] = NoFile
    /\ cpc[c] \in {"creat", "read", "creatreq", "unlinkdata"} => req[id[c]] = NONE
    /\ cpc[c] \in {"writereq", "unlinkreq"} => req[id[c]] = "partial"
    /\ cpc[c] \in {"reply", "add"} => req[id[c]] = c
    /\ cpc[c] \in Running \ (Before \cup {"creat"}) => data[id[c]].owner = c

\* What a client was told is so.
AckOK(c) == reply[c] = "ok" =>
    /\ cpc[c] \in {"add", "done", "lost"}
    /\ id[c] # 0
    /\ Sole(id[c]) /\ c \notin Printed => req[id[c]] = c /\ data[id[c]].owner = c

\* Each file is that of a client with its number.
FileOK(i) ==
    /\ data[i] # NoFile => id[data[i].owner] = i
    /\ req[i] \in Clients => id[req[i]] = i
    /\ req[i] = "partial" => \E c \in Clients : id[c] = i

\* A job of the daemon is a request in the directory, whose client thread
\* has ended.
Spooled(j) ==
    /\ id[j.owner] = j.id
    /\ cpc[j.owner] \notin Running
    /\ Sole(j.id) => req[j.id] = j.owner /\ j.id \notin scan /\ j.id \notin skipped

QueueOK ==
    /\ \A n \in 1 .. Len(queue) : Spooled(queue[n]) /\ (queue[n].id = job.id => job.id \in Reused)
    /\ \A m, n \in 1 .. Len(queue) : queue[m].id = queue[n].id => m = n \/ queue[m].id \in Reused

\* The job at the printer.
JobOK ==
    /\ job # NoJob => Spooled(job)
    /\ Sole(job.id) =>
          /\ ppc \in {"connect", "send", "status"} => data[job.id] # NoFile
          /\ ppc \in {"unlink_data", "unlink_req"} => job.owner \in Printed
          /\ ppc = "unlink_req" => data[job.id] = NoFile

Lost == {c \in Clients : cpc[c] = "lost"}

\* The daemon knows the files that are left, or has given them up.
SpoolOK(i) == Sole(i) =>
    /\ i \in scan \cup skipped => req[i] # NONE
    /\ up /\ i \notin scan \cup skipped /\ req[i] # NONE => Known(i) \/ req[i] \in cancelled
    /\ data[i] # NoFile /\ req[i] = NONE =>
           Known(i) \/ data[i].owner \in cancelled \/ data[i].owner \in Lost

SInv ==
    /\ TypeOK /\ IdsOK /\ DaemonOK /\ QueueOK /\ JobOK
    /\ \A c \in Clients : ThreadOK(c) /\ AckOK(c)
    /\ \A i \in JobIds : FileOK(i) /\ SpoolOK(i)

\* Nobody else has the number of c, if it is the sole owner.
LEMMA SoleOwner ==
  ASSUME NEW c \in Clients, NEW d \in Clients, Sole(id[c]), id[d] = id[c]
  PROVE  c = d
BY DEF Sole, Reused

\* Only get_newjobno changes who has a number.
LEMMA SameIds == ASSUME id' = id PROVE Reused' = Reused
BY DEF Reused

\* A number that has been given to one client at most was given to one at
\* most before: nobody loses its number.
LEMMA SoleBefore ==
  ASSUME \A c \in Clients : id[c] # 0 => id'[c] = id[c]
  PROVE  \A i \in JobIds : i \in Reused => i \in Reused'
<1>. SUFFICES ASSUME NEW i \in JobIds, i \in Reused PROVE i \in Reused'
  OBVIOUS
<1>1. PICK c, d \in Clients : c # d /\ id[c] = i /\ id[d] = i
  BY DEF Reused
<1>2. i # 0
  BY DEF JobIds
<1>. QED
  BY <1>1, <1>2 DEF Reused

\* The data the printer gets are those of a client with the number of the job.
LEMMA SentOwners ==
  ASSUME SInv, job # NoJob, NEW c \in Sent
  PROVE  c \in Clients /\ id[c] = job.id /\ (Sole(job.id) => c = job.owner)
<1>1. job \in Job /\ job.id \in JobIds /\ job.owner \in Clients /\ id[job.owner] = job.id
  BY DEF SInv, TypeOK, JobOK, Spooled, Job
<1>2. c \in Clients /\ id[c] = job.id
  <2>1. CASE data[job.id] # NoFile
    <3>1. data[job.id] \in DataFile /\ FileOK(job.id)
      BY <1>1, <2>1 DEF SInv, TypeOK
    <3>. QED
      BY <2>1, <3>1 DEF Sent, FileOK, DataFile
  <2>2. CASE data[job.id] = NoFile
    BY <2>2 DEF Sent
  <2>. QED
    BY <2>1, <2>2
<1>. QED
  BY <1>1, <1>2, SoleOwner

\* What the printer thread finds in its list.
LEMMA QueueJobs ==
  ASSUME SInv
  PROVE  \A n \in 1 .. Len(queue) : queue[n] \in Job
<1>1. queue \in Seq(Job)
  BY DEF SInv, TypeOK
<1>. QED
  BY <1>1, ElementOfSeq

-----------------------------------------------------------------------------
\* A client thread changes its own files only

\* A step from a point with a number to another point, or to the end with no
\* file left, keeps what holds of all others.
LEMMA OwnFiles ==
  ASSUME SInv, NEW c \in Clients, NEW to \in ClientPoints \ (Before \cup {"lost"}),
         cpc[c] \in Running \ Before, cpc' = [cpc EXCEPT ![c] = to],
         TypeOK',
         \A i \in JobIds : i # id[c] => data'[i] = data[i] /\ req'[i] = req[i],
         \A d \in Clients : d # c => reply'[d] = reply[d],
         UNCHANGED <<jobno, up, scan, skipped, nextjob, queue, id, ppc, job, done, cancelled>>,
         ThreadOK(c)', AckOK(c)', FileOK(id[c])',
         Sole(id[c]) => to \in Running \/ (data'[id[c]] = NoFile /\ req'[id[c]] = NONE)
  PROVE  SInv'
<1>1. id[c] \in JobIds /\ Reused' = Reused
      /\ \A d \in Clients : d # c /\ Sole(id[d]) => id[d] # id[c]
  BY SameIds, SoleOwner DEF SInv, TypeOK, IdsOK
<1>2. \A d \in Clients : d # c => cpc'[d] = cpc[d]
  BY DEF SInv, TypeOK
<1>3. cpc'[c] = to
  BY DEF SInv, TypeOK
<1>4. IdsOK'
  BY <1>2, <1>3 DEF SInv, IdsOK, Running
<1>5. DaemonOK'
  BY <1>1, <1>2 DEF SInv, DaemonOK, Sole
<1>6. \A d \in Clients : ThreadOK(d)'
  <2>. SUFFICES ASSUME NEW d \in Clients, d # c PROVE ThreadOK(d)'
    OBVIOUS
  <2>1. ThreadOK(d) /\ cpc'[d] = cpc[d] /\ id'[d] = id[d]
    BY <1>2 DEF SInv
  <2>2. CASE Sole(id[d])
    <3>1. id[d] \in JobIds /\ id[d] # id[c]
      BY <2>2, <1>1 DEF Sole
    <3>. QED
      BY <2>1, <2>2, <3>1 DEF ThreadOK
  <2>3. CASE ~Sole(id[d])
    BY <1>1, <2>1, <2>3 DEF ThreadOK, Sole
  <2>. QED
    BY <2>2, <2>3
<1>7. \A d \in Clients : AckOK(d)'
  <2>. SUFFICES ASSUME NEW d \in Clients, d # c PROVE AckOK(d)'
    OBVIOUS
  <2>1. AckOK(d) /\ cpc'[d] = cpc[d] /\ id'[d] = id[d] /\ reply'[d] = reply[d]
    BY <1>2 DEF SInv
  <2>2. Printed' = Printed
    BY DEF Printed
  <2>3. Sole(id[d]) => id[d] \in JobIds /\ id[d] # id[c]
    BY <1>1 DEF Sole
  <2>4. Sole(id[d])' <=> Sole(id[d])
    BY <1>1, <2>1 DEF Sole
  <2>. QED
    BY <2>1, <2>2, <2>3, <2>4 DEF AckOK
<1>8. \A i \in JobIds : FileOK(i)'
  <2>. SUFFICES ASSUME NEW i \in JobIds, i # id[c] PROVE FileOK(i)'
    OBVIOUS
  <2>. QED
    BY DEF SInv, FileOK
<1>9. \A j \in Job : Spooled(j) => Spooled(j)' /\ (Sole(j.id) => j.id # id[c])
  <2>. SUFFICES ASSUME NEW j \in Job, Spooled(j) PROVE Spooled(j)' /\ (Sole(j.id) => j.id # id[c])
    OBVIOUS
  <2>1. j.owner # c /\ j.owner \in Clients /\ j.id \in JobIds
    BY DEF Spooled, Job
  <2>2. Sole(j.id) => j.id # id[c]
    BY <2>1, <1>1 DEF Spooled
  <2>3. Sole(j.id)' <=> Sole(j.id)
    BY <1>1 DEF Sole
  <2>. QED
    BY <2>1, <2>2, <2>3, <1>2 DEF Spooled
<1>10. QueueOK'
  <2>1. \A n \in 1 .. Len(queue) : queue[n] \in Job
    BY QueueJobs
  <2>. QED
    BY <1>1, <2>1, <1>9 DEF SInv, QueueOK
<1>11. JobOK'
  <2>1. CASE job = NoJob
    BY <2>1 DEF SInv, JobOK, Sole, JobIds, NoJob
  <2>2. CASE job # NoJob
    <3>1. job \in Job /\ Spooled(job)' /\ (Sole(job.id) => job.id # id[c]) /\ job.id \in JobIds
      BY <2>2, <1>9 DEF SInv, JobOK, TypeOK, Job
    <3>2. (Sole(job.id) => data'[job.id] = data[job.id]) /\ Printed' = Printed
      BY <3>1 DEF Printed
    <3>3. Sole(job.id)' <=> Sole(job.id)
      BY <1>1 DEF Sole
    <3>. QED
      BY <3>1, <3>2, <3>3 DEF SInv, JobOK
  <2>. QED
    BY <2>1, <2>2
<1>12. \A i \in JobIds : SpoolOK(i)'
  <2>1. CASE to \in Running
    <3>1. \A i \in JobIds : Known(i) => Known(i)'
      BY <2>1, <1>2, <1>3 DEF Known
    <3>2. Known(id[c])' /\ (Sole(id[c]) => id[c] \notin scan \cup skipped)
      BY <2>1, <1>3 DEF Known, SInv, DaemonOK
    <3>3. Lost' = Lost
      BY <1>2, <1>3 DEF Lost, Running
    <3>. QED
      BY <1>1, <3>1, <3>2, <3>3 DEF SpoolOK, SInv, Sole
  <2>2. CASE Sole(id[c]) => data'[id[c]] = NoFile /\ req'[id[c]] = NONE
    <3>1. \A i \in JobIds : i # id[c] => (Known(i) => Known(i)')
      BY <1>2, <1>3 DEF Known
    <3>2. Sole(id[c]) => id[c] \notin scan \cup skipped
      BY DEF SInv, DaemonOK
    <3>3. Lost' = Lost
      BY <1>2, <1>3 DEF Lost, Running
    <3>. QED
      BY <1>1, <2>2, <3>1, <3>2, <3>3 DEF SpoolOK, SInv, Sole
  <2>. QED
    BY <2>1, <2>2
<1>. QED
  BY <1>4, <1>5, <1>6, <1>7, <1>8, <1>10, <1>11, <1>12 DEF SInv

-----------------------------------------------------------------------------
\* Types

LEMMA TypeClient ==
  ASSUME SInv, NEW c \in Clients, Connect(c) \/ ClientStep(c)
  PROVE  TypeOK'
<1>1. TypeOK
  BY DEF SInv
<1>2. UNCHANGED <<jobno, up, scan, leaked, skipped, job, reread, current, stops, done, cancelled, before, unsaved>>
  BY DEF Connect, ClientStep, ReadHeader, GetJobno, CreatData, ReadBuffer, ReadEnd, CreatReq, WriteReq,
         UnlinkReqFile, UnlinkDataFile, Reply, Enqueue, Elsewhere, disk, daemon, printer, config, past, bounds
<1>3. cpc' \in [Clients -> ClientPoints]
  <2>1. \E to \in ClientPoints : cpc' = [cpc EXCEPT ![c] = to]
    BY DEF Connect, ClientStep, ReadHeader, GetJobno, CreatData, ReadBuffer, ReadEnd, CreatReq, WriteReq,
           UnlinkReqFile, UnlinkDataFile, Reply, Enqueue, Goto, ClientPoints
  <2>. QED
    BY <1>1, <2>1 DEF TypeOK
<1>4. reply' \in [Clients -> {"none", "ok", "error"}]
  <2>1. reply' = reply \/ \E r \in {"ok", "error"} : reply' = [reply EXCEPT ![c] = r]
    BY DEF Connect, ClientStep, ReadHeader, GetJobno, CreatData, ReadBuffer, ReadEnd, CreatReq, WriteReq,
           UnlinkReqFile, UnlinkDataFile, Reply, Enqueue, Answer
  <2>. QED
    BY <1>1, <2>1 DEF TypeOK
<1>5. fails' \in 0 .. MaxFails
  <2>1. fails' = fails \/ Fail
    BY DEF Connect, ClientStep, ReadHeader, GetJobno, CreatData, ReadBuffer, ReadEnd, CreatReq, WriteReq,
           UnlinkReqFile, UnlinkDataFile, Reply, Enqueue, bounds
  <2>2. fails \in 0 .. MaxFails /\ MaxFails \in Nat
    BY <1>1, PrintdAssumption DEF TypeOK
  <2>. QED
    BY <2>1, <2>2 DEF Fail
<1>6. req' \in [JobIds -> Clients \cup {NONE, "partial"}]
  <2>1. \/ req' = req
        \/ \E r \in {NONE, "partial", c} : req' = [req EXCEPT ![id[c]] = r]
        \/ req' = [req EXCEPT ![id[c]] = IF req[id[c]] = "partial" THEN c ELSE req[id[c]]]
    BY DEF Connect, ClientStep, ReadHeader, GetJobno, CreatData, ReadBuffer, ReadEnd, CreatReq, WriteReq,
           UnlinkReqFile, UnlinkDataFile, Reply, Enqueue, disk
  <2>. QED
    BY <1>1, <2>1 DEF TypeOK
<1>7. data' \in [JobIds -> DataFile \cup {NoFile}]
  <2>1. \/ data' = data
        \/ data' = [data EXCEPT ![id[c]] = [owner |-> c, len |-> 0]]
        \/ data' = [data EXCEPT ![id[c]] = NoFile]
        \/ cpc[c] = "read" /\ InPlace(c) /\ data' = [data EXCEPT ![id[c]].len = @ + 1]
    BY DEF Connect, ClientStep, ReadHeader, GetJobno, CreatData, ReadBuffer, Unread, Stored, ReadEnd, CreatReq, WriteReq,
           UnlinkReqFile, UnlinkDataFile, Reply, Enqueue, disk
  <2>2. data \in [JobIds -> DataFile \cup {NoFile}]
    BY <1>1 DEF TypeOK
  <2>3. [owner |-> c, len |-> 0] \in DataFile
    BY DEF DataFile
  <2>4. ASSUME cpc[c] = "read", InPlace(c) PROVE [data EXCEPT ![id[c]].len = @ + 1] \in [JobIds -> DataFile \cup {NoFile}]
    <3>1. id[c] \in JobIds
      BY <1>1, <2>4 DEF TypeOK, SInv, IdsOK, Before, Running, ClientPoints
    <3>2. data[id[c]].owner = c
      BY <2>4 DEF InPlace
    <3>3. data[id[c]] # NoFile
      BY <3>2, PrintdAssumption DEF NoFile
    <3>4. data[id[c]] \in DataFile
      BY <2>2, <3>1, <3>3
    <3>5. [data[id[c]] EXCEPT !.len = @ + 1] \in DataFile
      BY <3>4 DEF DataFile
    <3>. QED
      BY <2>2, <3>1, <3>5
  <2>. QED
    BY <2>1, <2>2, <2>3, <2>4
<1>8. nextjob' \in JobIds /\ id' \in [Clients -> JobIds \cup {0}]
  <2>1. \/ nextjob' = nextjob /\ id' = id
        \/ /\ id' = [id EXCEPT ![c] = nextjob]
           /\ nextjob' = IF nextjob = MaxId THEN 1 ELSE nextjob + 1
    BY DEF Connect, ClientStep, ReadHeader, GetJobno, CreatData, ReadBuffer, ReadEnd, CreatReq, WriteReq,
           UnlinkReqFile, UnlinkDataFile, Reply, Enqueue
  <2>2. nextjob \in JobIds /\ id \in [Clients -> JobIds \cup {0}]
    BY <1>1 DEF TypeOK
  <2>3. (IF nextjob = MaxId THEN 1 ELSE nextjob + 1) \in JobIds
    BY <2>2, PrintdAssumption DEF JobIds
  <2>. QED
    BY <2>1, <2>2, <2>3
<1>9. queue' \in Seq(Job) /\ ppc' \in PrinterPoints
  <2>1. \/ queue' = queue /\ ppc' = ppc
        \/ cpc[c] = "add" /\ AddJob([id |-> id[c], owner |-> c])
    BY DEF Connect, ClientStep, ReadHeader, GetJobno, CreatData, ReadBuffer, ReadEnd, CreatReq, WriteReq,
           UnlinkReqFile, UnlinkDataFile, Reply, Enqueue, Elsewhere, printer, Goto
  <2>2. cpc[c] = "add" => [id |-> id[c], owner |-> c] \in Job
    BY <1>1 DEF TypeOK, Job, SInv, IdsOK, Before, Running, ClientPoints
  <2>3. queue \in Seq(Job) /\ ppc \in PrinterPoints
    BY <1>1 DEF TypeOK
  <2>. QED
    BY <2>1, <2>2, <2>3 DEF AddJob, PrinterPoints
<1>. QED
  BY <1>1, <1>2, <1>3, <1>4, <1>5, <1>6, <1>7, <1>8, <1>9 DEF TypeOK

LEMMA TypePrinter ==
  ASSUME SInv, PrinterStep
  PROVE  TypeOK'
<1>1. TypeOK
  BY DEF SInv
<1>2. UNCHANGED <<up, scan, leaked, skipped, nextjob, cpc, id, reply, stops, before, unsaved>>
  BY DEF PrinterStep, PickUp, Wait, UpdateJobno, Reconfigure, CheckConfig, InitPrinter, OpenJob, ConnectPrinter,
         SendJob, PrinterStatus, UnlinkData, UnlinkReq, ReplaceJob, Awake, daemon, client, config, past, bounds
<1>3. jobno' \in {jobno, nextjob} /\ current' \in {current, TRUE} /\ reread' \in {reread, FALSE}
  BY DEF PrinterStep, PickUp, Wait, UpdateJobno, Reconfigure, CheckConfig, InitPrinter, OpenJob, ConnectPrinter,
         SendJob, PrinterStatus, UnlinkData, UnlinkReq, ReplaceJob, Awake, disk, config
<1>4. jobno' \in 0 .. MaxId /\ current' \in BOOLEAN /\ reread' \in BOOLEAN
  <2>1. jobno \in 0 .. MaxId /\ nextjob \in 0 .. MaxId
    BY <1>1 DEF TypeOK, JobIds
  <2>2. reread \in BOOLEAN /\ current \in BOOLEAN
    BY <1>1 DEF TypeOK
  <2>. QED
    BY <1>3, <2>1, <2>2
<1>5. ppc' \in PrinterPoints
  BY DEF PrinterStep, PickUp, Wait, UpdateJobno, Reconfigure, CheckConfig, InitPrinter, OpenJob, ConnectPrinter,
         SendJob, PrinterStatus, UnlinkData, UnlinkReq, ReplaceJob, Awake, PGoto, PrinterPoints
<1>6. fails' \in 0 .. MaxFails
  <2>1. fails' = fails \/ Fail
    BY DEF PrinterStep, PickUp, Wait, UpdateJobno, Reconfigure, CheckConfig, InitPrinter, OpenJob, ConnectPrinter,
           SendJob, PrinterStatus, UnlinkData, UnlinkReq, ReplaceJob, Awake, bounds
  <2>2. fails \in 0 .. MaxFails /\ MaxFails \in Nat
    BY <1>1, PrintdAssumption DEF TypeOK
  <2>. QED
    BY <2>1, <2>2 DEF Fail
<1>7. data' \in [JobIds -> DataFile \cup {NoFile}] /\ req' \in [JobIds -> Clients \cup {NONE, "partial"}]
  <2>1. data' = data \/ data' = [data EXCEPT ![job.id] = NoFile]
    BY DEF PrinterStep, PickUp, Wait, UpdateJobno, Reconfigure, CheckConfig, InitPrinter, OpenJob, ConnectPrinter,
           SendJob, PrinterStatus, UnlinkData, UnlinkReq, ReplaceJob, Awake, disk
  <2>2. req' = req \/ req' = [req EXCEPT ![job.id] = NONE]
    BY DEF PrinterStep, PickUp, Wait, UpdateJobno, Reconfigure, CheckConfig, InitPrinter, OpenJob, ConnectPrinter,
           SendJob, PrinterStatus, UnlinkData, UnlinkReq, ReplaceJob, Awake, disk
  <2>. QED
    BY <1>1, <2>1, <2>2 DEF TypeOK
<1>8. job' \in Job \cup {NoJob} /\ queue' \in Seq(Job)
  <2>1. job \in Job \cup {NoJob} /\ queue \in Seq(Job)
    BY <1>1 DEF TypeOK
  <2>2. \/ job' \in {job, NoJob} /\ queue' = queue
        \/ queue # << >> /\ job' = Head(queue) /\ queue' = Tail(queue)
        \/ ppc = "defer" /\ job' = NoJob /\ queue' = <<job>> \o queue
    BY DEF PrinterStep, PickUp, Wait, UpdateJobno, Reconfigure, CheckConfig, InitPrinter, OpenJob, ConnectPrinter,
           SendJob, PrinterStatus, UnlinkData, UnlinkReq, ReplaceJob, Awake, PGoto
  <2>3. ppc = "defer" => job \in Job
    BY <2>1 DEF SInv, DaemonOK
  <2>4. CASE queue # << >> /\ job' = Head(queue) /\ queue' = Tail(queue)
    BY <2>1, <2>4
  <2>5. CASE ppc = "defer" /\ job' = NoJob /\ queue' = <<job>> \o queue
    <3>1. <<job>> \in Seq(Job)
      BY <2>3, <2>5
    <3>. QED
      BY <2>1, <2>5, <3>1
  <2>. QED
    BY <2>1, <2>2, <2>4, <2>5
<1>9. cancelled' \subseteq Clients
  <2>1. cancelled' = cancelled \/ (ppc = "open" /\ cancelled' = cancelled \cup {job.owner})
    <3>1. CASE OpenJob
      BY <3>1 DEF OpenJob, PGoto
    <3>2. CASE ~OpenJob
      BY <3>2 DEF PrinterStep, PickUp, Wait, UpdateJobno, Reconfigure, CheckConfig, InitPrinter, ConnectPrinter,
                  SendJob, PrinterStatus, UnlinkData, UnlinkReq, ReplaceJob, Awake, past
    <3>. QED
      BY <3>1, <3>2
  <2>2. ppc = "open" => job \in Job
    BY <1>1 DEF TypeOK, SInv, DaemonOK
  <2>. QED
    BY <1>1, <2>1, <2>2 DEF TypeOK, Job
<1>10. done' \in Seq(Clients) /\ before' \in 0 .. Len(done')
  <2>1. done' = done \/ (ppc = "status" /\ \E c \in Sent : done' = Append(done, c))
    <3>1. CASE PrinterStatus
      BY <3>1 DEF PrinterStatus, PGoto
    <3>2. CASE ~PrinterStatus
      BY <3>2 DEF PrinterStep, PickUp, Wait, UpdateJobno, Reconfigure, CheckConfig, InitPrinter, OpenJob,
                  ConnectPrinter, SendJob, UnlinkData, UnlinkReq, ReplaceJob, Awake, past
    <3>. QED
      BY <3>1, <3>2
  <2>2. ppc = "status" => Sent \subseteq Clients
    BY SentOwners DEF SInv, DaemonOK
  <2>3. done \in Seq(Clients) /\ before \in 0 .. Len(done) /\ before' = before
    BY <1>1, <1>2 DEF TypeOK
  <2>. QED
    BY <2>1, <2>2, <2>3
<1>. QED
  BY <1>1, <1>2, <1>4, <1>5, <1>6, <1>7, <1>8, <1>9, <1>10 DEF TypeOK

LEMMA TypeRest ==
  ASSUME SInv, Start \/ Stop \/ Hangup \/ \E i \in JobIds : Qonstart(i)
  PROVE  TypeOK'
<1>1. TypeOK
  BY DEF SInv
<1>2. CASE Start
  <2>1. nextjob' \in JobIds /\ before' \in 0 .. Len(done)
    BY <1>1, <1>2, PrintdAssumption DEF Start, SavedJobno, JobIds, TypeOK
  <2>2. leaked' \in 0 .. OpenMax
    BY <1>2, PrintdAssumption DEF Start
  <2>3. scan' \subseteq JobIds /\ skipped' = {} /\ reread' = FALSE /\ current' = TRUE /\ up' = TRUE /\ ppc' = "get"
    BY <1>2 DEF Start
  <2>4. UNCHANGED <<jobno, data, req, queue, cpc, id, reply, job, fails, stops, done, cancelled, unsaved>>
    BY <1>2 DEF Start, disk, client, bounds
  <2>. QED
    BY <1>1, <2>1, <2>2, <2>3, <2>4 DEF TypeOK, PrinterPoints
<1>3. CASE Stop
  <2>1. leaked' \in 0 .. OpenMax /\ stops' \in 0 .. MaxStops
    BY <1>1, <1>3, PrintdAssumption DEF Stop, TypeOK
  <2>2. cpc' \in [Clients -> ClientPoints]
    BY <1>1, <1>3 DEF Stop, TypeOK, ClientPoints
  <2>3. /\ up' \in BOOLEAN /\ scan' \subseteq JobIds /\ skipped' \subseteq JobIds
        /\ ppc' \in PrinterPoints /\ job' \in Job \cup {NoJob}
    BY <1>3 DEF Stop, PrinterPoints
  <2>4. queue' \in Seq(Job)
    BY <1>3 DEF Stop
  <2>5. UNCHANGED <<jobno, data, req, nextjob, id, reply, reread, current, fails, done, cancelled, before>>
    BY <1>3 DEF Stop, disk, config
  <2>6. unsaved' \subseteq JobIds
    <3>1. nextjob \in JobIds /\ SavedJobno \in JobIds /\ unsaved \subseteq JobIds
      BY <1>1, PrintdAssumption DEF TypeOK, SavedJobno, JobIds
    <3>2. SavedJobno .. nextjob - 1 \subseteq JobIds
      BY <3>1, PrintdAssumption DEF JobIds
    <3>. QED
      BY <1>3, <3>1, <3>2 DEF Stop
  <2>. QED
    BY <1>1, <2>1, <2>2, <2>3, <2>4, <2>5, <2>6 DEF TypeOK
<1>4. CASE Hangup
  <2>1. current' = FALSE /\ reread' = TRUE
    BY <1>4 DEF Hangup
  <2>2. UNCHANGED <<jobno, data, req, up, scan, leaked, skipped, nextjob, queue, cpc, id, reply, ppc, job,
                    fails, stops, done, cancelled, before, unsaved>>
    BY <1>4 DEF Hangup, disk, daemon, client, printer, bounds, past
  <2>. QED
    BY <1>1, <2>1, <2>2 DEF TypeOK
<1>5. ASSUME NEW i \in JobIds, Qonstart(i) PROVE TypeOK'
  <2>1. UNCHANGED <<jobno, up, nextjob, cpc, id, reply, job, reread, current, fails, stops, done, cancelled, before, unsaved>>
    BY <1>5 DEF Qonstart, client, config, bounds, past
  <2>2. data' \in [JobIds -> DataFile \cup {NoFile}] /\ req' \in [JobIds -> Clients \cup {NONE, "partial"}]
    BY <1>1, <1>5 DEF Qonstart, TypeOK
  <2>3. leaked' \in 0 .. OpenMax /\ scan' \subseteq JobIds /\ skipped' \subseteq JobIds
    BY <1>1, <1>5, PrintdAssumption DEF Qonstart, TypeOK
  <2>4. queue' \in Seq(Job) /\ ppc' \in PrinterPoints
    <3>1. req[i] \in Clients => [id |-> i, owner |-> req[i]] \in Job
      BY DEF Job
    <3>2. queue \in Seq(Job) /\ ppc \in PrinterPoints
      BY <1>1 DEF TypeOK
    <3>. QED
      BY <1>5, <3>1, <3>2 DEF Qonstart, AddJob, PrinterPoints
  <2>. QED
    BY <1>1, <2>1, <2>2, <2>3, <2>4 DEF TypeOK
<1>. QED
  BY <1>2, <1>3, <1>4, <1>5

-----------------------------------------------------------------------------
\* Steps that leave the files and the list alone

\* A step of the printer thread, or the signal, that neither takes nor puts
\* back a job.
LEMMA Quiet ==
  ASSUME SInv, TypeOK',
         UNCHANGED <<data, req, up, scan, skipped, nextjob, queue, cpc, id, reply, job, cancelled>>,
         Printed \subseteq Printed',
         up \/ jobno' = jobno,
         up => ppc' # "down", ~up => ppc' = ppc,
         job = NoJob <=> ppc' \in {"get", "waiting", "sleep", "down"},
         JobOK'
  PROVE  SInv'
<1>. Reused' = Reused
  BY SameIds
<1>1. IdsOK'
  BY DEF SInv, IdsOK
<1>2. DaemonOK'
  BY DEF SInv, DaemonOK, Sole
<1>3. QueueOK'
  BY DEF SInv, QueueOK, Spooled, Sole
<1>4. \A c \in Clients : ThreadOK(c)'
  BY DEF SInv, ThreadOK, Sole
<1>5. \A c \in Clients : AckOK(c)'
  BY DEF SInv, AckOK, Sole
<1>6. \A i \in JobIds : FileOK(i)'
  BY DEF SInv, FileOK
<1>7. \A i \in JobIds : SpoolOK(i)'
  BY DEF SInv, SpoolOK, Known, Lost, Sole
<1>. QED
  BY <1>1, <1>2, <1>3, <1>4, <1>5, <1>6, <1>7 DEF SInv

\* A client thread without a number moves on, or ends.
LEMMA Unnumbered ==
  ASSUME SInv, TypeOK', NEW c \in Clients, NEW to \in Before \cup {"done"},
         cpc[c] \in Before, cpc' = [cpc EXCEPT ![c] = to],
         up, scan = {},
         \A d \in Clients : d # c => reply'[d] = reply[d],
         reply'[c] # "ok",
         UNCHANGED <<jobno, data, req, up, scan, skipped, nextjob, queue, id, ppc, job, done, cancelled>>
  PROVE  SInv'
<1>. Reused' = Reused
  BY SameIds
<1>1. id[c] = 0 /\ 0 \notin JobIds
  BY DEF SInv, IdsOK, JobIds
<1>2. /\ \A d \in Clients : d # c => cpc'[d] = cpc[d]
      /\ cpc'[c] = to
  BY DEF SInv, TypeOK
<1>3. IdsOK'
  BY <1>1, <1>2 DEF SInv, IdsOK, Running, Before
<1>4. DaemonOK'
  <2>1. id[c] \notin skipped
    BY <1>1 DEF SInv, TypeOK
  <2>. QED
    BY <1>2, <2>1 DEF SInv, DaemonOK, Sole
<1>5. \A j \in Job : Spooled(j) => Spooled(j)'
  BY <1>1, <1>2 DEF Spooled, Job, Sole
<1>6. QueueOK'
  <2>1. \A n \in 1 .. Len(queue) : queue[n] \in Job
    BY QueueJobs
  <2>. QED
    BY <2>1, <1>5 DEF SInv, QueueOK
<1>7. JobOK'
  BY <1>5 DEF SInv, TypeOK, JobOK, Printed, Sole
<1>8. \A d \in Clients : ThreadOK(d)'
  <2>. SUFFICES ASSUME NEW d \in Clients PROVE ThreadOK(d)'
    OBVIOUS
  <2>1. CASE d = c
    BY <1>1, <2>1 DEF ThreadOK, Sole
  <2>2. CASE d # c
    BY <1>2, <2>2 DEF SInv, ThreadOK, Sole
  <2>. QED
    BY <2>1, <2>2
<1>9. \A d \in Clients : AckOK(d)'
  BY <1>2 DEF SInv, AckOK, Printed, Sole
<1>10. \A i \in JobIds : FileOK(i)'
  BY DEF SInv, FileOK
<1>11. \A i \in JobIds : SpoolOK(i)'
  <2>1. \A i \in JobIds : Known(i) => Known(i)'
    BY <1>1, <1>2 DEF Known
  <2>2. Lost' = Lost
    BY <1>2 DEF Lost, Before
  <2>. QED
    BY <2>1, <2>2 DEF SInv, SpoolOK, Sole
<1>. QED
  BY <1>3, <1>4, <1>6, <1>7, <1>8, <1>9, <1>10, <1>11 DEF SInv

-----------------------------------------------------------------------------
\* Client threads

LEMMA UnnumberedSteps ==
  ASSUME SInv, NEW c \in Clients, Connect(c) \/ ReadHeader(c)
  PROVE  SInv'
<1>1. TypeOK'
  BY TypeClient DEF ClientStep
<1>2. UNCHANGED <<jobno, data, req, up, scan, skipped, nextjob, queue, id, ppc, job, done, cancelled>>
  BY DEF Connect, ReadHeader, Elsewhere, daemon, printer, past
<1>3. reply[c] # "ok" /\ cpc[c] \in Before /\ up /\ scan = {}
  <2>1. cpc[c] \in {"none", "header"} /\ (cpc[c] = "none" => up /\ scan = {})
    BY DEF Connect, ReadHeader, Goto
  <2>. QED
    BY <2>1 DEF SInv, AckOK, DaemonOK, Before, Running, ClientPoints
<1>4. PICK to \in Before \cup {"done"} : cpc' = [cpc EXCEPT ![c] = to]
  BY DEF Connect, ReadHeader, Goto, Before
<1>5. reply'[c] # "ok" /\ \A d \in Clients : d # c => reply'[d] = reply[d]
  BY <1>3 DEF Connect, ReadHeader, Answer, SInv, TypeOK
<1>. QED
  BY <1>1, <1>2, <1>3, <1>4, <1>5, Unnumbered

\* get_newjobno: if nobody else was given this number, no file has it.
LEMMA NumberedStep ==
  ASSUME SInv, NEW c \in Clients, GetJobno(c)
  PROVE  SInv'
<1>1. TypeOK'
  BY TypeClient DEF ClientStep
<1>2. UNCHANGED <<jobno, data, req, up, scan, skipped, queue, reply, ppc, job, done, cancelled>>
  BY DEF GetJobno, Elsewhere, daemon, printer, past
<1>3. /\ cpc[c] = "getid" /\ id[c] = 0 /\ up /\ scan = {}
      /\ cpc' = [cpc EXCEPT ![c] = "creat"]
      /\ id' = [id EXCEPT ![c] = nextjob]
  BY DEF GetJobno, Goto, SInv, IdsOK, DaemonOK, Before, Running, ClientPoints
<1>4. /\ \A d \in Clients : d # c => cpc'[d] = cpc[d] /\ id'[d] = id[d]
      /\ cpc'[c] = "creat" /\ id'[c] = nextjob
  BY <1>3 DEF SInv, TypeOK
<1>5. nextjob \in JobIds /\ 0 \notin JobIds
  BY DEF SInv, TypeOK, JobIds
<1>6. \A i \in JobIds : i \in Reused => i \in Reused'
  <2>1. \A d \in Clients : id[d] # 0 => id'[d] = id[d]
    BY <1>3, <1>4
  <2>. QED
    BY <2>1, SoleBefore
<1>7. ASSUME nextjob \notin Reused', NEW d \in Clients PROVE id[d] # nextjob
  <2>1. d # c => ~(id'[d] = nextjob /\ id'[c] = nextjob)
    BY <1>5, <1>7 DEF Reused
  <2>. QED
    BY <1>3, <1>4, <1>5, <2>1
\* The files with this number
<1>8. ASSUME nextjob \notin Reused' PROVE data[nextjob] = NoFile /\ req[nextjob] = NONE
  <2>1. FileOK(nextjob)
    BY <1>5 DEF SInv
  <2>2. data[nextjob] # NoFile => data[nextjob].owner \in Clients
    BY <1>5 DEF SInv, TypeOK, DataFile
  <2>3. req[nextjob] \in Clients \cup {NONE, "partial"}
    BY <1>5 DEF SInv, TypeOK
  <2>. QED
    BY <1>7, <1>8, <2>1, <2>2, <2>3 DEF FileOK
<1>9. ASSUME nextjob \notin Reused' PROVE nextjob \notin skipped
  <2>1. Sole(nextjob)
    BY <1>5, <1>6, <1>9 DEF Sole
  <2>. QED
    BY <1>5, <1>8, <1>9, <2>1 DEF SInv, SpoolOK
<1>10. IdsOK'
  BY <1>4, <1>5 DEF SInv, IdsOK, Before, Running
<1>11. DaemonOK'
  <2>1. ASSUME NEW d \in Clients, cpc'[d] \in Running, id'[d] \notin Reused', id'[d] \in JobIds
        PROVE  id'[d] \notin skipped
    BY <1>4, <1>6, <1>9, <2>1 DEF SInv, DaemonOK, Sole
  <2>2. \A d \in Clients : cpc'[d] \in Running => up /\ scan = {}
    BY <1>3
  <2>. QED
    BY <1>2, <2>1, <2>2 DEF SInv, DaemonOK, Sole
<1>12. \A j \in Job : Spooled(j) => Spooled(j)'
  <2>. SUFFICES ASSUME NEW j \in Job, Spooled(j) PROVE Spooled(j)'
    OBVIOUS
  <2>1. j.owner \in Clients /\ j.id \in JobIds
    BY DEF Job
  <2>2. j.owner # c
    BY <1>3, <1>5, <2>1 DEF Spooled
  <2>. QED
    BY <1>2, <1>4, <1>6, <2>1, <2>2 DEF Spooled, Sole
<1>13. QueueOK'
  <2>1. \A n \in 1 .. Len(queue) : queue[n] \in Job /\ queue[n].id \in JobIds
    BY QueueJobs DEF Job
  <2>. QED
    BY <1>2, <1>6, <2>1, <1>12 DEF SInv, QueueOK
<1>14. JobOK'
  <2>1. job # NoJob => job \in Job
    BY DEF SInv, TypeOK
  <2>2. Sole(job.id)' => Sole(job.id)
    BY <1>2, <1>6 DEF Sole
  <2>. QED
    BY <1>2, <1>12, <2>1, <2>2 DEF SInv, JobOK, Printed
<1>15. \A d \in Clients : ThreadOK(d)'
  <2>. SUFFICES ASSUME NEW d \in Clients PROVE ThreadOK(d)'
    OBVIOUS
  <2>1. CASE d = c
    BY <1>2, <1>4, <1>8, <2>1 DEF ThreadOK, Before, Running, Sole
  <2>2. CASE d # c
    BY <1>2, <1>4, <1>6, <2>2 DEF SInv, ThreadOK, Sole
  <2>. QED
    BY <2>1, <2>2
<1>16. \A d \in Clients : AckOK(d)'
  <2>. SUFFICES ASSUME NEW d \in Clients PROVE AckOK(d)'
    OBVIOUS
  <2>1. d = c => reply[d] # "ok"
    BY <1>3 DEF SInv, AckOK
  <2>2. Printed' = Printed
    BY <1>2 DEF Printed
  <2>. QED
    BY <1>2, <1>4, <1>6, <2>1, <2>2 DEF SInv, AckOK, Sole
<1>17. \A i \in JobIds : FileOK(i)'
  <2>. SUFFICES ASSUME NEW i \in JobIds PROVE FileOK(i)'
    OBVIOUS
  <2>1. \A d \in Clients : id[d] = i => id'[d] = i
    BY <1>3, <1>4, <1>5
  <2>2. data[i] # NoFile => data[i].owner \in Clients
    BY DEF SInv, TypeOK, DataFile
  <2>. QED
    BY <1>2, <2>1, <2>2 DEF SInv, FileOK
<1>18. \A i \in JobIds : SpoolOK(i)'
  <2>1. \A i \in JobIds : Known(i) => Known(i)'
    <3>1. \A i \in JobIds, d \in Clients : id[d] = i => id'[d] = i /\ cpc'[d] = cpc[d]
      BY <1>3, <1>4, <1>5
    <3>. QED
      BY <1>2, <3>1 DEF Known
  <2>2. Lost' = Lost
    BY <1>3, <1>4 DEF Lost
  <2>. QED
    BY <1>2, <1>6, <2>1, <2>2 DEF SInv, SpoolOK, Sole
<1>. QED
  BY <1>1, <1>10, <1>11, <1>13, <1>14, <1>15, <1>16, <1>17, <1>18 DEF SInv

\* The steps of a client thread on its own files, and the answer.
LEMMA FileSteps ==
  ASSUME SInv, NEW c \in Clients,
         \/ CreatData(c) \/ ReadBuffer(c) \/ ReadEnd(c) \/ CreatReq(c) \/ WriteReq(c)
         \/ UnlinkReqFile(c) \/ UnlinkDataFile(c) \/ Reply(c)
  PROVE  SInv'
<1>1. TypeOK'
  BY TypeClient DEF ClientStep
<1>2. UNCHANGED <<jobno, up, scan, skipped, nextjob, queue, id, ppc, job, done, cancelled>>
  BY DEF CreatData, ReadBuffer, ReadEnd, CreatReq, WriteReq, UnlinkReqFile, UnlinkDataFile, Reply,
         Elsewhere, daemon, printer, past
<1>3. cpc[c] \in Running \ Before
  BY DEF CreatData, ReadBuffer, ReadEnd, CreatReq, WriteReq, UnlinkReqFile, UnlinkDataFile, Reply,
         Goto, Unread, Running, Before, ClientPoints
<1>4. id[c] \in JobIds
  BY <1>3 DEF SInv, TypeOK, IdsOK
<1>5. \A i \in JobIds : i # id[c] => data'[i] = data[i] /\ req'[i] = req[i]
  <2>1. data' = data \/ Stored(c) \/ \E d : data' = [data EXCEPT ![id[c]] = d]
    BY DEF CreatData, ReadBuffer, ReadEnd, CreatReq, WriteReq, UnlinkReqFile, UnlinkDataFile, Reply
  <2>2. data' = data \/ \E d : data' = [data EXCEPT ![id[c]] = d]
    BY <2>1 DEF Stored
  <2>3. req' = req \/ \E r : req' = [req EXCEPT ![id[c]] = r]
    BY DEF CreatData, ReadBuffer, ReadEnd, CreatReq, WriteReq, UnlinkReqFile, UnlinkDataFile, Reply
  <2>. QED
    BY <2>2, <2>3 DEF SInv, TypeOK
<1>6. \A d \in Clients : d # c => reply'[d] = reply[d]
  BY DEF CreatData, ReadBuffer, ReadEnd, CreatReq, WriteReq, UnlinkReqFile, UnlinkDataFile, Reply,
         Answer, SInv, TypeOK
<1>7. ThreadOK(c) /\ AckOK(c) /\ FileOK(id[c]) /\ c # NONE /\ c # "partial"
  BY <1>4, PrintdAssumption DEF SInv
<1>8. /\ data \in [JobIds -> DataFile \cup {NoFile}] /\ req \in [JobIds -> Clients \cup {NONE, "partial"}]
      /\ reply \in [Clients -> {"none", "ok", "error"}] /\ cpc \in [Clients -> ClientPoints]
  BY DEF SInv, TypeOK
<1>9. Printed' = Printed /\ (Sole(id[c])' <=> Sole(id[c]))
  BY <1>2, SameIds DEF Printed, Sole
\* What the step does
<1>. DEFINE Step(to) ==
       /\ cpc' = [cpc EXCEPT ![c] = to]
       /\ ThreadOK(c)' /\ AckOK(c)' /\ FileOK(id[c])'
       /\ Sole(id[c]) => to \in Running \/ (data'[id[c]] = NoFile /\ req'[id[c]] = NONE)
<1>10. \A to \in ClientPoints \ (Before \cup {"lost"}) : Step(to) => SInv'
  BY <1>1, <1>2, <1>3, <1>5, <1>6, OwnFiles
<1>. HIDE DEF Step
<1>11. Step("read") \/ Step("creatreq") \/ Step("writereq") \/ Step("reply") \/ Step("unlinkreq")
         \/ Step("unlinkdata") \/ Step("add") \/ Step("done") => SInv'
  BY <1>10 DEF ClientPoints, Before
<1>12. CASE CreatData(c)
  <2>1. ASSUME cpc' = [cpc EXCEPT ![c] = "read"], data' = [data EXCEPT ![id[c]] = [owner |-> c, len |-> 0]], reply' = reply PROVE Step("read")
    BY <1>2, <1>4, <1>7, <1>8, <1>9, <1>12, <2>1 DEF CreatData, Goto, Answer, Step, ThreadOK, AckOK, FileOK, Running, Before, ClientPoints, NoFile
  <2>2. ASSUME cpc' = [cpc EXCEPT ![c] = "done"], Answer(c, "error"), UNCHANGED <<data, req>> PROVE Step("done")
    BY <1>2, <1>4, <1>7, <1>8, <1>9, <1>12, <2>2 DEF CreatData, Goto, Answer, Step, ThreadOK, AckOK, FileOK, Running, Before, ClientPoints, NoFile
  <2>. QED
    BY <1>11, <1>12, <2>1, <2>2 DEF CreatData, Goto
<1>13. CASE ReadBuffer(c)
  <2>1. ASSUME cpc' = [cpc EXCEPT ![c] = "read"], Stored(c), reply' = reply PROVE Step("read")
    <3>1. cpc[c] = "read" /\ (Sole(id[c]) => InPlace(c))
      BY <1>7, <1>13 DEF ReadBuffer, Unread, ThreadOK, InPlace, Running, Before, ClientPoints
    <3>2. /\ InPlace(c) => data'[id[c]].owner = c
          /\ ~InPlace(c) => data' = data
      <4>1. CASE InPlace(c)
        <5>1. data[id[c]] \in DataFile
          BY <1>4, <1>7, <1>8, <4>1 DEF InPlace, NoFile
        <5>. QED
          BY <1>4, <1>8, <2>1, <4>1, <5>1 DEF InPlace, Stored, DataFile
      <4>2. CASE ~InPlace(c)
        BY <2>1, <4>2 DEF Stored
      <4>. QED
        BY <4>1, <4>2
    <3>. QED
      BY <1>2, <1>4, <1>7, <1>8, <1>9, <1>13, <2>1, <3>1, <3>2 DEF ReadBuffer, Goto, Answer, Step, ThreadOK, AckOK, FileOK, Running, Before, ClientPoints, NoFile
  <2>2. ASSUME cpc' = [cpc EXCEPT ![c] = "unlinkdata"], Answer(c, "error"), UNCHANGED <<data, req>> PROVE Step("unlinkdata")
    BY <1>2, <1>4, <1>7, <1>8, <1>9, <1>13, <2>2 DEF ReadBuffer, Goto, Answer, Step, ThreadOK, AckOK, FileOK, Running, Before, ClientPoints, NoFile
  <2>. QED
    BY <1>11, <1>13, <2>1, <2>2 DEF ReadBuffer, Goto
<1>14. CASE ReadEnd(c)
  <2>1. Step("creatreq")
    BY <1>2, <1>4, <1>7, <1>8, <1>9, <1>14 DEF ReadEnd, Goto, Answer, Step, ThreadOK, AckOK, FileOK, Running, Before, ClientPoints, NoFile
  <2>. QED
    BY <2>1, <1>11
<1>15. CASE CreatReq(c)
  <2>1. ASSUME cpc' = [cpc EXCEPT ![c] = "writereq"], req' = [req EXCEPT ![id[c]] = "partial"], reply' = reply PROVE Step("writereq")
    <3>1. cpc[c] = "creatreq" /\ cpc'[c] = "writereq" /\ data' = data /\ req'[id[c]] = "partial" /\ reply' = reply
      BY <1>2, <1>4, <1>7, <1>8, <1>9, <1>15, <2>1 DEF CreatReq, Goto, Answer
    <3>2. ThreadOK(c)'
      BY <1>2, <1>4, <1>7, <1>8, <1>9, <3>1 DEF ThreadOK, Running, Before, ClientPoints
    <3>3. AckOK(c)'
      BY <1>2, <1>4, <1>7, <1>8, <1>9, <3>1 DEF AckOK, ThreadOK, JobIds, Running, Before, ClientPoints
    <3>4. FileOK(id[c])'
      BY <1>2, <1>4, <1>7, <1>8, <1>9, <3>1, PrintdAssumption DEF FileOK
    <3>. QED
      BY <1>15, <2>1, <3>2, <3>3, <3>4 DEF CreatReq, Goto, Step, Running, ClientPoints
  <2>2. ASSUME cpc' = [cpc EXCEPT ![c] = "unlinkdata"], Answer(c, "error"), UNCHANGED <<data, req>> PROVE Step("unlinkdata")
    BY <1>2, <1>4, <1>7, <1>8, <1>9, <1>15, <2>2 DEF CreatReq, Goto, Answer, Step, ThreadOK, AckOK, FileOK, Running, Before, ClientPoints, NoFile
  <2>. QED
    BY <1>11, <1>15, <2>1, <2>2 DEF CreatReq, Goto
<1>16. CASE WriteReq(c)
  <2>1. ASSUME cpc' = [cpc EXCEPT ![c] = "reply"], req' = [req EXCEPT ![id[c]] = IF @ = "partial" THEN c ELSE @], reply' = reply PROVE Step("reply")
    <3>1. cpc[c] = "writereq" /\ cpc'[c] = "reply" /\ data' = data /\ req'[id[c]] \in {req[id[c]], c}
          /\ (req[id[c]] = "partial" => req'[id[c]] = c)
      BY <1>4, <1>8, <1>16, <2>1 DEF WriteReq, Goto
    <3>2. ThreadOK(c)'
      BY <1>2, <1>4, <1>7, <1>8, <1>9, <3>1 DEF ThreadOK, Running, Before, ClientPoints
    <3>3. AckOK(c)'
      BY <1>2, <1>4, <1>7, <1>8, <1>9, <2>1, <3>1 DEF AckOK, ThreadOK, JobIds, Running, Before, ClientPoints
    <3>4. FileOK(id[c])'
      BY <1>2, <1>4, <1>7, <1>8, <1>9, <3>1, PrintdAssumption DEF FileOK
    <3>. QED
      BY <1>16, <2>1, <3>2, <3>3, <3>4 DEF Goto, Step, Running, ClientPoints
  <2>2. ASSUME cpc' = [cpc EXCEPT ![c] = "unlinkreq"], Answer(c, "error"), UNCHANGED <<data, req>> PROVE Step("unlinkreq")
    BY <1>2, <1>4, <1>7, <1>8, <1>9, <1>16, <2>2 DEF WriteReq, Goto, Answer, Step, ThreadOK, AckOK, FileOK, Running, Before, ClientPoints, NoFile
  <2>. QED
    BY <1>11, <1>16, <2>1, <2>2 DEF WriteReq, Goto
<1>17. CASE UnlinkReqFile(c)
  <2>1. Step("unlinkdata")
    <3>1. cpc[c] = "unlinkreq" /\ cpc'[c] = "unlinkdata" /\ data' = data /\ req'[id[c]] = NONE /\ reply' = reply
      BY <1>2, <1>4, <1>7, <1>8, <1>9, <1>17 DEF UnlinkReqFile, Goto, Answer
    <3>2. ThreadOK(c)'
      BY <1>2, <1>4, <1>7, <1>8, <1>9, <3>1 DEF ThreadOK, Running, Before, ClientPoints
    <3>3. AckOK(c)'
      BY <1>2, <1>4, <1>7, <1>8, <1>9, <3>1 DEF AckOK, ThreadOK, JobIds, Running, Before, ClientPoints
    <3>4. FileOK(id[c])'
      BY <1>2, <1>4, <1>7, <1>8, <1>9, <3>1, PrintdAssumption DEF FileOK
    <3>. QED
      BY <1>17, <3>2, <3>3, <3>4 DEF UnlinkReqFile, Goto, Step, Running, ClientPoints
  <2>. QED
    BY <2>1, <1>11
<1>18. CASE UnlinkDataFile(c)
  <2>1. Step("done")
    BY <1>2, <1>4, <1>7, <1>8, <1>9, <1>18 DEF UnlinkDataFile, Goto, Answer, Step, ThreadOK, AckOK, FileOK, Running, Before, ClientPoints, NoFile
  <2>. QED
    BY <2>1, <1>11
<1>19. CASE Reply(c)
  <2>1. Step("add")
    <3>1. cpc[c] = "reply" /\ cpc'[c] = "add" /\ data' = data /\ req' = req /\ reply'[c] = "ok"
      BY <1>2, <1>4, <1>7, <1>8, <1>9, <1>19 DEF Reply, Goto, Answer
    <3>2. ThreadOK(c)'
      BY <1>2, <1>4, <1>7, <1>8, <1>9, <3>1 DEF ThreadOK, Running, Before, ClientPoints
    <3>3. AckOK(c)'
      BY <1>2, <1>4, <1>7, <1>8, <1>9, <3>1 DEF AckOK, ThreadOK, JobIds, Running, Before, ClientPoints
    <3>4. FileOK(id[c])'
      BY <1>2, <1>4, <1>7, <1>8, <1>9, <3>1, PrintdAssumption DEF FileOK
    <3>. QED
      BY <1>19, <3>2, <3>3, <3>4 DEF Reply, Goto, Step, Running, ClientPoints
  <2>. QED
    BY <2>1, <1>11
<1>. QED
  BY <1>12, <1>13, <1>14, <1>15, <1>16, <1>17, <1>18, <1>19

-----------------------------------------------------------------------------
\* The list of jobs

LEMMA AppendQueue ==
  ASSUME queue \in Seq(Job), QueueOK, NEW j \in Job,
         queue' = Append(queue, j), UNCHANGED job,
         Reused' = Reused, Spooled(j)',
         \A k \in Job : Spooled(k) => Spooled(k)' /\ (k.id = j.id => j.id \in Reused),
         job.id = j.id => j.id \in Reused
  PROVE  QueueOK'
<1>1. /\ Len(queue) \in Nat /\ Len(queue') = Len(queue) + 1
      /\ \A n \in 1 .. Len(queue) : queue'[n] = queue[n] /\ queue[n] \in Job
      /\ queue'[Len(queue) + 1] = j
  OBVIOUS
<1>2. \A n \in 1 .. Len(queue') : n \in 1 .. Len(queue) \/ n = Len(queue) + 1
  BY <1>1
<1>3. \A n \in 1 .. Len(queue) : /\ queue[n] \in Job
                                 /\ queue'[n].id = j.id => j.id \in Reused
                                 /\ queue'[n].id = job.id => job.id \in Reused
  BY <1>1 DEF QueueOK
<1>4. ASSUME NEW n \in 1 .. Len(queue') PROVE (Spooled(queue[n]) /\ (queue[n].id = job.id => job.id \in Reused))'
  <2>1. CASE n \in 1 .. Len(queue)
    <3>1. PICK k \in Job : k = queue[n] /\ Spooled(k)
      BY <1>1, <2>1 DEF QueueOK
    <3>2. k = queue'[n] /\ Spooled(k)'
      BY <1>1, <2>1, <3>1
    <3>. QED
      BY <1>3, <2>1, <3>2
  <2>2. CASE n = Len(queue) + 1
    BY <1>1, <2>2
  <2>. QED
    BY <1>2, <2>1, <2>2
<1>5. \A m, n \in 1 .. Len(queue') : queue'[m].id = queue'[n].id => m = n \/ queue'[m].id \in Reused
  BY <1>1, <1>2, <1>3 DEF QueueOK
<1>. QED
  BY <1>4, <1>5 DEF QueueOK

\* add_job, by the thread of the client.
LEMMA EnqueueStep ==
  ASSUME SInv, NEW c \in Clients, Enqueue(c)
  PROVE  SInv'
<1>1. TypeOK'
  BY TypeClient DEF ClientStep
<1>2. UNCHANGED <<jobno, data, req, up, scan, skipped, nextjob, id, reply, job, done, cancelled>>
  BY DEF Enqueue, disk, daemon, past
<1>3. /\ cpc[c] = "add" /\ cpc' = [cpc EXCEPT ![c] = "done"]
      /\ queue' = Append(queue, [id |-> id[c], owner |-> c])
      /\ ppc' = IF ppc = "waiting" THEN "get" ELSE ppc
  BY DEF Enqueue, Goto, AddJob
<1>4. /\ \A d \in Clients : d # c => cpc'[d] = cpc[d]
      /\ cpc'[c] = "done"
  BY <1>3 DEF SInv, TypeOK
<1>5. /\ id[c] \in JobIds /\ up /\ scan = {} /\ Reused' = Reused
      /\ Sole(id[c]) => req[id[c]] = c /\ id[c] \notin skipped
      /\ \A d \in Clients : d # c /\ id[d] = id[c] => id[c] \in Reused
  <2>1. cpc[c] \in Running \ Before /\ id[c] \in JobIds \cup {0}
    BY <1>3 DEF SInv, TypeOK, Running, Before, ClientPoints
  <2>. QED
    BY <1>2, <1>3, <2>1, SameIds DEF SInv, IdsOK, DaemonOK, ThreadOK, Reused
<1>6. IdsOK'
  BY <1>2, <1>4 DEF SInv, IdsOK, Before, Running
<1>7. DaemonOK'
  BY <1>2, <1>3, <1>4, <1>5 DEF SInv, DaemonOK, Running, Sole
<1>8. \A k \in Job : Spooled(k) => Spooled(k)' /\ (k.id = id[c] => id[c] \in Reused)
  <2>. SUFFICES ASSUME NEW k \in Job, Spooled(k) PROVE Spooled(k)' /\ (k.id = id[c] => id[c] \in Reused)
    OBVIOUS
  <2>1. k.owner \in Clients
    BY DEF Job
  <2>2. k.owner # c
    BY <1>3 DEF Spooled, Running, ClientPoints
  <2>. QED
    BY <1>2, <1>4, <1>5, <2>1, <2>2 DEF Spooled, Sole
<1>9. PICK j \in Job : j.id = id[c] /\ j.owner = c /\ queue' = Append(queue, j)
  BY <1>3, <1>5 DEF Job
<1>10. job.id = id[c] => id[c] \in Reused
  <2>1. job \in Job \/ job.id = 0
    BY DEF SInv, TypeOK, NoJob
  <2>2. job \in Job => Spooled(job)
    BY DEF SInv, JobOK, DaemonOK, NoJob, Job, JobIds
  <2>. QED
    BY <1>5, <1>8, <2>1, <2>2 DEF JobIds
<1>11. QueueOK'
  <2>1. queue \in Seq(Job) /\ QueueOK
    BY DEF SInv, TypeOK
  <2>2. Spooled(j)'
    BY <1>2, <1>4, <1>5, <1>9 DEF Spooled, Running, Sole
  <2>. QED
    BY <1>2, <1>5, <1>8, <1>9, <1>10, <2>1, <2>2, AppendQueue
<1>12. JobOK'
  <2>1. Printed' = Printed
    BY <1>2 DEF Printed
  <2>2. ppc' = ppc \/ ppc' = "get"
    BY <1>3
  <2>. QED
    BY <1>2, <1>5, <1>8, <2>1, <2>2 DEF SInv, TypeOK, JobOK, Sole
<1>13. \A d \in Clients : ThreadOK(d)'
  BY <1>2, <1>4, <1>5 DEF SInv, ThreadOK, Running, Sole
<1>14. \A d \in Clients : AckOK(d)'
  BY <1>2, <1>4, <1>5 DEF SInv, AckOK, Printed, Sole
<1>15. \A i \in JobIds : FileOK(i)'
  BY <1>2 DEF SInv, FileOK
<1>16. \A i \in JobIds : SpoolOK(i)'
  <2>1. \A i \in JobIds : Known(i) => Known(i)'
    <3>1. \A n \in DOMAIN queue : n \in DOMAIN queue' /\ queue'[n] = queue[n]
      BY <1>3 DEF SInv, TypeOK
    <3>2. \E n \in DOMAIN queue' : queue'[n].id = id[c]
      <4>1. Len(queue) + 1 \in DOMAIN queue' /\ queue'[Len(queue) + 1] = j
        BY <1>9 DEF SInv, TypeOK
      <4>. QED
        BY <1>9, <4>1
    <3>. QED
      BY <1>2, <1>4, <3>1, <3>2 DEF Known
  <2>2. Lost' = Lost
    BY <1>3, <1>4 DEF Lost
  <2>. QED
    BY <1>2, <1>5, <2>1, <2>2 DEF SInv, SpoolOK, Sole
<1>. QED
  BY <1>1, <1>6, <1>7, <1>11, <1>12, <1>13, <1>14, <1>15, <1>16 DEF SInv

-----------------------------------------------------------------------------
\* The printer thread, the signal thread and the directory

\* Steps that neither take nor put back a job, and the signal.
LEMMA QuietSteps ==
  ASSUME SInv,
         \/ Wait \/ UpdateJobno \/ Reconfigure \/ (OpenJob /\ job' = job) \/ ConnectPrinter
         \/ SendJob \/ PrinterStatus \/ Awake \/ Hangup
  PROVE  SInv'
<1>1. TypeOK'
  BY TypePrinter, TypeRest DEF PrinterStep
<1>2. UNCHANGED <<data, req, up, scan, skipped, nextjob, queue, cpc, id, reply, job>>
  BY DEF Wait, UpdateJobno, Reconfigure, CheckConfig, InitPrinter, OpenJob, ConnectPrinter,
         SendJob, PrinterStatus, Awake, Hangup, disk, daemon, client, printer
<1>3. job = NoJob <=> ppc \in {"get", "waiting", "sleep", "down"}
  BY DEF SInv, DaemonOK
<1>4. cancelled' = cancelled
  <2>1. CASE OpenJob /\ job' = job
    BY <1>3, <2>1 DEF OpenJob, PGoto
  <2>2. CASE ~(OpenJob /\ job' = job)
    BY <2>2 DEF Wait, UpdateJobno, Reconfigure, CheckConfig, InitPrinter, ConnectPrinter,
                SendJob, PrinterStatus, Awake, Hangup, past
  <2>. QED
    BY <2>1, <2>2
<1>5. /\ job = NoJob <=> ppc' \in {"get", "waiting", "sleep", "down"}
      /\ \/ ppc # "down" /\ ppc' # "down"
         \/ up /\ ppc' = ppc
  <2>1. CASE OpenJob /\ job' = job
    BY <1>3, <2>1 DEF OpenJob, PGoto
  <2>2. CASE ~(OpenJob /\ job' = job)
    BY <1>3, <2>2 DEF Wait, UpdateJobno, Reconfigure, CheckConfig, InitPrinter, ConnectPrinter,
                      SendJob, PrinterStatus, Awake, Hangup, printer, PGoto
  <2>. QED
    BY <2>1, <2>2
<1>6. up
  BY <1>5 DEF SInv, DaemonOK
<1>7. \/ done' = done
      \/ /\ \E s \in Sent : done' = Append(done, s)
         /\ ppc = "status" /\ ppc' = "unlink_data"
  <2>1. CASE PrinterStatus
    BY <2>1 DEF PrinterStatus, PGoto
  <2>2. CASE ~PrinterStatus
    BY <2>2 DEF Wait, UpdateJobno, Reconfigure, CheckConfig, InitPrinter, OpenJob, ConnectPrinter,
                SendJob, Awake, Hangup, past
  <2>. QED
    BY <2>1, <2>2
<1>8. Printed \subseteq Printed' /\ \A s \in Sent : done' = Append(done, s) => s \in Printed'
  <2>1. done' = done => Printed' = Printed
    BY DEF Printed
  <2>2. ASSUME NEW s \in Sent, done' = Append(done, s) PROVE Printed \subseteq Printed' /\ s \in Printed'
    <3>1. done \in Seq(Clients)
      BY DEF SInv, TypeOK
    <3>2. /\ \A n \in DOMAIN done : n \in DOMAIN done' /\ done'[n] = done[n]
          /\ Len(done) + 1 \in DOMAIN done' /\ done'[Len(done) + 1] = s
      BY <2>2, <3>1
    <3>. QED
      BY <3>2 DEF Printed
  <2>. QED
    BY <1>7, <2>1, <2>2
<1>9. JobOK'
  <2>. Sole(job.id)' <=> Sole(job.id)
    BY <1>2, SameIds DEF Sole
  <2>1. job # NoJob => Spooled(job)'
    BY <1>2, SameIds DEF SInv, JobOK, Spooled, Sole
  <2>. SUFFICES ASSUME Sole(job.id)
                PROVE  /\ ppc' \in {"connect", "send", "status"} => data'[job'.id] # NoFile
                       /\ ppc' \in {"unlink_data", "unlink_req"} => job'.owner \in Printed'
                       /\ ppc' = "unlink_req" => data'[job'.id] = NoFile
    BY <1>2, <2>1 DEF JobOK
  <2>2. ppc' \in {"connect", "send", "status"} => data'[job'.id] # NoFile
    <3>1. CASE ppc \in {"connect", "send", "status"}
      BY <1>2, <3>1 DEF SInv, JobOK
    <3>2. CASE OpenJob /\ job' = job
      BY <1>2, <1>3, <3>2 DEF OpenJob, PGoto
    <3>3. CASE ~(OpenJob /\ job' = job) /\ ppc' \notin {"connect", "send", "status"}
      BY <3>3
    <3>4. CASE ~(OpenJob /\ job' = job) /\ ppc \notin {"connect", "send", "status"}
      BY <3>4 DEF Wait, UpdateJobno, Reconfigure, CheckConfig, InitPrinter, ConnectPrinter,
                  SendJob, PrinterStatus, Awake, Hangup, printer, PGoto
    <3>. QED
      BY <3>1, <3>2, <3>3, <3>4
  <2>3. ppc' \in {"unlink_data", "unlink_req"} => job'.owner \in Printed'
    <3>1. CASE PrinterStatus
      <4>1. job # NoJob
        BY <3>1 DEF PrinterStatus, PGoto, SInv, DaemonOK
      <4>2. \A s \in Sent : s = job.owner
        BY <4>1, SentOwners
      <4>3. ppc' = "defer" \/ \E s \in Sent : done' = Append(done, s)
        BY <3>1 DEF PrinterStatus, PGoto
      <4>. QED
        BY <1>2, <1>8, <4>2, <4>3
    <3>2. CASE ~PrinterStatus
      <4>1. ppc' \notin {"unlink_data", "unlink_req"} \/ ppc' = ppc
        BY <3>2 DEF Wait, UpdateJobno, Reconfigure, CheckConfig, InitPrinter, OpenJob, ConnectPrinter,
                    SendJob, Awake, Hangup, printer, PGoto
      <4>. QED
        BY <1>2, <1>8, <4>1 DEF SInv, JobOK
    <3>. QED
      BY <3>1, <3>2
  <2>4. ppc' = "unlink_req" => data'[job'.id] = NoFile
    <3>1. ppc' # "unlink_req" \/ ppc' = ppc
      BY DEF Wait, UpdateJobno, Reconfigure, CheckConfig, InitPrinter, OpenJob, ConnectPrinter,
             SendJob, PrinterStatus, Awake, Hangup, printer, PGoto
    <3>. QED
      BY <1>2, <3>1 DEF SInv, JobOK
  <2>. QED
    BY <2>2, <2>3, <2>4
<1>. QED
  BY <1>1, <1>2, <1>4, <1>5, <1>6, <1>8, <1>9, Quiet DEF SInv, DaemonOK

\* The printer thread takes the first job of the list.
LEMMA PickUpStep ==
  ASSUME SInv, PickUp
  PROVE  SInv'
<1>1. TypeOK'
  BY TypePrinter DEF PrinterStep
<1>2. UNCHANGED <<jobno, data, req, up, scan, skipped, nextjob, cpc, id, reply, done, cancelled>>
  BY DEF PickUp, disk, daemon, client, past
<1>. Reused' = Reused
  BY <1>2, SameIds
<1>3. /\ ppc = "get" /\ ppc' = "update" /\ up /\ job = NoJob
      /\ queue # << >> /\ job' = queue[1] /\ queue' = Tail(queue)
  BY DEF PickUp, PGoto, SInv, TypeOK, DaemonOK
<1>4. queue \in Seq(Job)
  BY DEF SInv, TypeOK
<1>5. /\ Len(queue) \in Nat \ {0} /\ Len(queue') = Len(queue) - 1
      /\ \A n \in 1 .. Len(queue') : n + 1 \in 1 .. Len(queue) /\ queue'[n] = queue[n + 1]
      /\ \A n \in 1 .. Len(queue) : queue[n] \in Job
  BY <1>3, <1>4
<1>6. job' \in Job /\ job' # NoJob
  BY <1>3, <1>5 DEF Job, NoJob, JobIds
<1>7. IdsOK'
  BY <1>2 DEF SInv, IdsOK
<1>8. DaemonOK'
  BY <1>2, <1>3, <1>6 DEF SInv, DaemonOK, Sole
<1>9. \A k \in Job : Spooled(k) => Spooled(k)'
  BY <1>2 DEF Spooled, Sole
<1>10. QueueOK'
  <2>1. ASSUME NEW n \in 1 .. Len(queue') PROVE (Spooled(queue[n]) /\ (queue[n].id = job.id => job.id \in Reused))'
    <3>1. n + 1 \in 1 .. Len(queue) /\ queue'[n] = queue[n + 1] /\ n + 1 # 1 /\ 1 \in 1 .. Len(queue)
      BY <1>5
    <3>2. PICK k \in Job : k = queue'[n] /\ Spooled(k) /\ (k.id = queue[1].id => k.id \in Reused)
      BY <1>5, <3>1 DEF SInv, QueueOK
    <3>3. Spooled(k)' /\ (k.id = job'.id => job'.id \in Reused)
      BY <1>3, <1>9, <3>2
    <3>. QED
      BY <3>2, <3>3
  <2>2. ASSUME NEW m \in 1 .. Len(queue'), NEW n \in 1 .. Len(queue'), queue'[m].id = queue'[n].id
        PROVE  m = n \/ queue'[m].id \in Reused
    <3>1. m + 1 = n + 1 \/ queue'[m].id \in Reused
      BY <1>5, <2>2 DEF SInv, QueueOK
    <3>. QED
      BY <1>5, <3>1
  <2>. QED
    BY <2>1, <2>2 DEF QueueOK
<1>11. JobOK'
  <2>1. PICK k \in Job : k = job' /\ Spooled(k)
    BY <1>3, <1>5 DEF SInv, QueueOK
  <2>2. Spooled(k)'
    BY <1>9, <2>1
  <2>. QED
    BY <1>3, <2>1, <2>2 DEF JobOK
<1>12. \A c \in Clients : ThreadOK(c)' /\ AckOK(c)'
  BY <1>2 DEF SInv, ThreadOK, AckOK, Printed, Sole
<1>13. \A i \in JobIds : FileOK(i)'
  BY <1>2 DEF SInv, FileOK
<1>14. \A i \in JobIds : SpoolOK(i)'
  <2>1. ASSUME NEW i \in JobIds, Known(i) PROVE Known(i)'
    <3>1. CASE \E c \in Clients : id[c] = i /\ cpc[c] \in Running
      BY <1>2, <3>1 DEF Known
    <3>2. CASE job.id = i
      BY <1>3, <3>2 DEF NoJob, JobIds
    <3>3. CASE \E n \in DOMAIN queue : queue[n].id = i
      <4>1. PICK n \in 1 .. Len(queue) : queue[n].id = i
        BY <1>4, <3>3
      <4>2. CASE n = 1
        BY <1>3, <4>1, <4>2 DEF Known
      <4>3. CASE n # 1
        <5>1. n - 1 \in DOMAIN queue' /\ queue'[n - 1] = queue[n]
          BY <1>3, <1>4, <1>5, <4>1, <4>3
        <5>. QED
          BY <4>1, <5>1 DEF Known
      <4>. QED
        BY <4>2, <4>3
    <3>. QED
      BY <2>1, <3>1, <3>2, <3>3 DEF Known
  <2>2. Lost' = Lost
    BY <1>2 DEF Lost
  <2>. QED
    BY <1>2, <2>1, <2>2 DEF SInv, SpoolOK, Sole
<1>. QED
  BY <1>1, <1>7, <1>8, <1>10, <1>11, <1>12, <1>13, <1>14 DEF SInv

\* replace_job: the job goes back to the front of the list.
LEMMA ReplaceStep ==
  ASSUME SInv, ReplaceJob
  PROVE  SInv'
<1>1. TypeOK'
  BY TypePrinter DEF PrinterStep
<1>2. UNCHANGED <<jobno, data, req, up, scan, skipped, nextjob, cpc, id, reply, done, cancelled>>
  BY DEF ReplaceJob, disk, daemon, client, past
<1>. Reused' = Reused
  BY <1>2, SameIds
<1>3. /\ ppc = "defer" /\ ppc' = "sleep" /\ up /\ job \in Job /\ Spooled(job)
      /\ job' = NoJob /\ queue' = <<job>> \o queue
  BY DEF ReplaceJob, PGoto, SInv, TypeOK, DaemonOK, JobOK
<1>4. queue \in Seq(Job)
  BY DEF SInv, TypeOK
<1>5. /\ Len(queue) \in Nat /\ Len(queue') = Len(queue) + 1 /\ queue'[1] = job
      /\ \A n \in 1 .. Len(queue) : queue'[n + 1] = queue[n] /\ queue[n] \in Job
  <2>1. <<job>> \in Seq(Job)
    BY <1>3
  <2>. QED
    BY <1>3, <1>4, <2>1
<1>6. \A n \in 1 .. Len(queue') : n = 1 \/ (n - 1 \in 1 .. Len(queue) /\ queue'[n] = queue[n - 1])
  BY <1>5
<1>7. IdsOK'
  BY <1>2 DEF SInv, IdsOK
<1>8. DaemonOK'
  BY <1>2, <1>3 DEF SInv, DaemonOK, Sole
<1>9. \A k \in Job : Spooled(k) => Spooled(k)'
  BY <1>2 DEF Spooled, Sole
<1>10. QueueOK'
  <2>1. ASSUME NEW n \in 1 .. Len(queue') PROVE (Spooled(queue[n]) /\ (queue[n].id = job.id => job.id \in Reused))'
    <3>1. PICK k \in Job : k = queue'[n] /\ Spooled(k)
      BY <1>3, <1>5, <1>6 DEF SInv, QueueOK
    <3>2. Spooled(k)' /\ k.id # NoJob.id
      BY <1>9, <3>1 DEF Job, NoJob, JobIds
    <3>. QED
      BY <1>3, <3>1, <3>2
  <2>2. \A n \in 1 .. Len(queue') : n # 1 /\ queue'[n].id = job.id => job.id \in Reused
    BY <1>5, <1>6 DEF SInv, QueueOK
  <2>3. ASSUME NEW m \in 1 .. Len(queue'), NEW n \in 1 .. Len(queue'), queue'[m].id = queue'[n].id
        PROVE  m = n \/ queue'[m].id \in Reused
    <3>1. CASE m = 1 \/ n = 1
      BY <1>5, <2>2, <2>3, <3>1
    <3>2. CASE m # 1 /\ n # 1
      <4>1. /\ m - 1 \in 1 .. Len(queue) /\ queue'[m] = queue[m - 1]
            /\ n - 1 \in 1 .. Len(queue) /\ queue'[n] = queue[n - 1]
        BY <1>6, <3>2
      <4>2. queue[m - 1].id = queue[n - 1].id
        BY <2>3, <4>1
      <4>3. m - 1 = n - 1 \/ queue'[m].id \in Reused
        BY <4>1, <4>2 DEF SInv, QueueOK
      <4>. QED
        BY <4>1, <4>3
    <3>. QED
      BY <3>1, <3>2
  <2>. QED
    BY <2>1, <2>3 DEF QueueOK
<1>11. JobOK'
  BY <1>3 DEF JobOK, NoJob, Sole, JobIds
<1>12. \A c \in Clients : ThreadOK(c)' /\ AckOK(c)'
  BY <1>2 DEF SInv, ThreadOK, AckOK, Printed, Sole
<1>13. \A i \in JobIds : FileOK(i)'
  BY <1>2 DEF SInv, FileOK
<1>14. \A i \in JobIds : SpoolOK(i)'
  <2>1. DOMAIN queue = 1 .. Len(queue) /\ DOMAIN queue' = 1 .. Len(queue')
    BY <1>1, <1>4 DEF TypeOK
  <2>2. ASSUME NEW i \in JobIds, Known(i) PROVE Known(i)'
    <3>1. CASE \E c \in Clients : id[c] = i /\ cpc[c] \in Running
      BY <1>2, <3>1 DEF Known
    <3>2. CASE job.id = i
      <4>1. 1 \in DOMAIN queue' /\ queue'[1].id = i
        BY <1>5, <2>1, <3>2
      <4>. QED
        BY <4>1 DEF Known
    <3>3. CASE \E n \in DOMAIN queue : queue[n].id = i
      <4>1. PICK n \in 1 .. Len(queue) : queue[n].id = i
        BY <2>1, <3>3
      <4>2. n + 1 \in DOMAIN queue' /\ queue'[n + 1].id = i
        BY <1>5, <2>1, <4>1
      <4>. QED
        BY <4>2 DEF Known
    <3>. QED
      BY <2>2, <3>1, <3>2, <3>3 DEF Known
  <2>3. Lost' = Lost
    BY <1>2 DEF Lost
  <2>. QED
    BY <1>2, <2>2, <2>3 DEF SInv, SpoolOK, Sole
<1>. QED
  BY <1>1, <1>7, <1>8, <1>10, <1>11, <1>12, <1>13, <1>14 DEF SInv

\* The job is over for the printer thread, and its files are those of no
\* running client thread, unless its number was given out again.
LEMMA JobApart ==
  ASSUME SInv, job # NoJob
  PROVE  /\ job.id \in JobIds /\ job.owner \in Clients /\ Spooled(job)
         /\ \A c \in Clients : cpc[c] \in Running /\ Sole(id[c]) => id[c] # job.id
         /\ \A c \in Clients : Sole(id[c]) /\ id[c] = job.id => c = job.owner
<1>1. job.id \in JobIds /\ job.owner \in Clients /\ Spooled(job)
  BY DEF SInv, TypeOK, JobOK, Job
<1>2. \A c \in Clients : Sole(id[c]) /\ id[c] = job.id => c = job.owner
  BY <1>1, SoleOwner DEF Spooled
<1>. QED
  BY <1>1, <1>2 DEF Spooled

\* What is left of the invariant when the printer thread gives up its job.
LEMMA JobGone ==
  ASSUME SInv, TypeOK', up, job # NoJob, job' = NoJob, ppc' = "get",
         UNCHANGED <<up, scan, skipped, nextjob, queue, cpc, id, reply, done>>,
         \A i \in JobIds : i # job.id => data'[i] = data[i] /\ req'[i] = req[i]
  PROVE  IdsOK' /\ DaemonOK' /\ QueueOK' /\ JobOK'
<1>. Reused' = Reused
  BY SameIds
<1>1. IdsOK'
  BY DEF SInv, IdsOK
<1>2. DaemonOK'
  BY DEF SInv, DaemonOK, Sole
<1>3. QueueOK'
  <2>1. ASSUME NEW n \in 1 .. Len(queue') PROVE (Spooled(queue[n]) /\ (queue[n].id = job.id => job.id \in Reused))'
    <3>1. PICK k \in Job : k = queue[n] /\ Spooled(k) /\ (k.id = job.id => job.id \in Reused)
      <4>1. n \in 1 .. Len(queue)
        OBVIOUS
      <4>2. queue[n] \in Job
        <5>1. queue \in Seq(Job)
          BY DEF SInv, TypeOK
        <5>. QED
          BY <4>1, <5>1
      <4>. QED
        BY <4>1, <4>2 DEF SInv, QueueOK
    <3>2. k = queue'[n] /\ Spooled(k)' /\ k.id # NoJob.id
      BY <3>1 DEF Spooled, Job, NoJob, JobIds, Sole
    <3>. QED
      BY <3>2
  <2>. QED
    BY <2>1 DEF SInv, QueueOK
<1>4. JobOK'
  BY DEF JobOK
<1>. QED
  BY <1>1, <1>2, <1>3, <1>4

\* A job that cannot be read is dropped; its files stay.
LEMMA DropStep ==
  ASSUME SInv, OpenJob, job' # job
  PROVE  SInv'
<1>1. TypeOK'
  BY TypePrinter DEF PrinterStep
<1>2. UNCHANGED <<jobno, data, req, up, scan, skipped, nextjob, queue, cpc, id, reply, done>>
  BY DEF OpenJob, disk, daemon, client
<1>. Reused' = Reused
  BY <1>2, SameIds
<1>3. /\ ppc = "open" /\ ppc' = "get" /\ up /\ job # NoJob /\ job' = NoJob
      /\ cancelled' = cancelled \cup {job.owner}
  BY DEF OpenJob, PGoto, SInv, DaemonOK
<1>4. IdsOK' /\ DaemonOK' /\ QueueOK' /\ JobOK'
  BY <1>1, <1>2, <1>3, JobGone
<1>5. \A c \in Clients : ThreadOK(c)' /\ AckOK(c)'
  BY <1>2 DEF SInv, ThreadOK, AckOK, Printed, Sole
<1>6. \A i \in JobIds : FileOK(i)'
  BY <1>2 DEF SInv, FileOK
<1>7. \A i \in JobIds : SpoolOK(i)'
  <2>1. \A i \in JobIds : i # job.id => (Known(i) => Known(i)')
    BY <1>2, <1>3 DEF Known
  <2>2. Sole(job.id) => req[job.id] = job.owner /\ job.owner # NONE
    BY <1>3, JobApart, PrintdAssumption DEF Spooled
  <2>3. Lost' = Lost
    BY <1>2 DEF Lost
  <2>. QED
    BY <1>2, <1>3, <2>1, <2>2, <2>3 DEF SInv, SpoolOK, Sole
<1>. QED
  BY <1>1, <1>4, <1>5, <1>6, <1>7 DEF SInv

\* The data file goes first, ...
LEMMA UnlinkDataStep ==
  ASSUME SInv, UnlinkData
  PROVE  SInv'
<1>1. TypeOK'
  BY TypePrinter DEF PrinterStep
<1>2. UNCHANGED <<jobno, req, up, scan, skipped, nextjob, queue, cpc, id, reply, job, done, cancelled>>
  BY DEF UnlinkData, daemon, client, past
<1>. Reused' = Reused
  BY <1>2, SameIds
<1>3. /\ ppc = "unlink_data" /\ ppc' = "unlink_req" /\ up /\ job # NoJob
      /\ data' = [data EXCEPT ![job.id] = NoFile] /\ (Sole(job.id) => job.owner \in Printed)
  BY DEF UnlinkData, PGoto, SInv, DaemonOK, JobOK
<1>4. /\ job.id \in JobIds /\ Spooled(job)
      /\ \A c \in Clients : cpc[c] \in Running /\ Sole(id[c]) => id[c] # job.id
      /\ \A c \in Clients : Sole(id[c]) /\ id[c] = job.id => c = job.owner
  BY <1>3, JobApart
<1>5. /\ data'[job.id] = NoFile
      /\ \A i \in JobIds : i # job.id => data'[i] = data[i]
  BY <1>3, <1>4 DEF SInv, TypeOK
<1>6. Printed' = Printed
  BY <1>2 DEF Printed
<1>7. IdsOK'
  BY <1>2 DEF SInv, IdsOK
<1>8. DaemonOK'
  BY <1>2, <1>3 DEF SInv, DaemonOK, Sole
<1>9. QueueOK' /\ JobOK'
  BY <1>2, <1>3, <1>4, <1>5, <1>6 DEF SInv, QueueOK, JobOK, Spooled, Sole
<1>10. \A c \in Clients : ThreadOK(c)'
  <2>. SUFFICES ASSUME NEW c \in Clients PROVE ThreadOK(c)'
    OBVIOUS
  <2>1. cpc[c] \in Running /\ Sole(id[c]) => id[c] \in JobIds /\ id[c] # job.id
    BY <1>4 DEF Sole
  <2>2. CASE cpc[c] \in Running \ Before
    BY <1>2, <1>5, <2>1, <2>2 DEF SInv, ThreadOK, Sole
  <2>3. CASE cpc[c] \notin Running \ Before
    BY <1>2, <2>3 DEF ThreadOK, Running, Before, ClientPoints
  <2>. QED
    BY <2>2, <2>3
<1>11. \A c \in Clients : AckOK(c)'
  <2>. SUFFICES ASSUME NEW c \in Clients PROVE AckOK(c)'
    OBVIOUS
  <2>1. c \notin Printed /\ Sole(id[c]) => id[c] # job.id
    BY <1>3, <1>4
  <2>2. Sole(id[c]) => id[c] \in JobIds
    BY DEF Sole
  <2>. QED
    BY <1>2, <1>5, <1>6, <2>1, <2>2 DEF SInv, AckOK, Sole
<1>12. \A i \in JobIds : FileOK(i)'
  BY <1>2, <1>5 DEF SInv, FileOK
<1>13. \A i \in JobIds : SpoolOK(i)'
  BY <1>2, <1>5 DEF SInv, SpoolOK, Known, Lost, Sole
<1>. QED
  BY <1>1, <1>7, <1>8, <1>9, <1>10, <1>11, <1>12, <1>13 DEF SInv

\* ... and the control file second, so that no data file is left without one.
LEMMA UnlinkReqStep ==
  ASSUME SInv, UnlinkReq
  PROVE  SInv'
<1>1. TypeOK'
  BY TypePrinter DEF PrinterStep
<1>2. UNCHANGED <<jobno, data, up, scan, skipped, nextjob, queue, cpc, id, reply, done, cancelled>>
  BY DEF UnlinkReq, daemon, client, past
<1>. Reused' = Reused
  BY <1>2, SameIds
<1>3. /\ ppc = "unlink_req" /\ ppc' = "get" /\ up /\ job # NoJob /\ job' = NoJob
      /\ req' = [req EXCEPT ![job.id] = NONE]
      /\ Sole(job.id) => job.owner \in Printed /\ data[job.id] = NoFile
  BY DEF UnlinkReq, PGoto, SInv, DaemonOK, JobOK
<1>4. /\ job.id \in JobIds /\ Spooled(job)
      /\ \A c \in Clients : cpc[c] \in Running /\ Sole(id[c]) => id[c] # job.id
      /\ \A c \in Clients : Sole(id[c]) /\ id[c] = job.id => c = job.owner
  BY <1>3, JobApart
<1>5. /\ req'[job.id] = NONE
      /\ \A i \in JobIds : i # job.id => req'[i] = req[i]
  BY <1>3, <1>4 DEF SInv, TypeOK
<1>6. Printed' = Printed
  BY <1>2 DEF Printed
<1>7. IdsOK' /\ DaemonOK' /\ QueueOK' /\ JobOK'
  BY <1>1, <1>2, <1>3, <1>5, JobGone
<1>8. \A c \in Clients : ThreadOK(c)'
  <2>. SUFFICES ASSUME NEW c \in Clients PROVE ThreadOK(c)'
    OBVIOUS
  <2>1. cpc[c] \in Running /\ Sole(id[c]) => id[c] \in JobIds /\ id[c] # job.id
    BY <1>4 DEF Sole
  <2>2. CASE cpc[c] \in Running \ Before
    BY <1>2, <1>5, <2>1, <2>2 DEF SInv, ThreadOK, Sole
  <2>3. CASE cpc[c] \notin Running \ Before
    BY <1>2, <2>3 DEF ThreadOK, Running, Before, ClientPoints
  <2>. QED
    BY <2>2, <2>3
<1>9. \A c \in Clients : AckOK(c)'
  <2>. SUFFICES ASSUME NEW c \in Clients PROVE AckOK(c)'
    OBVIOUS
  <2>1. c \notin Printed /\ Sole(id[c]) => id[c] # job.id
    BY <1>3, <1>4
  <2>2. Sole(id[c]) => id[c] \in JobIds
    BY DEF Sole
  <2>. QED
    BY <1>2, <1>5, <1>6, <2>1, <2>2 DEF SInv, AckOK, Sole
<1>10. \A i \in JobIds : FileOK(i)'
  <2>. SUFFICES ASSUME NEW i \in JobIds PROVE FileOK(i)'
    OBVIOUS
  <2>1. CASE i = job.id
    BY <1>2, <1>3, <1>5, <2>1, PrintdAssumption DEF SInv, FileOK
  <2>2. CASE i # job.id
    BY <1>2, <1>5, <2>2 DEF SInv, FileOK
  <2>. QED
    BY <2>1, <2>2
<1>11. \A i \in JobIds : SpoolOK(i)'
  <2>1. \A i \in JobIds : i # job.id => (Known(i) => Known(i)')
    BY <1>2, <1>3 DEF Known
  <2>2. Lost' = Lost
    BY <1>2 DEF Lost
  <2>3. Sole(job.id) => job.id \notin scan \cup skipped
    BY <1>4 DEF Spooled
  <2>. QED
    BY <1>2, <1>3, <1>5, <2>1, <2>2, <2>3 DEF SInv, SpoolOK, Sole
<1>. QED
  BY <1>1, <1>7, <1>8, <1>9, <1>10, <1>11 DEF SInv

\* build_qonstart: a complete control file becomes a job, ...
LEMMA QonstartAdds ==
  ASSUME SInv, NEW i \in JobIds, Qonstart(i), queue' # queue
  PROVE  SInv'
<1>1. TypeOK'
  BY TypeRest
<1>2. UNCHANGED <<jobno, data, req, up, skipped, nextjob, cpc, id, reply, job, done, cancelled>>
  BY DEF Qonstart, AddJob, client, past
<1>. Reused' = Reused
  BY <1>2, SameIds
<1>3. /\ up /\ i \in scan /\ scan' = scan \ {i} /\ req[i] \in Clients
      /\ queue' = Append(queue, [id |-> i, owner |-> req[i]])
      /\ ppc' = IF ppc = "waiting" THEN "get" ELSE ppc
  BY DEF Qonstart, AddJob
<1>4. PICK j \in Job : j.id = i /\ j.owner = req[i] /\ queue' = Append(queue, j)
  BY <1>3 DEF Job
<1>5. \A c \in Clients : cpc[c] \notin Running
  BY <1>3 DEF SInv, DaemonOK
<1>6. id[req[i]] = i
  BY <1>3 DEF SInv, FileOK
<1>7. IdsOK'
  BY <1>2 DEF SInv, IdsOK
<1>8. DaemonOK'
  BY <1>2, <1>3, <1>5 DEF SInv, DaemonOK, Sole
<1>9. \A k \in Job : Spooled(k) => Spooled(k)' /\ (k.id = i => i \in Reused)
  BY <1>2, <1>3 DEF Spooled, Sole
<1>10. job.id = i => i \in Reused
  <2>1. job = NoJob \/ (job \in Job /\ Spooled(job))
    BY DEF SInv, TypeOK, JobOK, Sole
  <2>. QED
    BY <1>9, <2>1 DEF NoJob, JobIds
<1>11. i \notin skipped
  BY <1>3 DEF SInv, DaemonOK
<1>12. QueueOK'
  <2>1. queue \in Seq(Job) /\ QueueOK
    BY DEF SInv, TypeOK
  <2>2. Spooled(j)'
    BY <1>2, <1>3, <1>4, <1>5, <1>6, <1>11 DEF Spooled, Sole
  <2>. QED
    BY <1>2, <1>4, <1>9, <1>10, <2>1, <2>2, AppendQueue
<1>13. JobOK'
  <2>1. Printed' = Printed
    BY <1>2 DEF Printed
  <2>2. ppc' = ppc \/ ppc' = "get"
    BY <1>3
  <2>. QED
    BY <1>2, <1>9, <2>1, <2>2 DEF SInv, TypeOK, JobOK, Sole
<1>14. \A c \in Clients : ThreadOK(c)' /\ AckOK(c)'
  BY <1>2 DEF SInv, ThreadOK, AckOK, Printed, Sole
<1>15. \A k \in JobIds : FileOK(k)'
  BY <1>2 DEF SInv, FileOK
<1>16. \A k \in JobIds : SpoolOK(k)'
  <2>1. \A n \in DOMAIN queue : n \in DOMAIN queue' /\ queue'[n] = queue[n]
    BY <1>4 DEF SInv, TypeOK
  <2>2. Len(queue) + 1 \in DOMAIN queue' /\ queue'[Len(queue) + 1] = j
    BY <1>4 DEF SInv, TypeOK
  <2>3. /\ \A k \in JobIds : Known(k) => Known(k)'
        /\ Known(i)'
    BY <1>2, <1>4, <2>1, <2>2 DEF Known
  <2>4. Lost' = Lost
    BY <1>2 DEF Lost
  <2>. QED
    BY <1>2, <1>3, <2>3, <2>4 DEF SInv, SpoolOK, Sole
<1>. QED
  BY <1>1, <1>7, <1>8, <1>12, <1>13, <1>14, <1>15, <1>16 DEF SInv

\* ... one cut short goes with its data, and one that cannot be opened stays.
LEMMA QonstartLeaves ==
  ASSUME SInv, NEW i \in JobIds, Qonstart(i), queue' = queue
  PROVE  SInv'
<1>1. TypeOK'
  BY TypeRest
<1>2. UNCHANGED <<jobno, up, nextjob, queue, cpc, id, reply, job, done, cancelled>>
  BY DEF Qonstart, client, past
<1>. Reused' = Reused
  BY <1>2, SameIds
<1>3. up /\ i \in scan /\ scan' = scan \ {i} /\ i \notin skipped
  BY DEF Qonstart, SInv, DaemonOK
<1>4. /\ ppc' = ppc
      /\ \A k \in JobIds : k # i => data'[k] = data[k] /\ req'[k] = req[k]
      /\ \/ /\ skipped' = skipped \cup {i} /\ data' = data /\ req' = req
         \/ /\ skipped' = skipped /\ req[i] = "partial" /\ data'[i] = NoFile /\ req'[i] = NONE
  <2>1. queue \in Seq(Job) /\ data \in [JobIds -> DataFile \cup {NoFile}]
          /\ req \in [JobIds -> Clients \cup {NONE, "partial"}]
    BY DEF SInv, TypeOK
  <2>2. \A j : queue' # Append(queue, j)
    BY <2>1, <1>2
  <2>. QED
    BY <2>1, <2>2 DEF Qonstart, AddJob
<1>5. \A c \in Clients : cpc[c] \notin Running
  BY <1>3 DEF SInv, DaemonOK
<1>6. req[i] # "partial" => data' = data /\ req' = req
  BY <1>4
<1>7. IdsOK'
  BY <1>2 DEF SInv, IdsOK
<1>8. DaemonOK'
  BY <1>2, <1>3, <1>4, <1>5 DEF SInv, DaemonOK, Sole
<1>9. \A j \in Job : Spooled(j) => Spooled(j)' /\ (Sole(j.id) => j.id # i) /\ j.id \in JobIds
  BY <1>2, <1>3, <1>4 DEF Spooled, Job, Sole
<1>10. QueueOK'
  <2>1. \A n \in 1 .. Len(queue) : queue[n] \in Job
    BY QueueJobs
  <2>. QED
    BY <1>2, <1>9, <2>1 DEF SInv, QueueOK
<1>11. JobOK'
  <2>1. job # NoJob => job \in Job /\ Spooled(job)' /\ (Sole(job.id) => data'[job.id] = data[job.id])
    BY <1>2, <1>4, <1>9 DEF SInv, TypeOK, JobOK
  <2>2. job = NoJob => ppc \notin {"connect", "send", "status", "unlink_data", "unlink_req"}
    BY DEF SInv, DaemonOK
  <2>3. Printed' = Printed
    BY <1>2 DEF Printed
  <2>. QED
    BY <1>2, <1>4, <2>1, <2>2, <2>3 DEF SInv, JobOK, Sole
<1>12. \A c \in Clients : ThreadOK(c)'
  BY <1>2, <1>5 DEF ThreadOK, Running, Before, ClientPoints
<1>13. \A c \in Clients : AckOK(c)'
  <2>. SUFFICES ASSUME NEW c \in Clients PROVE AckOK(c)'
    OBVIOUS
  <2>1. Sole(id[c]) => id[c] \in JobIds
    BY DEF Sole
  <2>2. c # "partial"
    BY PrintdAssumption
  <2>3. Printed' = Printed
    BY <1>2 DEF Printed
  <2>. QED
    BY <1>2, <1>4, <2>1, <2>2, <2>3 DEF SInv, AckOK, Sole
<1>14. \A k \in JobIds : FileOK(k)'
  <2>. SUFFICES ASSUME NEW k \in JobIds PROVE FileOK(k)'
    OBVIOUS
  <2>1. CASE data'[k] = data[k] /\ req'[k] = req[k]
    BY <1>2, <2>1 DEF SInv, FileOK
  <2>2. CASE data'[k] = NoFile /\ req'[k] = NONE
    BY <2>2, PrintdAssumption DEF FileOK
  <2>. QED
    BY <1>4, <2>1, <2>2
<1>15. \A k \in JobIds : SpoolOK(k)'
  <2>1. \A k \in JobIds : Known(k) => Known(k)'
    BY <1>2 DEF Known
  <2>2. Lost' = Lost
    BY <1>2 DEF Lost
  <2>3. Sole(i) => req[i] # NONE
    BY <1>3 DEF SInv, SpoolOK
  <2>. SUFFICES ASSUME NEW k \in JobIds PROVE SpoolOK(k)'
    OBVIOUS
  <2>4. CASE k = i
    BY <1>2, <1>3, <1>4, <2>2, <2>3, <2>4 DEF SpoolOK, Sole
  <2>5. CASE k # i
    BY <1>2, <1>3, <1>4, <2>1, <2>2, <2>5 DEF SInv, SpoolOK, Sole
  <2>. QED
    BY <2>4, <2>5
<1>. QED
  BY <1>1, <1>7, <1>8, <1>10, <1>11, <1>12, <1>13, <1>14, <1>15 DEF SInv

-----------------------------------------------------------------------------
\* The daemon starts and ends

LEMMA StartStep ==
  ASSUME SInv, Start
  PROVE  SInv'
<1>1. TypeOK'
  BY TypeRest
<1>2. UNCHANGED <<jobno, data, req, queue, cpc, id, reply, job, done, cancelled>>
  BY DEF Start, disk, client
<1>. Reused' = Reused
  BY <1>2, SameIds
<1>3. /\ ~up /\ up' = TRUE /\ nextjob' = SavedJobno /\ ppc = "down" /\ ppc' = "get"
      /\ scan' = {i \in JobIds : req[i] # NONE} /\ skipped' = {}
      /\ queue = << >> /\ job = NoJob
  BY DEF Start, SInv, DaemonOK
<1>4. \A c \in Clients : cpc[c] \notin Running
  BY <1>3 DEF SInv, DaemonOK
<1>5. IdsOK'
  BY <1>2, <1>3 DEF SInv, IdsOK
<1>6. DaemonOK'
  BY <1>2, <1>3, <1>4 DEF SInv, DaemonOK
<1>7. QueueOK'
  BY <1>2, <1>3 DEF QueueOK
<1>8. JobOK'
  BY <1>2, <1>3 DEF JobOK, NoJob, Sole, JobIds
<1>9. \A c \in Clients : ThreadOK(c)' /\ AckOK(c)'
  BY <1>2 DEF SInv, ThreadOK, AckOK, Printed, Sole
<1>10. \A i \in JobIds : FileOK(i)'
  BY <1>2 DEF SInv, FileOK
<1>11. \A i \in JobIds : SpoolOK(i)'
  BY <1>2, <1>3 DEF SInv, SpoolOK, Known, Lost, Sole
<1>. QED
  BY <1>1, <1>5, <1>6, <1>7, <1>8, <1>9, <1>10, <1>11 DEF SInv

LEMMA StopStep ==
  ASSUME SInv, Stop
  PROVE  SInv'
<1>1. TypeOK'
  BY TypeRest
<1>2. UNCHANGED <<jobno, data, req, nextjob, id, reply, done, cancelled>>
  BY DEF Stop, disk
<1>. Reused' = Reused
  BY <1>2, SameIds
<1>3. /\ up /\ up' = FALSE /\ ppc' = "down"
      /\ scan' = {} /\ skipped' = {} /\ queue' = << >> /\ job' = NoJob
  BY DEF Stop
<1>4. \A c \in Clients : cpc'[c] = IF cpc[c] \in Running THEN "lost" ELSE cpc[c]
  BY DEF Stop
<1>5. \A c \in Clients : cpc'[c] \notin Running
  BY <1>4 DEF Running
<1>6. IdsOK'
  <2>1. \A c \in Clients : cpc'[c] \in Before => cpc[c] \in Before
    BY <1>4 DEF Before
  <2>. QED
    BY <1>2, <1>5, <2>1 DEF SInv, IdsOK
<1>7. DaemonOK'
  BY <1>3, <1>5 DEF DaemonOK
<1>8. QueueOK'
  BY <1>3 DEF QueueOK
<1>9. JobOK'
  BY <1>3 DEF JobOK, NoJob, Sole, JobIds
<1>10. \A c \in Clients : ThreadOK(c)'
  BY <1>5 DEF ThreadOK, Running, Before, ClientPoints
<1>11. \A c \in Clients : AckOK(c)'
  BY <1>2, <1>4 DEF SInv, AckOK, Printed, Sole
<1>12. \A i \in JobIds : FileOK(i)'
  BY <1>2 DEF SInv, FileOK
<1>13. ASSUME NEW i \in JobIds PROVE SpoolOK(i)'
  <2>. SUFFICES ASSUME Sole(i), data[i] # NoFile, req[i] = NONE
                PROVE  data[i].owner \in cancelled \/ data[i].owner \in Lost'
    BY <1>2, <1>3 DEF SpoolOK, Sole
  <2>1. data[i].owner \in Clients /\ id[data[i].owner] = i /\ i # 0
    BY DEF SInv, TypeOK, FileOK, DataFile, JobIds
  <2>2. Lost \subseteq Lost'
    BY <1>4 DEF Lost, Running
  <2>3. ~(job.id = i)
    BY <2>1, JobApart, PrintdAssumption DEF NoJob, Spooled
  <2>4. ~\E n \in DOMAIN queue : queue[n].id = i
    <3>. SUFFICES ASSUME NEW n \in DOMAIN queue, queue[n].id = i PROVE FALSE
      OBVIOUS
    <3>1. n \in 1 .. Len(queue) /\ queue[n] \in Job
      BY DEF SInv, TypeOK
    <3>. QED
      BY <3>1, PrintdAssumption DEF SInv, QueueOK, Spooled, Job
  <2>5. CASE Known(i)
    <3>1. PICK c \in Clients : id[c] = i /\ cpc[c] \in Running
      BY <2>3, <2>4, <2>5 DEF Known
    <3>2. c = data[i].owner
      BY <2>1, <3>1, SoleOwner
    <3>. QED
      BY <1>4, <3>1, <3>2 DEF Lost
  <2>. QED
    BY <2>2, <2>5 DEF SInv, SpoolOK
<1>. QED
  BY <1>1, <1>6, <1>7, <1>8, <1>9, <1>10, <1>11, <1>12, <1>13 DEF SInv

LEMMA InitSInv == Init => SInv
<1>. SUFFICES ASSUME Init PROVE SInv
  OBVIOUS
<1>1. TypeOK
  <2>1. /\ jobno \in 0 .. MaxId /\ up \in BOOLEAN /\ scan \subseteq JobIds /\ leaked \in 0 .. OpenMax
        /\ skipped \subseteq JobIds /\ nextjob \in JobIds
    <3>1. jobno = 0 /\ up = FALSE /\ scan = {} /\ leaked = 0 /\ skipped = {} /\ nextjob = 1
      BY DEF Init
    <3>2. up \in BOOLEAN
      BY <3>1
    <3>3. jobno \in 0 .. MaxId /\ leaked \in 0 .. OpenMax /\ nextjob \in JobIds
      BY <3>1, PrintdAssumption DEF JobIds
    <3>. QED
      BY <3>1, <3>2, <3>3
  <2>2. /\ data \in [JobIds -> DataFile \cup {NoFile}]
        /\ req \in [JobIds -> Clients \cup {NONE, "partial"}]
    BY DEF Init
  <2>3. /\ cpc \in [Clients -> ClientPoints] /\ id \in [Clients -> JobIds \cup {0}]
        /\ reply \in [Clients -> {"none", "ok", "error"}]
    BY DEF Init, ClientPoints
  <2>4. /\ queue \in Seq(Job) /\ done \in Seq(Clients) /\ before \in 0 .. Len(done)
    BY DEF Init
  <2>5. /\ ppc \in PrinterPoints /\ job \in Job \cup {NoJob} /\ cancelled \subseteq Clients
    BY DEF Init, PrinterPoints
  <2>6. /\ reread \in BOOLEAN /\ current \in BOOLEAN /\ unsaved \subseteq JobIds
        /\ fails \in 0 .. MaxFails /\ stops \in 0 .. MaxStops
    <3>1. reread = FALSE /\ current = TRUE /\ unsaved = {} /\ fails = 0 /\ stops = 0
      BY DEF Init
    <3>2. reread \in BOOLEAN /\ current \in BOOLEAN /\ unsaved \subseteq JobIds
      BY <3>1
    <3>3. fails \in 0 .. MaxFails /\ stops \in 0 .. MaxStops
      BY <3>1, PrintdAssumption
    <3>. QED
      BY <3>2, <3>3
  <2>. QED
    BY <2>1, <2>2, <2>3, <2>4, <2>5, <2>6 DEF TypeOK
<1>2. IdsOK
  BY DEF Init, IdsOK, Running, Before
<1>3. DaemonOK /\ QueueOK /\ JobOK
  BY DEF Init, DaemonOK, QueueOK, JobOK, Running, NoJob, Sole, JobIds
<1>4. \A c \in Clients : ThreadOK(c) /\ AckOK(c)
  BY DEF Init, ThreadOK, AckOK, Running
<1>5. \A i \in JobIds : FileOK(i) /\ SpoolOK(i)
  <2>1. \A i \in JobIds : data[i] = NoFile /\ req[i] = NONE
    BY DEF Init
  <2>2. scan = {} /\ skipped = {} /\ ~up
    BY DEF Init
  <2>. QED
    BY <2>1, <2>2, PrintdAssumption DEF FileOK, SpoolOK
<1>. QED
  BY <1>1, <1>2, <1>3, <1>4, <1>5 DEF SInv

LEMMA NextSInv ==
  ASSUME SInv, [Next]_vars
  PROVE  SInv'
<1>1. CASE UNCHANGED vars
  BY <1>1 DEF vars, SInv, TypeOK, IdsOK, Sole, Reused, DaemonOK, QueueOK, JobOK, Spooled, Printed,
              ThreadOK, AckOK, FileOK, SpoolOK, Known, Lost
<1>2. CASE Start \/ Stop \/ Hangup
  BY <1>2, StartStep, StopStep, QuietSteps
<1>3. CASE PrinterStep
  BY <1>3, QuietSteps, PickUpStep, DropStep, UnlinkDataStep, UnlinkReqStep, ReplaceStep DEF PrinterStep
<1>4. CASE \E i \in JobIds : Qonstart(i)
  BY <1>4, QonstartAdds, QonstartLeaves
<1>5. CASE \E c \in Clients : Connect(c) \/ ClientStep(c)
  BY <1>5, UnnumberedSteps, NumberedStep, FileSteps, EnqueueStep DEF ClientStep
<1>. QED
  BY <1>1, <1>2, <1>3, <1>4, <1>5 DEF Next

LEMMA Invariant == Spec => []SInv
BY InitSInv, NextSInv, PTL DEF Spec

-----------------------------------------------------------------------------
\* What the invariant says

\* The next job number is never more than one ahead of the clients that have
\* one; what is ahead of it, or of the job file while the daemon is down, was
\* given out before a daemon ended; and so was what was given out twice.
Numbered == {c \in Clients : id[c] # 0}
NumbersOK ==
    /\ SavedJobno <= nextjob /\ nextjob <= Cardinality(Numbered) + 1
    /\ \A c \in Clients : id[c] >= (IF up THEN nextjob ELSE SavedJobno) => id[c] \in unsaved
    /\ Reused \subseteq unsaved

\* There are more numbers than clients, so that get_newjobno does not start
\* again with 1.
NumbersSuffice == IsFiniteSet(Clients) /\ Cardinality(Clients) < MaxId

LEMMA NumbersType ==
  ASSUME SInv, NumbersSuffice
  PROVE  /\ nextjob \in 1 .. MaxId /\ jobno \in 0 .. MaxId /\ MaxId \in Nat
         /\ SavedJobno \in 1 .. MaxId
         /\ \A c \in Clients : id[c] \in 0 .. MaxId
         /\ Cardinality(Numbered) \in Nat
<1>1. Cardinality(Numbered) \in Nat
  BY FS_Subset, FS_CardinalityType DEF Numbered, NumbersSuffice
<1>. QED
  BY <1>1, PrintdAssumption DEF SInv, TypeOK, JobIds, SavedJobno

\* get_newjobno: if the number is not new, a daemon ended when the job file
\* was behind it.
LEMMA NumbersGetJobno ==
  ASSUME SInv, SInv', NumbersOK, NumbersSuffice, NEW c \in Clients, GetJobno(c)
  PROVE  NumbersOK'
<1>1. UNCHANGED <<jobno, up, unsaved>>
  BY DEF GetJobno, Elsewhere, daemon, past
<1>2. /\ id[c] = 0 /\ up /\ id' = [id EXCEPT ![c] = nextjob]
      /\ nextjob' = IF nextjob = MaxId THEN 1 ELSE nextjob + 1
  BY DEF GetJobno, Goto, SInv, IdsOK, DaemonOK, Before, Running, ClientPoints
<1>3. id'[c] = nextjob /\ \A d \in Clients : d # c => id'[d] = id[d]
  BY <1>2 DEF SInv, TypeOK
<1>4. Numbered' = Numbered \cup {c} /\ c \notin Numbered /\ Numbered \subseteq Clients
  BY <1>2, <1>3, NumbersType DEF Numbered
<1>5. /\ Cardinality(Numbered)' = Cardinality(Numbered) + 1
      /\ Cardinality(Numbered) + 1 <= Cardinality(Clients)
  <2>1. IsFiniteSet(Numbered)
    BY <1>4, FS_Subset DEF NumbersSuffice
  <2>2. Cardinality(Numbered \cup {c}) = Cardinality(Numbered) + 1
    BY <1>4, <2>1, FS_AddElement
  <2>3. Cardinality(Numbered \cup {c}) <= Cardinality(Clients)
    BY <1>4, FS_Subset DEF NumbersSuffice
  <2>. QED
    BY <1>4, <2>2, <2>3
<1>6. nextjob' = nextjob + 1
  <2>1. Cardinality(Clients) \in Nat /\ Cardinality(Clients) < MaxId
    BY FS_CardinalityType DEF NumbersSuffice
  <2>. QED
    BY <1>2, <1>5, <2>1, NumbersType DEF NumbersOK
<1>7. Reused' \subseteq unsaved
  <2>. SUFFICES ASSUME NEW i \in JobIds, i \in Reused', i \notin Reused PROVE i \in unsaved
    BY DEF NumbersOK, Reused
  <2>1. PICK d, e \in Clients : d # e /\ id'[d] = i /\ id'[e] = i
    BY DEF Reused
  <2>2. PICK d2 \in Clients : id[d2] = i /\ i = nextjob
    BY <1>3, <2>1 DEF Reused
  <2>. QED
    BY <1>2, <2>2, NumbersType DEF NumbersOK
<1>8. ASSUME NEW d \in Clients, id'[d] >= nextjob' PROVE id'[d] \in unsaved
  BY <1>2, <1>3, <1>6, <1>8, NumbersType DEF NumbersOK
<1>9. SavedJobno' = SavedJobno
  BY <1>1 DEF SavedJobno
<1>. QED
  BY <1>1, <1>2, <1>5, <1>6, <1>7, <1>8, <1>9, NumbersType DEF NumbersOK

LEMMA NumbersNext ==
  ASSUME SInv, SInv', NumbersOK, NumbersSuffice, [Next]_vars
  PROVE  NumbersOK'
<1>1. CASE UNCHANGED <<jobno, nextjob, id, up, unsaved>>
  <2>1. Reused' = Reused /\ SavedJobno' = SavedJobno /\ Numbered' = Numbered
    BY <1>1, SameIds DEF SavedJobno, Numbered
  <2>. QED
    BY <1>1, <2>1 DEF NumbersOK
\* init_request goes on where the job file ends.
<1>2. CASE Start
  <2>1. ~up /\ up' /\ nextjob' = SavedJobno /\ UNCHANGED <<jobno, id, unsaved>>
    BY <1>2 DEF Start, disk, client
  <2>2. Reused' = Reused /\ SavedJobno' = SavedJobno /\ Numbered' = Numbered
    BY <2>1, SameIds DEF SavedJobno, Numbered
  <2>. QED
    BY <2>1, <2>2, NumbersType DEF NumbersOK
<1>3. CASE Stop
  <2>1. /\ up /\ ~up' /\ UNCHANGED <<jobno, nextjob, id>>
        /\ unsaved' = unsaved \cup SavedJobno .. nextjob - 1
    BY <1>3 DEF Stop, disk
  <2>2. Reused' = Reused /\ SavedJobno' = SavedJobno /\ Numbered' = Numbered
    BY <2>1, SameIds DEF SavedJobno, Numbered
  <2>3. ASSUME NEW c \in Clients, id[c] >= SavedJobno PROVE id[c] \in unsaved'
    BY <2>1, <2>3, NumbersType DEF NumbersOK
  <2>. QED
    BY <2>1, <2>2, <2>3 DEF NumbersOK
\* update_jobno: the job file catches up.
<1>4. CASE UpdateJobno
  <2>1. up /\ jobno' = nextjob /\ UNCHANGED <<nextjob, id, up, unsaved>>
    BY <1>4 DEF UpdateJobno, PGoto, daemon, client, past, SInv, DaemonOK
  <2>2. Reused' = Reused /\ Numbered' = Numbered /\ SavedJobno' = nextjob
    BY <2>1, SameIds, NumbersType DEF SavedJobno, Numbered
  <2>. QED
    BY <2>1, <2>2, NumbersType DEF NumbersOK
<1>5. CASE \E c \in Clients : GetJobno(c)
  BY <1>5, NumbersGetJobno
<1>6. CASE (\E c \in Clients : Connect(c) \/ ClientStep(c)) /\ ~\E c \in Clients : GetJobno(c)
  <2>1. UNCHANGED <<jobno, nextjob, id, up, unsaved>>
    BY <1>6 DEF Connect, ClientStep, ReadHeader, CreatData, ReadBuffer, ReadEnd, CreatReq, WriteReq,
           UnlinkReqFile, UnlinkDataFile, Reply, Enqueue, Elsewhere, disk, daemon, past
  <2>. QED
    BY <1>1, <2>1
<1>7. CASE Hangup \/ (PrinterStep /\ ~UpdateJobno) \/ \E i \in JobIds : Qonstart(i)
  <2>1. UNCHANGED <<jobno, nextjob, id, up, unsaved>>
    BY <1>7 DEF Hangup, PrinterStep, PickUp, Wait, Reconfigure, CheckConfig, InitPrinter, OpenJob, ConnectPrinter,
         SendJob, PrinterStatus, UnlinkData, UnlinkReq, ReplaceJob, Awake, Qonstart, disk, daemon, client, past
  <2>. QED
    BY <1>1, <2>1
<1>. QED
  BY <1>1, <1>2, <1>3, <1>4, <1>5, <1>6, <1>7 DEF Next, vars

\* A number is given out twice only if a daemon ended when the job file was
\* behind it, and no two jobs of the list and the printer have another number
\* in common; however many threads ask at once, whatever fails and wherever
\* the daemon ends.
THEOREM Distinct == NumbersSuffice /\ Spec => []JobsDistinct
<1>. SUFFICES ASSUME NumbersSuffice PROVE Spec => []JobsDistinct
  OBVIOUS
<1>1. Init => NumbersOK
  <2>. SUFFICES ASSUME Init PROVE NumbersOK
    OBVIOUS
  <2>1. Numbered = {} /\ Reused = {}
    BY DEF Init, Numbered, Reused, JobIds
  <2>2. Cardinality(Numbered) = 0
    BY <2>1, FS_EmptySet
  <2>. QED
    BY <2>1, <2>2 DEF Init, NumbersOK, SavedJobno
<1>2. SInv /\ SInv' /\ NumbersOK /\ [Next]_vars => NumbersOK'
  BY NumbersNext
<1>3. SInv /\ NumbersOK => JobsDistinct
  <2>1. queue \in Seq(Job) => DOMAIN queue = 1 .. Len(queue)
    OBVIOUS
  <2>. QED
    BY <2>1 DEF SInv, TypeOK, QueueOK, NumbersOK, JobsDistinct
<1>. QED
  BY Invariant, <1>1, <1>2, <1>3, PTL DEF Spec

\* A job that was accepted is in the directory, data and request, until it
\* is printed; wherever the daemon ends, unless its number is given out again.
THEOREM Spools == Spec => []AckedIsSpooled
<1>1. SInv => AckedIsSpooled
  BY DEF SInv, TypeOK, AckOK, AckedIsSpooled, Kept, Sole
<1>. QED
  BY Invariant, <1>1, PTL

\* Every complete request that build_qonstart could open is in somebody's
\* hands.
THEOREM Queues == Spec => []PendingQueued
<1>1. SInv => PendingQueued
  BY PrintdAssumption DEF SInv, SpoolOK, PendingQueued, Sole
<1>. QED
  BY Invariant, <1>1, PTL

\* No file is forgotten in the spool directory.
THEOREM Cleans == Spec => []NoOrphans
<1>1. SInv => NoOrphans
  BY DEF SInv, SpoolOK, NoOrphans, Lost, Sole
<1>. QED
  BY Invariant, <1>1, PTL

-----------------------------------------------------------------------------
\* The queue

\* The list of the abstract specification
Waiting == Held \o Owners(queue)

\* The jobs this daemon has printed
Recent == {done[n] : n \in before + 1 .. Len(done)}

\* What it has printed it will not meet again: the request is gone, or about
\* to go.
OnceOK == up => \A c \in Recent :
    /\ id[c] # 0
    /\ Sole(id[c]) =>
          /\ cpc[c] \notin Running
          /\ \/ req[id[c]] = NONE
             \/ job.owner = c /\ ppc \in {"unlink_data", "unlink_req"}

QInv == SInv /\ OnceOK

-----------------------------------------------------------------------------
\* Sequences

LEMMA OwnersType ==
  ASSUME NEW q \in Seq(Job)
  PROVE  /\ Owners(q) \in Seq(Clients) /\ Len(Owners(q)) = Len(q)
         /\ \A n \in 1 .. Len(q) : Owners(q)[n] = q[n].owner
<1>1. DOMAIN q = 1 .. Len(q) /\ Len(q) \in Nat
  BY LenProperties
<1>2. \A n \in 1 .. Len(q) : q[n].owner \in Clients
  <2>1. \A n \in 1 .. Len(q) : q[n] \in Job
    OBVIOUS
  <2>. QED
    BY <2>1 DEF Job
<1>3. Owners(q) \in [1 .. Len(q) -> Clients]
  BY <1>1, <1>2 DEF Owners
<1>4. Owners(q) \in Seq(Clients) /\ Len(Owners(q)) = Len(q)
  BY <1>1, <1>3
<1>. QED
  BY <1>1, <1>4 DEF Owners

LEMMA OwnersAppend ==
  ASSUME NEW q \in Seq(Job), NEW j \in Job
  PROVE  Owners(Append(q, j)) = Append(Owners(q), j.owner)
<1>1. Append(q, j) \in Seq(Job) /\ j.owner \in Clients
  BY DEF Job
<1>2. Append(Owners(q), j.owner) \in Seq(Clients)
  BY <1>1, OwnersType
<1>3. /\ Len(Owners(Append(q, j))) = Len(q) + 1 /\ Owners(Append(q, j)) \in Seq(Clients)
      /\ \A n \in 1 .. Len(q) + 1 : Owners(Append(q, j))[n] = Append(q, j)[n].owner
  <2>1. Len(Append(q, j)) = Len(q) + 1
    OBVIOUS
  <2>. QED
    BY <1>1, <2>1, OwnersType
<1>4. Len(Append(Owners(q), j.owner)) = Len(q) + 1
  BY <1>1, OwnersType
<1>5. ASSUME NEW n \in 1 .. Len(q) + 1
      PROVE  Owners(Append(q, j))[n] = Append(Owners(q), j.owner)[n]
  BY <1>1, <1>3, OwnersType
<1>. QED
  BY <1>2, <1>3, <1>4, <1>5, SeqEqual

LEMMA OwnersCons ==
  ASSUME NEW q \in Seq(Job), NEW j \in Job
  PROVE  Owners(<<j>> \o q) = <<j.owner>> \o Owners(q)
<1>1. <<j>> \in Seq(Job) /\ j.owner \in Clients /\ <<j.owner>> \in Seq(Clients)
  BY DEF Job
<1>2. <<j>> \o q \in Seq(Job) /\ <<j.owner>> \o Owners(q) \in Seq(Clients)
  BY <1>1, OwnersType
<1>3. /\ Len(Owners(<<j>> \o q)) = Len(q) + 1 /\ Owners(<<j>> \o q) \in Seq(Clients)
      /\ \A n \in 1 .. Len(q) + 1 : Owners(<<j>> \o q)[n] = (<<j>> \o q)[n].owner
  <2>1. Len(<<j>> \o q) = Len(q) + 1
    BY <1>1
  <2>. QED
    BY <1>2, <2>1, OwnersType
<1>4. Len(<<j.owner>> \o Owners(q)) = Len(q) + 1
  BY <1>1, OwnersType
<1>5. ASSUME NEW n \in 1 .. Len(q) + 1
      PROVE  Owners(<<j>> \o q)[n] = (<<j.owner>> \o Owners(q))[n]
  <2>1. (<<j>> \o q)[n] = IF n = 1 THEN j ELSE q[n - 1]
    BY <1>1
  <2>2. (<<j.owner>> \o Owners(q))[n] = IF n = 1 THEN j.owner ELSE Owners(q)[n - 1]
    BY <1>1, OwnersType
  <2>3. n # 1 => Owners(q)[n - 1] = q[n - 1].owner
    BY OwnersType
  <2>. QED
    BY <1>3, <2>1, <2>2, <2>3
<1>. QED
  BY <1>2, <1>3, <1>4, <1>5, SeqEqual

LEMMA OwnersTail ==
  ASSUME NEW q \in Seq(Job), q # << >>
  PROVE  <<Head(q).owner>> \o Owners(Tail(q)) = Owners(q)
<1>1. Head(q) \in Job /\ Tail(q) \in Seq(Job)
  OBVIOUS
<1>2. q = <<Head(q)>> \o Tail(q)
  OBVIOUS
<1>. QED
  BY <1>1, <1>2, OwnersCons

-----------------------------------------------------------------------------
\* What this daemon has printed

\* A step that prints nothing, and puts no request back.
LEMMA NothingPrinted ==
  ASSUME SInv, OnceOK, UNCHANGED <<done, before, up>>,
         \A c \in Clients : id[c] # 0 => id'[c] = id[c],
         \A c \in Clients : cpc[c] \notin Running /\ Sole(id[c]) =>
             cpc'[c] \notin Running /\ req'[id[c]] \in {req[id[c]], NONE},
         Sole(job.id) /\ ppc \in {"unlink_data", "unlink_req"} =>
             \/ job' = job /\ ppc' \in {"unlink_data", "unlink_req"}
             \/ req'[job.id] = NONE
  PROVE  OnceOK'
<1>. SUFFICES ASSUME up, NEW c \in Recent
              PROVE  /\ id'[c] # 0
                     /\ id'[c] \in JobIds \ Reused' =>
                          /\ cpc'[c] \notin Running
                          /\ req'[id'[c]] = NONE \/ (job'.owner = c /\ ppc' \in {"unlink_data", "unlink_req"})
  BY DEF OnceOK, Recent, Sole
<1>1. c \in Clients
  <2>1. PICK n \in before + 1 .. Len(done) : c = done[n]
    BY DEF Recent
  <2>. QED
    BY <2>1 DEF SInv, TypeOK
<1>2. id[c] # 0 /\ id'[c] = id[c]
  BY <1>1 DEF OnceOK
<1>. SUFFICES ASSUME id[c] \in JobIds \ Reused'
              PROVE  /\ cpc'[c] \notin Running
                     /\ req'[id[c]] = NONE \/ (job'.owner = c /\ ppc' \in {"unlink_data", "unlink_req"})
  BY <1>2
<1>3. /\ Sole(id[c]) /\ cpc[c] \notin Running
      /\ cpc'[c] \notin Running /\ req'[id[c]] \in {req[id[c]], NONE}
  <2>1. Sole(id[c])
    BY SoleBefore DEF Sole
  <2>. QED
    BY <1>1, <2>1 DEF OnceOK
<1>4. CASE req[id[c]] = NONE
  BY <1>2, <1>3, <1>4
<1>5. CASE job.owner = c /\ ppc \in {"unlink_data", "unlink_req"}
  <2>1. Spooled(job)
    BY <1>5 DEF SInv, DaemonOK, JobOK
  <2>2. id[c] = job.id
    BY <1>5, <2>1 DEF Spooled
  <2>. QED
    BY <1>2, <1>3, <1>5, <2>2
<1>. QED
  BY <1>3, <1>4, <1>5 DEF OnceOK

LEMMA OnceClient ==
  ASSUME SInv, OnceOK, NEW c \in Clients, Connect(c) \/ ClientStep(c)
  PROVE  OnceOK'
<1>1. UNCHANGED <<done, before, up, job>> /\ (ppc' = ppc \/ ppc = "waiting")
  BY DEF Connect, ClientStep, ReadHeader, GetJobno, CreatData, ReadBuffer, ReadEnd, CreatReq, WriteReq,
         UnlinkReqFile, UnlinkDataFile, Reply, Enqueue, AddJob, Elsewhere, daemon, printer, past
<1>2. (cpc[c] \in Running \/ cpc[c] = "none") /\ \E to : cpc' = [cpc EXCEPT ![c] = to]
  BY DEF Connect, ClientStep, ReadHeader, GetJobno, CreatData, ReadBuffer, ReadEnd, CreatReq, WriteReq,
         UnlinkReqFile, UnlinkDataFile, Reply, Enqueue, Goto, Running, ClientPoints
<1>3. \A d \in Clients : d # c => cpc'[d] = cpc[d]
  BY <1>2 DEF SInv, TypeOK
<1>4. \A d \in Clients : d # c => id'[d] = id[d]
  <2>1. id' = id \/ id' = [id EXCEPT ![c] = nextjob]
    BY DEF Connect, ClientStep, ReadHeader, GetJobno, CreatData, ReadBuffer, ReadEnd, CreatReq, WriteReq,
           UnlinkReqFile, UnlinkDataFile, Reply, Enqueue
  <2>. QED
    BY <2>1 DEF SInv, TypeOK
<1>5. \A i \in JobIds : i # id[c] => req'[i] = req[i]
  <2>1. req' = req \/ \E r : req' = [req EXCEPT ![id[c]] = r]
    BY DEF Connect, ClientStep, ReadHeader, GetJobno, CreatData, ReadBuffer, ReadEnd, CreatReq, WriteReq,
           UnlinkReqFile, UnlinkDataFile, Reply, Enqueue, disk
  <2>. QED
    BY <2>1 DEF SInv, TypeOK
<1>6. ASSUME NEW d \in Clients, cpc[d] \notin Running, Sole(id[d])
      PROVE  cpc'[d] \notin Running /\ req'[id[d]] \in {req[id[d]], NONE}
  <2>1. d # c
    BY <1>2, <1>6 DEF SInv, IdsOK, Before, Sole, JobIds
  <2>2. id[d] \in JobIds /\ id[d] # id[c]
    BY <1>6, <2>1, SoleOwner DEF Sole
  <2>. QED
    BY <1>3, <1>5, <1>6, <2>1, <2>2
<1>7. id[c] # 0 => id'[c] = id[c]
  <2>1. id' = id \/ cpc[c] = "getid"
    BY DEF Connect, ClientStep, ReadHeader, GetJobno, CreatData, ReadBuffer, ReadEnd, CreatReq, WriteReq,
           UnlinkReqFile, UnlinkDataFile, Reply, Enqueue, Goto
  <2>. QED
    BY <2>1 DEF SInv, IdsOK, Before
<1>. QED
  BY <1>1, <1>4, <1>6, <1>7, NothingPrinted

LEMMA OncePrinter ==
  ASSUME SInv, OnceOK, PrinterStep
  PROVE  OnceOK'
<1>1. UNCHANGED <<before, up, cpc, id>>
  BY DEF PrinterStep, PickUp, Wait, UpdateJobno, Reconfigure, CheckConfig, InitPrinter, OpenJob, ConnectPrinter,
         SendJob, PrinterStatus, UnlinkData, UnlinkReq, ReplaceJob, Awake, daemon, client, past
\* A job is printed: it was not printed by this daemon before.
<1>2. CASE PrinterStatus /\ done' # done
  <2>1. /\ ppc = "status" /\ ppc' = "unlink_data" /\ \E s \in Sent : done' = Append(done, s)
        /\ UNCHANGED <<req, job>>
    BY <1>2 DEF PrinterStatus, PGoto, disk
  <2>2. PICK s \in Sent : done' = Append(done, s)
    BY <2>1
  <2>3. job # NoJob
    BY <2>1 DEF SInv, DaemonOK
  <2>4. job.id \in JobIds /\ job.id # 0 /\ Spooled(job)
    BY <2>3, JobApart DEF JobIds
  <2>5. s \in Clients /\ id[s] = job.id /\ (Sole(job.id) => s = job.owner)
    BY <2>3, SentOwners
  <2>6. Recent' \subseteq Recent \cup {s}
    <3>. SUFFICES ASSUME NEW n \in before + 1 .. Len(done') PROVE done'[n] \in Recent \cup {s}
      BY <1>1 DEF Recent
    <3>1. done \in Seq(Clients) /\ before \in 0 .. Len(done)
      BY DEF SInv, TypeOK
    <3>2. (n \in before + 1 .. Len(done) /\ done'[n] = done[n]) \/ done'[n] = s
      BY <2>2, <2>5, <3>1
    <3>. QED
      BY <3>2 DEF Recent
  <2>7. \A c \in Recent : up => /\ id[c] # 0
                                /\ Sole(id[c]) => cpc[c] \notin Running /\ (req[id[c]] = NONE \/ job.owner = c)
    BY <2>1 DEF OnceOK
  <2>8. \A c \in Recent' : up => /\ id[c] # 0
                                 /\ Sole(id[c]) => cpc[c] \notin Running /\ (req[id[c]] = NONE \/ job.owner = c)
    BY <2>4, <2>5, <2>6, <2>7 DEF Spooled
  <2>. QED
    BY <1>1, <2>1, <2>8, SameIds DEF OnceOK, Sole
<1>3. CASE ~(PrinterStatus /\ done' # done)
  <2>1. done' = done
    BY <1>3 DEF PrinterStep, PickUp, Wait, UpdateJobno, Reconfigure, CheckConfig, InitPrinter, OpenJob,
                ConnectPrinter, SendJob, UnlinkData, UnlinkReq, ReplaceJob, Awake, past
  <2>2. req' = req \/ (ppc = "unlink_req" /\ req' = [req EXCEPT ![job.id] = NONE])
    BY DEF PrinterStep, PickUp, Wait, UpdateJobno, Reconfigure, CheckConfig, InitPrinter, OpenJob, ConnectPrinter,
           SendJob, PrinterStatus, UnlinkData, UnlinkReq, ReplaceJob, Awake, PGoto, disk
  <2>3. \A i \in JobIds : req'[i] \in {req[i], NONE}
    BY <2>2 DEF SInv, TypeOK
  <2>4. \A c \in Clients : Sole(id[c]) => id[c] \in JobIds
    BY DEF Sole
  <2>5. CASE UnlinkReq
    <3>1. job.id \in JobIds
      BY <2>5, JobApart DEF UnlinkReq, PGoto, SInv, DaemonOK
    <3>2. req'[job.id] = NONE
      BY <2>5, <3>1 DEF UnlinkReq, SInv, TypeOK
    <3>. QED
      BY <1>1, <2>1, <2>3, <2>4, <3>2, NothingPrinted
  <2>6. CASE ~UnlinkReq
    <3>1. ppc \in {"unlink_data", "unlink_req"} => job' = job /\ ppc' \in {"unlink_data", "unlink_req"}
      BY <2>6 DEF PrinterStep, PickUp, Wait, UpdateJobno, Reconfigure, CheckConfig, InitPrinter, OpenJob,
                  ConnectPrinter, SendJob, PrinterStatus, UnlinkData, ReplaceJob, Awake, PGoto
    <3>. QED
      BY <1>1, <2>1, <2>3, <2>4, <3>1, NothingPrinted
  <2>. QED
    BY <2>5, <2>6
<1>. QED
  BY <1>2, <1>3

LEMMA OnceRest ==
  ASSUME SInv, OnceOK, Start \/ Stop \/ Hangup \/ \E i \in JobIds : Qonstart(i)
  PROVE  OnceOK'
<1>1. CASE Start
  <2>1. done' = done /\ before' = Len(done)
    BY <1>1 DEF Start
  <2>2. done \in Seq(Clients)
    BY DEF SInv, TypeOK
  <2>3. Recent' = {}
    <3>. SUFFICES ASSUME NEW n \in Len(done) + 1 .. Len(done) PROVE FALSE
      BY <2>1 DEF Recent
    <3>1. Len(done) \in Nat
      BY <2>2
    <3>. QED
      BY <3>1
  <2>. QED
    BY <2>3 DEF OnceOK
<1>2. CASE Stop
  BY <1>2 DEF Stop, OnceOK
<1>3. CASE Hangup
  BY <1>3, NothingPrinted DEF Hangup, disk, daemon, client, printer, past
<1>4. ASSUME NEW i \in JobIds, Qonstart(i) PROVE OnceOK'
  <2>1. UNCHANGED <<done, before, up, cpc, id, job>> /\ (ppc' = ppc \/ ppc = "waiting")
    BY <1>4 DEF Qonstart, AddJob, client, past
  <2>2. \A k \in JobIds : req'[k] \in {req[k], NONE}
    BY <1>4 DEF Qonstart, SInv, TypeOK
  <2>3. \A c \in Clients : Sole(id[c]) => id[c] \in JobIds
    BY DEF Sole
  <2>. QED
    BY <2>1, <2>2, <2>3, NothingPrinted
<1>. QED
  BY <1>1, <1>2, <1>3, <1>4

LEMMA OnceNext ==
  ASSUME SInv, OnceOK, [Next]_vars
  PROVE  OnceOK'
<1>1. CASE UNCHANGED vars
  BY <1>1 DEF vars, OnceOK, Recent, Sole, Reused
<1>2. CASE Next
  BY <1>2, OnceClient, OncePrinter, OnceRest DEF Next
<1>. QED
  BY <1>1, <1>2

-----------------------------------------------------------------------------
\* Each step is one of PrintQueue

Abstract == <<up, Waiting, done, before>>

\* A new job goes to the end of the list; it is not there yet, and this
\* daemon has not printed it, if its number was given out once.
LEMMA Submits ==
  ASSUME QInv, QueueOK', TypeOK', up, NEW j \in Job, UNCHANGED <<up, done, before, job>>,
         queue' = Append(queue, j), ppc' = ppc \/ (ppc = "waiting" /\ ppc' = "get"),
         cpc[j.owner] \in Running \/ j.id \in scan, id[j.owner] = j.id,
         Sole(j.id) => req[j.id] = j.owner
  PROVE  FirstInFirstOut!Submit(j.owner) \/ OfReused
<1>. SUFFICES ASSUME Sole(j.id), req[j.id] = j.owner
              PROVE  FirstInFirstOut!Submit(j.owner)
  BY DEF OfReused, Sole, Job
<1>1. j.owner \in Clients /\ j.id \in JobIds
  BY DEF Job
<1>2. queue \in Seq(Job) /\ done \in Seq(Clients) /\ before \in 0 .. Len(done)
  BY DEF QInv, SInv, TypeOK
<1>3. Held' = Held /\ Held \in Seq(Clients)
  <2>1. Held' = Held
    BY DEF Held, QInv, SInv, DaemonOK
  <2>2. job = NoJob \/ job.owner \in Clients
    BY DEF QInv, SInv, TypeOK, Job
  <2>. QED
    BY <2>1, <2>2 DEF Held
<1>4. Waiting' = Append(Waiting, j.owner)
  <2>1. Owners(queue)' = Append(Owners(queue), j.owner) /\ Owners(queue) \in Seq(Clients)
    BY <1>2, OwnersAppend, OwnersType
  <2>2. Held \o Append(Owners(queue), j.owner) = Append(Held \o Owners(queue), j.owner)
    BY <1>1, <1>3, <2>1
  <2>. QED
    BY <1>3, <2>1, <2>2 DEF Waiting
<1>5. ASSUME NEW k \in Job, Spooled(k) PROVE k.owner # j.owner
  BY <1>1, <1>5 DEF Spooled
<1>6. Waiting \in Seq(Clients) /\ \A n \in 1 .. Len(Waiting) : Waiting[n] # j.owner
  <2>1. Owners(queue) \in Seq(Clients) /\ \A n \in 1 .. Len(Owners(queue)) : Owners(queue)[n] # j.owner
    <3>1. Owners(queue) \in Seq(Clients) /\ Len(Owners(queue)) = Len(queue)
      BY <1>2, OwnersType
    <3>2. ASSUME NEW n \in 1 .. Len(queue) PROVE Owners(queue)[n] # j.owner
      <4>1. queue[n] \in Job /\ Spooled(queue[n])
        BY <1>2 DEF QInv, SInv, QueueOK
      <4>2. Owners(queue)[n] = queue[n].owner
        BY <1>2, OwnersType
      <4>. QED
        BY <1>5, <4>1, <4>2
    <3>. QED
      BY <3>1, <3>2
  <2>2. \A n \in 1 .. Len(Held) : Held[n] # j.owner
    <3>1. job # NoJob => job.owner # j.owner
      BY <1>5 DEF QInv, SInv, TypeOK, JobOK
    <3>. QED
      BY <3>1 DEF Held
  <2>. QED
    BY <1>3, <2>1, <2>2 DEF Waiting
<1>7. j.owner \notin Recent
  <2>. SUFFICES ASSUME j.owner \in Recent PROVE FALSE
    OBVIOUS
  <2>1. cpc[j.owner] \notin Running
    BY DEF QInv, OnceOK
  <2>2. req[id[j.owner]] # NONE
    BY <1>1, PrintdAssumption
  <2>3. job.owner = j.owner /\ ppc \in {"unlink_data", "unlink_req"}
    BY <2>2 DEF QInv, OnceOK
  <2>4. job # NoJob
    BY <2>3 DEF QInv, SInv, DaemonOK
  <2>. QED
    BY <1>5, <2>3, <2>4 DEF QInv, SInv, TypeOK, JobOK
<1>8. LET S == SubSeq(done, before + 1, Len(done))
      IN  S \in Seq(Clients) /\ \A n \in 1 .. Len(S) : S[n] # j.owner
  <2>. DEFINE S == SubSeq(done, before + 1, Len(done))
  <2>1. /\ S \in Seq(Clients)
        /\ Len(S) = IF before + 1 <= Len(done) THEN Len(done) - before ELSE 0
        /\ \A n \in 1 .. Len(done) - before : S[n] = done[before + n]
    BY <1>2
  <2>2. ASSUME NEW n \in 1 .. Len(S) PROVE S[n] # j.owner
    <3>1. before + n \in before + 1 .. Len(done) /\ S[n] = done[before + n]
      BY <1>2, <2>1
    <3>. QED
      BY <1>7, <3>1 DEF Recent
  <2>. QED
    BY <2>1, <2>2
<1>9. j.owner \notin FirstInFirstOut!Range(Waiting \o SubSeq(done, before + 1, Len(done)))
  <2>. DEFINE S == SubSeq(done, before + 1, Len(done))
  <2>1. S \in Seq(Clients) /\ \A n \in 1 .. Len(S) : S[n] # j.owner
    BY <1>8
  <2>. HIDE DEF S
  <2>2. ASSUME NEW n \in DOMAIN (Waiting \o S) PROVE (Waiting \o S)[n] # j.owner
    <3>1. Waiting \in Seq(Clients) /\ Len(Waiting) \in Nat /\ Len(S) \in Nat
      BY <1>6, <2>1
    <3>2. DOMAIN (Waiting \o S) = 1 .. Len(Waiting) + Len(S)
      BY <2>1, <3>1
    <3>3. CASE n \in 1 .. Len(Waiting)
      <4>1. (Waiting \o S)[n] = Waiting[n]
        BY <2>1, <3>1, <3>3
      <4>. QED
        BY <1>6, <3>3, <4>1
    <3>4. CASE n \notin 1 .. Len(Waiting)
      <4>1. n - Len(Waiting) \in 1 .. Len(S) /\ (Waiting \o S)[n] = S[n - Len(Waiting)]
        BY <2>1, <2>2, <3>1, <3>2, <3>4
      <4>. QED
        BY <2>1, <4>1
    <3>. QED
      BY <3>3, <3>4
  <2>. QED
    BY <2>2 DEF FirstInFirstOut!Range, S
<1>. QED
  BY <1>4, <1>9 DEF FirstInFirstOut!Submit, Waiting

\* The step of a client thread: only add_job touches the list.
LEMMA ClientMaps ==
  ASSUME QInv, SInv', NEW c \in Clients, Connect(c) \/ ClientStep(c)
  PROVE  [FirstInFirstOut!Next \/ OfReused]_Abstract
<1>1. CASE Enqueue(c)
  <2>1. cpc[c] = "add" /\ id[c] \in JobIds /\ (Sole(id[c]) => req[id[c]] = c) /\ up
    <3>1. cpc[c] = "add" /\ cpc[c] \in Running \ Before
      BY <1>1 DEF Enqueue, Goto, Running, Before, ClientPoints
    <3>2. id[c] \in JobIds /\ up
      BY <3>1 DEF QInv, SInv, TypeOK, IdsOK, DaemonOK
    <3>3. Sole(id[c]) => req[id[c]] = c
      BY <3>1 DEF QInv, SInv, ThreadOK
    <3>. QED
      BY <3>1, <3>2, <3>3
  <2>2. PICK j \in Job : j.id = id[c] /\ j.owner = c /\ queue' = Append(queue, j)
    BY <1>1, <2>1 DEF Enqueue, AddJob, Job
  <2>3. UNCHANGED <<up, done, before, job>> /\ (ppc' = ppc \/ (ppc = "waiting" /\ ppc' = "get"))
    BY <1>1 DEF Enqueue, AddJob, daemon, past
  <2>4. cpc[j.owner] \in Running
    BY <2>1, <2>2 DEF Running, ClientPoints
  <2>. QED
    BY <2>1, <2>2, <2>3, <2>4, Submits DEF FirstInFirstOut!Next, SInv
<1>2. CASE ~Enqueue(c)
  <2>1. UNCHANGED <<up, queue, done, before, ppc, job>>
    BY <1>2 DEF Connect, ClientStep, ReadHeader, GetJobno, CreatData, ReadBuffer, ReadEnd, CreatReq, WriteReq,
                UnlinkReqFile, UnlinkDataFile, Reply, Elsewhere, daemon, printer, past
  <2>. QED
    BY <2>1 DEF Abstract, Waiting, Held
<1>. QED
  BY <1>1, <1>2

\* build_qonstart queues what it finds, one by one.
LEMMA QonstartMaps ==
  ASSUME QInv, SInv', NEW i \in JobIds, Qonstart(i)
  PROVE  [FirstInFirstOut!Next \/ OfReused]_Abstract
<1>1. up /\ i \in scan /\ UNCHANGED <<up, done, before, job>>
  BY DEF Qonstart, past
<1>2. CASE queue' = queue
  <2>1. Held' = Held
    BY <1>1 DEF Qonstart, AddJob, Held, QInv, SInv, DaemonOK
  <2>. QED
    BY <1>1, <1>2, <2>1 DEF Abstract, Waiting
<1>3. CASE queue' # queue
  <2>1. /\ req[i] \in Clients /\ queue' = Append(queue, [id |-> i, owner |-> req[i]])
        /\ ppc' = ppc \/ (ppc = "waiting" /\ ppc' = "get")
    BY <1>3 DEF Qonstart, AddJob
  <2>2. PICK j \in Job : j.id = i /\ j.owner = req[i] /\ queue' = Append(queue, j)
    BY <2>1 DEF Job
  <2>3. id[j.owner] = j.id
    BY <2>1, <2>2 DEF QInv, SInv, FileOK
  <2>. QED
    BY <1>1, <2>1, <2>2, <2>3, Submits DEF FirstInFirstOut!Next, SInv
<1>. QED
  BY <1>2, <1>3

\* The printer thread delivers or cancels the first job, or leaves the list
\* as it is, though the job goes from it to the thread and back.
LEMMA PrinterMaps ==
  ASSUME QInv, SInv', PrinterStep
  PROVE  [FirstInFirstOut!Next \/ OfReused]_Abstract
<1>1. UNCHANGED <<up, before>>
  BY DEF PrinterStep, PickUp, Wait, UpdateJobno, Reconfigure, CheckConfig, InitPrinter, OpenJob, ConnectPrinter,
         SendJob, PrinterStatus, UnlinkData, UnlinkReq, ReplaceJob, Awake, daemon, past
<1>2. /\ queue \in Seq(Job) /\ Owners(queue) \in Seq(Clients)
      /\ job # NoJob => job \in Job /\ job.owner \in Clients /\ Spooled(job) /\ job.id \in JobIds
      /\ job = NoJob <=> ppc \in {"get", "waiting", "sleep", "down"}
  <2>1. queue \in Seq(Job)
    BY DEF QInv, SInv, TypeOK
  <2>. QED
    BY <2>1, OwnersType DEF QInv, SInv, TypeOK, DaemonOK, JobOK, Job
<1>3. CASE PickUp
  <2>1. /\ queue # << >> /\ job = NoJob /\ job' = Head(queue) /\ queue' = Tail(queue)
        /\ ppc' = "update" /\ done' = done
    BY <1>2, <1>3 DEF PickUp, PGoto, past
  <2>2. Head(queue) \in Job /\ Head(queue) # NoJob
    <3>1. Head(queue) \in Job
      BY <1>2, <2>1
    <3>. QED
      BY <3>1 DEF Job, NoJob, JobIds
  <2>3. Held = << >> /\ Held' = <<Head(queue).owner>>
    BY <2>1, <2>2 DEF Held
  <2>4. Waiting' = Waiting
    BY <1>2, <2>1, <2>3, OwnersTail DEF Waiting
  <2>. QED
    BY <1>1, <2>1, <2>4 DEF Abstract
<1>4. CASE ReplaceJob
  <2>1. /\ ppc = "defer" /\ job # NoJob /\ job' = NoJob /\ queue' = <<job>> \o queue /\ done' = done
    BY <1>2, <1>4 DEF ReplaceJob, PGoto, past
  <2>2. Held = <<job.owner>> /\ Held' = << >>
    BY <2>1 DEF Held
  <2>3. Owners(queue)' = <<job.owner>> \o Owners(queue) /\ <<job.owner>> \o Owners(queue) \in Seq(Clients)
    <3>1. job \in Job /\ queue \in Seq(Job) /\ <<job.owner>> \in Seq(Clients)
      BY <1>2, <2>1
    <3>2. Owners(<<job>> \o queue) = <<job.owner>> \o Owners(queue)
      BY <3>1, OwnersCons
    <3>3. Owners(queue)' = Owners(<<job>> \o queue)
      BY <2>1
    <3>4. <<job.owner>> \o Owners(queue) \in Seq(Clients)
      BY <1>2, <3>1
    <3>. QED
      BY <3>2, <3>3, <3>4
  <2>4. Waiting' = Waiting
    BY <2>2, <2>3 DEF Waiting
  <2>. QED
    BY <1>1, <2>1, <2>4 DEF Abstract
\* The first job leaves the list.
<1>5. ASSUME job # NoJob, ppc \notin {"unlink_data", "unlink_req"}, queue' = queue, Held' = << >>
      PROVE  Waiting # << >> /\ Head(Waiting) = job.owner /\ Waiting' = Tail(Waiting)
  <2>1. Held = <<job.owner>>
    BY <1>5 DEF Held
  <2>2. Waiting = <<job.owner>> \o Owners(queue)
    BY <2>1 DEF Waiting
  <2>3. Waiting' = Owners(queue)
    BY <1>2, <1>5 DEF Waiting
  <2>. QED
    BY <1>2, <1>5, <2>2, <2>3
<1>6. CASE OpenJob /\ job' # job
  <2>1. ppc = "open" /\ job' = NoJob /\ UNCHANGED <<queue, done>>
    BY <1>6 DEF OpenJob, PGoto
  <2>2. Held' = << >>
    BY <2>1 DEF Held
  <2>3. FirstInFirstOut!Cancel
    BY <1>1, <1>2, <1>5, <2>1, <2>2 DEF FirstInFirstOut!Cancel, Waiting
  <2>. QED
    BY <2>3 DEF FirstInFirstOut!Next
<1>7. CASE PrinterStatus /\ ppc' = "unlink_data"
  <2>1. ppc = "status" /\ (\E c \in Sent : done' = Append(done, c)) /\ UNCHANGED <<queue, job>>
    BY <1>7 DEF PrinterStatus, PGoto
  <2>2. Held' = << >>
    BY <1>7 DEF Held
  <2>3. CASE Sole(job.id)
    <3>1. \A c \in Sent : c = job.owner
      BY <1>2, <2>1, <2>3, SentOwners DEF QInv
    <3>2. FirstInFirstOut!Deliver
      BY <1>1, <1>2, <1>5, <2>1, <2>2, <3>1 DEF FirstInFirstOut!Deliver, Waiting
    <3>. QED
      BY <3>2 DEF FirstInFirstOut!Next
  <2>4. CASE ~Sole(job.id)
    BY <1>2, <2>1, <2>4 DEF OfReused, Sole
  <2>. QED
    BY <2>3, <2>4
<1>8. CASE UnlinkReq
  <2>1. ppc = "unlink_req" /\ job' = NoJob /\ UNCHANGED <<queue, done>>
    BY <1>8 DEF UnlinkReq, PGoto, past
  <2>. QED
    BY <1>1, <2>1 DEF Abstract, Waiting, Held
<1>9. CASE ~(PickUp \/ ReplaceJob \/ (OpenJob /\ job' # job) \/ (PrinterStatus /\ ppc' = "unlink_data") \/ UnlinkReq)
  <2>1. UNCHANGED <<queue, job, done>>
    <3>1. CASE PrinterStatus
      BY <1>9, <3>1 DEF PrinterStatus, PGoto
    <3>2. CASE ~PrinterStatus
      BY <1>9, <3>2 DEF PrinterStep, Wait, UpdateJobno, Reconfigure, CheckConfig, InitPrinter, OpenJob, ConnectPrinter,
                        SendJob, UnlinkData, Awake, past
    <3>. QED
      BY <3>1, <3>2
  <2>2. ppc \in {"unlink_data", "unlink_req"} <=> ppc' \in {"unlink_data", "unlink_req"}
    <3>1. CASE PrinterStatus
      BY <1>9, <3>1 DEF PrinterStatus, PGoto
    <3>2. CASE ~PrinterStatus
      BY <1>9, <3>2 DEF PrinterStep, Wait, UpdateJobno, Reconfigure, CheckConfig, InitPrinter, OpenJob, ConnectPrinter,
                        SendJob, UnlinkData, Awake, PGoto
    <3>. QED
      BY <3>1, <3>2
  <2>. QED
    BY <1>1, <2>1, <2>2 DEF Abstract, Waiting, Held
<1>. QED
  BY <1>3, <1>4, <1>6, <1>7, <1>8, <1>9

LEMMA StepMaps ==
  ASSUME QInv, SInv', [Next]_vars
  PROVE  [FirstInFirstOut!Next \/ OfReused]_Abstract
<1>1. CASE UNCHANGED vars
  BY <1>1 DEF vars, Abstract, Waiting, Held
<1>2. CASE Start
  <2>1. /\ ~up /\ up' = TRUE /\ before' = Len(done) /\ UNCHANGED <<queue, job, done>>
        /\ ppc = "down" /\ ppc' = "get"
    BY <1>2 DEF Start, QInv, SInv, DaemonOK
  <2>2. Held \o Owners(queue) = (Held \o Owners(queue))'
    BY <2>1 DEF Held
  <2>3. FirstInFirstOut!Start
    BY <2>1, <2>2 DEF FirstInFirstOut!Start
  <2>. QED
    BY <2>3 DEF FirstInFirstOut!Next
<1>3. CASE Stop
  <2>1. up /\ up' = FALSE /\ queue' = << >> /\ job' = NoJob /\ UNCHANGED <<done, before>>
    BY <1>3 DEF Stop, past
  <2>2. Held' = << >> /\ Owners(queue)' = << >>
    <3>1. << >> \in Seq(Job)
      OBVIOUS
    <3>2. Owners(<< >>) \in Seq(Clients) /\ Len(Owners(<< >>)) = 0
      BY <3>1, OwnersType
    <3>. QED
      BY <2>1, <3>2 DEF Held
  <2>3. FirstInFirstOut!Stop
    BY <2>1, <2>2 DEF FirstInFirstOut!Stop
  <2>. QED
    BY <2>3 DEF FirstInFirstOut!Next
<1>4. CASE Hangup
  BY <1>4 DEF Hangup, daemon, printer, past, Abstract, Waiting, Held
<1>5. CASE PrinterStep
  BY <1>5, PrinterMaps
<1>6. CASE \E i \in JobIds : Qonstart(i)
  BY <1>6, QonstartMaps
<1>7. CASE \E c \in Clients : Connect(c) \/ ClientStep(c)
  BY <1>7, ClientMaps
<1>. QED
  BY <1>1, <1>2, <1>3, <1>4, <1>5, <1>6, <1>7 DEF Next

\* The spooler implements the queue: the order of the list is kept, through
\* deferrals and whatever the client threads and build_qonstart add, and a
\* job is printed again only by another daemon.  A job whose number was given
\* out twice keeps its place too, but may be printed with other data.
THEOREM Fifo == Spec => IsFifo
<1>1. Init => QInv
  <2>1. Init => OnceOK
    BY DEF Init, OnceOK
  <2>. QED
    BY <2>1, InitSInv DEF QInv
<1>2. QInv /\ [Next]_vars => QInv'
  BY NextSInv, OnceNext DEF QInv
<1>3. Init => FirstInFirstOut!Init
  <2>. SUFFICES ASSUME Init PROVE FirstInFirstOut!Init
    OBVIOUS
  <2>1. up = FALSE /\ done = << >> /\ before = 0 /\ queue = << >> /\ job = NoJob
    BY DEF Init
  <2>2. Held = << >> /\ Owners(queue) = << >>
    <3>1. << >> \in Seq(Job)
      OBVIOUS
    <3>2. Owners(<< >>) \in Seq(Clients) /\ Len(Owners(<< >>)) = 0
      BY <3>1, OwnersType
    <3>. QED
      BY <2>1, <3>2 DEF Held
  <2>. QED
    BY <2>1, <2>2 DEF FirstInFirstOut!Init
<1>4. QInv /\ QInv' /\ [Next]_vars => [FirstInFirstOut!Next \/ OfReused]_Abstract
  BY StepMaps DEF QInv
<1>5. [FirstInFirstOut!Next \/ OfReused]_Abstract => [FirstInFirstOut!Next \/ OfReused]_Spooler
  BY DEF Abstract, Waiting, Spooler
<1>. QED
  BY <1>1, <1>2, <1>3, <1>4, <1>5, PTL DEF Spec, IsFifo
=============================================================================
