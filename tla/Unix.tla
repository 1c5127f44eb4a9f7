-------------------------------- MODULE Unix --------------------------------
(***************************************************************************)
(* The kernel and C library that the programs under src/ run on, as far as *)
(* they use it: processes, descriptors and pipes, stdio buffers, signals,  *)
(* threads, record locks, sockets.  None of it is under src/: each         *)
(* definition is modelled from how the programs call it.                   *)
(*                                                                         *)
(* A program is a sequence of statements, written with the constructors of *)
(* module Calls; a task (a thread of a process) carries the statements it  *)
(* has still to execute.  A statement is one atomic call, so two tasks can *)
(* be interleaved between any two calls, and a signal can be delivered     *)
(* there or inside a call that blocks.  Values are small integers, what is *)
(* written and read is one string per write.                               *)
(***************************************************************************)
EXTENDS Integers, Sequences, FiniteSets, FiniteSetsExt, TLC, Calls

CONSTANTS Programs,  \* the programs, by name: what is started and promised
          PROCS,     \* bound: processes of one program, dead ones included
          TASKS,     \* bound: threads alive at one time
          PIPE_CAP   \* bound: writes that fit in a pipe before write blocks

ASSUME BoundsAssumption ==
  /\ PROCS \in Nat \ {0}
  /\ TASKS \in Nat \ {0}
  /\ PIPE_CAP \in Nat \ {0}

VARIABLES prog,   \* the program that is run
          tty,    \* standard output is a terminal (else a file)
          task,   \* the threads
          proc,   \* the processes
          pipe,   \* the contents of pipes and sockets; pipe[TTY] is typed input
          port,   \* listening sockets: name -> ends of connections to accept
          lock,   \* record locks held
          disk,   \* shared memory and file contents: name -> integer
          term,   \* what has reached standard output's terminal or file
          keys,   \* signals the user or the operator may still send
          failed  \* a call was made to fail

vars == <<prog, tty, task, proc, pipe, port, lock, disk, term, keys, failed>>

TTY   == 1            \* the index in pipe of the terminal
NoEnd == <<0, 0>>     \* an end of a pipe is <<read from, write to>>

(* The number exit status and wait report for a signal, negated.           *)
SigNo == [HUP |-> 1, INT |-> 2, QUIT |-> 3, ABRT |-> 6, FPE |-> 8, KILL |-> 9,
          USR1 |-> 10, USR2 |-> 12, PIPE |-> 13, ALRM |-> 14, TERM |-> 15,
          CHLD |-> 17, TSTP |-> 20, URG |-> 23]

NoTask == [st |-> "free", p |-> 0, code |-> <<>>, mask |-> {}, got |-> "", on |-> ""]
NoProc == [st |-> "free", up |-> 0, status |-> 0, fd |-> <<>>, mem |-> <<>>,
           act |-> <<>>, pend |-> {}, alarm |-> FALSE, vf |-> FALSE,
           out |-> <<>>, jmp |-> <<>>]

-----------------------------------------------------------------------------
(* The task that executes a statement, and what it sees.                   *)

Live(p)      == proc[p].st = "live"
Suspended(p) == \E q \in DOMAIN proc : Live(q) /\ proc[q].vf /\ proc[q].up = p
Runs(t)      == /\ task[t].st = "run" /\ task[t].on = "" /\ task[t].code # <<>>
                /\ Live(task[t].p) /\ ~Suspended(task[t].p)
Now(t)       == Head(task[t].code)
Rest(t)      == Tail(task[t].code)
P(t)         == task[t].p
At(t, ops)   == Runs(t) /\ Now(t).op \in ops
Then(t, code) == [task EXCEPT ![t].code = code]

Val(t, x) == IF x \in DOMAIN disk THEN disk[x]
             ELSE IF x \in DOMAIN proc[P(t)].mem THEN proc[P(t)].mem[x] ELSE 0
Put(p, x, n) == [proc EXCEPT ![p].mem = (x :> n) @@ @]
Store(t, x, n) ==
  IF x \in DOMAIN disk THEN disk' = [disk EXCEPT ![x] = n] /\ UNCHANGED proc
                       ELSE proc' = Put(P(t), x, n) /\ UNCHANGED disk
Fd(t, d)     == IF d \in DOMAIN proc[P(t)].fd THEN proc[P(t)].fd[d] ELSE NoEnd

Listening(s) == \E p \in DOMAIN proc : Live(p) /\ s \in DOMAIN proc[p].fd

(* The ends that somebody holds, or that are on their way in a message.    *)
EndsHeld == UNION {{proc[p].fd[d] : d \in DOMAIN proc[p].fd} : p \in {q \in DOMAIN proc : Live(q)}}
            \cup UNION {{pipe[q][i].e : i \in DOMAIN pipe[q]} : q \in DOMAIN pipe}
            \cup UNION {{port[s][i] : i \in DOMAIN port[s]} : s \in {n \in DOMAIN port : Listening(n)}}
Readers(q) == q = TTY \/ \E e \in EndsHeld : e[1] = q
Writers(q) == IF q = TTY THEN Programs[prog].hold ELSE \E e \in EndsHeld : e[2] = q

-----------------------------------------------------------------------------
(* Signals and the end of a process.                                       *)

Disp(r, s) == IF s \in DOMAIN r.act THEN r.act[s] ELSE Default
Ignored(r, s) == Disp(r, s).k = "ign" \/ (Disp(r, s).k = "dfl" /\ s \in {"CHLD", "URG"})
Signalled(pr, p, s) ==
  IF p = 0 \/ pr[p].st # "live" \/ Ignored(pr[p], s) THEN pr
  ELSE [pr EXCEPT ![p].pend = @ \cup {s}]

(* The processes after p has ended: its children go to init, which reaps   *)
(* them; a vfork parent sees what the child stored; SIGCHLD is sent.       *)
Ended(p, n) ==
  LET up == proc[p].up
      pr == [q \in DOMAIN proc |->
               CASE q = p -> [proc[p] EXCEPT !.st = IF up = 0 THEN "gone" ELSE "zombie",
                                             !.status = n, !.fd = <<>>, !.pend = {},
                                             !.alarm = FALSE, !.out = <<>>, !.jmp = <<>>]
                 [] proc[q].up = p /\ proc[q].st = "zombie" ->
                      [proc[q] EXCEPT !.up = 0, !.st = "gone"]
                 [] proc[q].up = p /\ proc[q].st = "stopped" ->  \* orphaned group
                      [proc[q] EXCEPT !.up = 0, !.st = "live", !.pend = @ \cup {"HUP"}]
                 [] proc[q].up = p /\ proc[q].st = "live" -> [proc[q] EXCEPT !.up = 0]
                 [] q = up /\ proc[p].vf -> [proc[q] EXCEPT !.mem = proc[p].mem]
                 [] OTHER -> proc[q]]
  IN  Signalled(pr, up, "CHLD")

Orphan(p) == proc[p].up = 0 /\ p \notin DOMAIN Programs[prog].roots
End(p, n) == /\ proc' = Ended(p, n)
             /\ task' = [u \in DOMAIN task |-> IF task[u].p = p THEN NoTask ELSE task[u]]
             /\ lock' = {l \in lock : l.p # p}

(* Task t takes signal s: the handler runs under mask m, then the code     *)
(* `after` under mask back.                                                *)
Take(t, s, after, m, back) ==
  LET d == Disp(proc[P(t)], s)
  IN  \/ /\ d.k = "fn"
         /\ proc' = [proc EXCEPT ![P(t)].pend = @ \ {s}]
         /\ task' = [task EXCEPT ![t].code = d.code \o <<SigReturn(back)>> \o after,
                                 ![t].mask = m \cup {s}]
         /\ UNCHANGED lock
      \/ /\ d.k = "dfl" /\ s = "TSTP"          \* does not stop an orphaned group
         /\ proc' = [proc EXCEPT ![P(t)].pend = @ \ {s},
                                 ![P(t)].st = IF Orphan(P(t)) THEN @ ELSE "stopped"]
         /\ task' = [task EXCEPT ![t].code = <<SigReturn(back)>> \o after]
         /\ UNCHANGED lock
      \/ /\ d.k = "dfl" /\ s # "TSTP"
         /\ End(P(t), -SigNo[s])

-----------------------------------------------------------------------------
(* Variables and control.                                                  *)

Assign(t) ==
  /\ Now(t).op \in {"set", "add", "getpid"}
  /\ Store(t, Now(t).x, CASE Now(t).op = "set"    -> Now(t).n
                          [] Now(t).op = "add"    -> Val(t, Now(t).x) + Now(t).n
                          [] Now(t).op = "getpid" -> P(t))
  /\ task' = Then(t, Rest(t))
  /\ UNCHANGED <<pipe, port, lock, term, keys, failed>>

Holds(t) == CASE Now(t).y = "="   -> Val(t, Now(t).x) = Now(t).n
              [] Now(t).y = ">"   -> Val(t, Now(t).x) > Now(t).n
              [] Now(t).y = "got" -> task[t].got = Now(t).x
Branch(t) ==
  /\ Now(t).op \in {"if", "while"}
  /\ task' = Then(t, IF Holds(t)
                     THEN Now(t).a \o (IF Now(t).op = "while" THEN task[t].code ELSE Rest(t))
                     ELSE Now(t).b \o Rest(t))
  /\ UNCHANGED <<proc, pipe, port, lock, disk, term, keys, failed>>

(* A call whose outcome the program does not determine.                    *)
Choose(t) ==
  /\ Now(t).op = "either"
  /\ \/ task' = Then(t, Now(t).a \o Rest(t))
     \/ task' = Then(t, Now(t).b \o Rest(t))
  /\ UNCHANGED <<proc, pipe, port, lock, disk, term, keys, failed>>

(* sleep, and any computation that takes time; with n = 1, more time than  *)
(* the alarm clock has been set to.                                        *)
Pass(t) ==
  /\ Now(t).op = "sleep"
  /\ Now(t).n = 1 => ~proc[P(t)].alarm /\ "ALRM" \notin proc[P(t)].pend \ task[t].mask
  /\ task' = Then(t, Rest(t))
  /\ UNCHANGED <<proc, pipe, port, lock, disk, term, keys, failed>>

Jump(t) ==
  /\ \/ /\ Now(t).op = "setjmp"
        /\ proc' = [proc EXCEPT ![P(t)].jmp =
                      (Now(t).x :> [code |-> Now(t).a \o Rest(t), mask |-> task[t].mask]) @@ @]
        /\ task' = Then(t, Now(t).b \o Rest(t))
     \/ /\ Now(t).op \in {"longjmp", "siglongjmp"}
        /\ task' = [task EXCEPT ![t].code = proc[P(t)].jmp[Now(t).x].code,
                                ![t].mask = IF Now(t).op = "longjmp" THEN @
                                            ELSE proc[P(t)].jmp[Now(t).x].mask]
        /\ UNCHANGED proc
  /\ UNCHANGED <<pipe, port, lock, disk, term, keys, failed>>

-----------------------------------------------------------------------------
(* Descriptors, pipes and stdio.                                           *)

MakePipe(t) ==
  /\ Now(t).op \in {"pipe", "spipe"}
  /\ LET q == Len(pipe) + 1
         d == Now(t).x
         ends == IF Now(t).op = "pipe" THEN << <<q, 0>>, <<0, q>> >>
                                       ELSE << <<q, q + 1>>, <<q + 1, q>> >>
     IN  /\ pipe' = pipe \o (IF Now(t).op = "pipe" THEN << <<>> >> ELSE << <<>>, <<>> >>)
         /\ proc' = [proc EXCEPT ![P(t)].fd =
                       (d \o "[0]" :> ends[1]) @@ (d \o "[1]" :> ends[2]) @@ @]
  /\ task' = Then(t, Now(t).a \o Rest(t))
  /\ UNCHANGED <<port, lock, disk, term, keys, failed>>

CloseFd(t) ==
  /\ Now(t).op \in {"close", "dup2"}
  /\ LET f == proc[P(t)].fd
     IN  proc' = [proc EXCEPT ![P(t)].fd =
                    IF Now(t).op = "dup2" THEN (Now(t).y :> Fd(t, Now(t).x)) @@ f
                    ELSE [d \in DOMAIN f \ {Now(t).x} |-> f[d]]]
  /\ task' = Then(t, Rest(t))
  /\ UNCHANGED <<pipe, port, lock, disk, term, keys, failed>>

(* A message, and the descriptor sent with it, is taken; end of file when  *)
(* nothing is left and no writer is.                                       *)
ReadFd(t) ==
  /\ Now(t).op \in {"read", "whileread"}
  /\ LET q == Fd(t, Now(t).x)[1]
         loop == IF Now(t).op = "whileread" THEN task[t].code ELSE Rest(t)
     IN  \/ /\ pipe[q] # <<>>
            /\ LET m == Head(pipe[q]) IN
               /\ task' = [task EXCEPT ![t].code = Now(t).a \o loop, ![t].got = m.v]
               /\ proc' = IF Now(t).y = "" \/ m.e = NoEnd THEN proc
                          ELSE [proc EXCEPT ![P(t)].fd = (Now(t).y :> m.e) @@ @]
            /\ pipe' = [pipe EXCEPT ![q] = Tail(@)]
         \/ /\ pipe[q] = <<>> /\ ~Writers(q)
            /\ task' = Then(t, Now(t).b \o Rest(t))
            /\ UNCHANGED <<proc, pipe>>
  /\ UNCHANGED <<port, lock, disk, term, keys, failed>>

(* pr_mask of lib/prmask.c prints the signals the task has blocked.        *)
Blocking(t, s) == IF s \in task[t].mask THEN " " \o s ELSE ""
Text(t) == CASE Now(t).op = "prmask" -> Now(t).v \o Blocking(t, "INT") \o Blocking(t, "QUIT")
                                        \o Blocking(t, "USR1") \o Blocking(t, "ALRM")
             [] Now(t).x # "" /\ Now(t).op = "printf" -> Now(t).v \o ToString(Val(t, Now(t).x))
             [] Now(t).v = "$" -> task[t].got
             [] OTHER -> Now(t).v
WriteFd(t) ==
  /\ Now(t).op \in {"write", "writenb"}
  /\ LET q == Fd(t, Now(t).x)[2]
         m == [v |-> Text(t), e |-> IF Now(t).y = "" THEN NoEnd ELSE Fd(t, Now(t).y)]
     IN  \/ /\ q = TTY
            /\ term' = Append(term, Text(t))
            /\ task' = Then(t, Rest(t))
            /\ UNCHANGED <<proc, lock, pipe>>
         \/ /\ q # TTY /\ Readers(q) /\ Len(pipe[q]) < PIPE_CAP
            /\ pipe' = [pipe EXCEPT ![q] = Append(@, m)]
            /\ task' = Then(t, Rest(t))
            /\ UNCHANGED <<proc, lock, term>>
         \/ /\ Now(t).op = "writenb" /\ q # TTY /\ Readers(q) /\ Len(pipe[q]) = PIPE_CAP
            /\ task' = Then(t, Now(t).c \o Rest(t))                       \* EAGAIN
            /\ UNCHANGED <<proc, lock, pipe, term>>
         \/ /\ q # TTY /\ ~Readers(q)          \* EPIPE, and SIGPIPE, which nobody ignores
            /\ Take(t, "PIPE", Now(t).c \o Rest(t), task[t].mask, task[t].mask)
            /\ UNCHANGED <<pipe, term>>
  /\ UNCHANGED <<port, disk, keys, failed>>

(* stdout is line buffered on a terminal, fully buffered otherwise: then   *)
(* the text leaves the process with fflush or exit.                        *)
DoPrintf(t) ==
  /\ Now(t).op \in {"printf", "prmask"}
  /\ IF tty /\ Fd(t, "1")[2] = TTY
     THEN term' = Append(term, Text(t)) /\ UNCHANGED proc
     ELSE proc' = [proc EXCEPT ![P(t)].out = Append(@, Text(t))] /\ UNCHANGED term
  /\ task' = Then(t, Rest(t))
  /\ UNCHANGED <<pipe, port, lock, disk, keys, failed>>

Drained(p) ==
  LET q == IF "1" \in DOMAIN proc[p].fd THEN proc[p].fd["1"][2] ELSE 0
      out == proc[p].out
  IN  /\ term' = IF q = TTY THEN term \o out ELSE term
      /\ pipe' = IF q > TTY /\ Readers(q)
                 THEN [pipe EXCEPT ![q] = @ \o [i \in DOMAIN out |-> [v |-> out[i], e |-> NoEnd]]]
                 ELSE pipe
Flush(t) ==
  /\ Now(t).op = "fflush"
  /\ Drained(P(t))
  /\ proc' = [proc EXCEPT ![P(t)].out = <<>>]
  /\ task' = Then(t, Rest(t))
  /\ UNCHANGED <<port, lock, disk, keys, failed>>

-----------------------------------------------------------------------------
(* Processes.                                                              *)

(* A new process or thread waits until fewer than TASKS threads are alive, *)
(* a new process also until there have been fewer than PROCS processes.    *)
Room == \E u \in DOMAIN task : task[u].st = "free"

DoFork(t) ==
  /\ Now(t).op \in {"fork", "vfork"}
  /\ Room /\ \E r \in DOMAIN proc : proc[r].st = "free"
  /\ LET p == P(t)
         q == Min({r \in DOMAIN proc : proc[r].st = "free"})
         u == Min({r \in DOMAIN task : task[r].st = "free"})
     IN  /\ proc' = [proc EXCEPT ![q] = [proc[p] EXCEPT !.up = p, !.pend = {}, !.alarm = FALSE,
                                           !.vf = Now(t).op = "vfork", !.status = 0],
                                 ![p].mem = (Now(t).x :> q) @@ @]
         /\ task' = [task EXCEPT ![u] = [task[t] EXCEPT !.p = q, !.code = Now(t).a \o Rest(t)],
                                 ![t].code = Now(t).b \o Rest(t)]
  /\ UNCHANGED <<pipe, port, lock, disk, term, keys, failed>>

DoExec(t) ==
  /\ Now(t).op = "exec"
  /\ task' = Then(t, Now(t).a)
  /\ proc' = LET r == proc[P(t)] IN
             [proc EXCEPT ![P(t)] = [r EXCEPT !.mem = <<>>, !.out = <<>>, !.jmp = <<>>, !.vf = FALSE,
                !.act = [s \in {i \in DOMAIN r.act : r.act[i].k = "ign"} |-> r.act[s]],
                !.fd = [d \in {e \in DOMAIN r.fd : e \notin Now(t).s} |-> r.fd[d]]]]
  /\ UNCHANGED <<pipe, port, lock, disk, term, keys, failed>>

DoExit(t) ==
  /\ Now(t).op \in {"exit", "_exit"}
  /\ IF Now(t).op = "exit" THEN Drained(P(t)) ELSE UNCHANGED <<term, pipe>>
  /\ End(P(t), Now(t).n)
  /\ UNCHANGED <<port, disk, keys, failed>>

Child(t, q) == /\ proc[q].up = P(t) /\ proc[q].st \in {"live", "zombie", "stopped"}
               /\ Now(t).op = "wait" \/ q = Val(t, Now(t).x)
DoWait(t) ==
  /\ Now(t).op \in {"wait", "waitpid"}
  /\ \/ \E q \in DOMAIN proc :
          /\ Child(t, q) /\ proc[q].st = "zombie"
          /\ proc' = [proc EXCEPT ![q].st = "gone",
                                  ![P(t)].mem = (Now(t).y :> proc[q].status) @@ (Now(t).x :> q) @@ @]
          /\ task' = Then(t, Now(t).a \o Rest(t))
     \/ /\ ~\E q \in DOMAIN proc : Child(t, q)      \* ECHILD
        /\ task' = Then(t, Now(t).b \o Rest(t))
        /\ UNCHANGED proc
  /\ UNCHANGED <<pipe, port, lock, disk, term, keys, failed>>

-----------------------------------------------------------------------------
(* Signals.                                                                *)

Target(t, x) == CASE x = "self" -> P(t) [] x = "parent" -> proc[P(t)].up [] OTHER -> Val(t, x)
DoKill(t) ==
  /\ Now(t).op = "kill"
  /\ IF Target(t, Now(t).x) = P(t) /\ Now(t).y \notin task[t].mask /\ ~Ignored(proc[P(t)], Now(t).y)
     THEN Take(t, Now(t).y, Rest(t), task[t].mask, task[t].mask)   \* before kill returns
     ELSE /\ proc' = Signalled(proc, Target(t, Now(t).x), Now(t).y)
          /\ task' = Then(t, Rest(t))
          /\ UNCHANGED lock
  /\ UNCHANGED <<pipe, port, disk, term, keys, failed>>

(* sigaction: a pending signal that becomes ignored is discarded.          *)
Action(t) ==
  /\ Now(t).op = "sigaction"
  /\ LET h == [k |-> Now(t).x, code |-> Now(t).a, restart |-> Now(t).n = 1]
         act == proc[P(t)].act
         r == [proc[P(t)] EXCEPT !.act = [s \in DOMAIN act \cup {Now(t).y} |->
                                            IF s = Now(t).y THEN h ELSE act[s]]]
     IN  proc' = [proc EXCEPT ![P(t)] = [r EXCEPT !.pend = {s \in @ : ~Ignored(r, s)}]]
  /\ task' = Then(t, Rest(t))
  /\ UNCHANGED <<pipe, port, lock, disk, term, keys, failed>>

(* A pending signal that is unblocked is delivered before the call returns.*)
Mask(t) ==
  /\ Now(t).op \in {"block", "unblock", "setmask"}
  /\ LET m == CASE Now(t).op = "block"   -> task[t].mask \cup Now(t).s
                [] Now(t).op = "unblock" -> task[t].mask \ Now(t).s
                [] Now(t).op = "setmask" -> Now(t).s
     IN  \/ /\ proc[P(t)].pend \subseteq m
            /\ task' = [task EXCEPT ![t].code = Rest(t), ![t].mask = m]
            /\ UNCHANGED <<proc, lock>>
         \/ \E s \in proc[P(t)].pend \ m : Take(t, s, Rest(t), m, m)
  /\ UNCHANGED <<pipe, port, disk, term, keys, failed>>

DoAlarm(t) ==
  /\ Now(t).op = "alarm"
  /\ proc' = [Put(P(t), Now(t).x, IF proc[P(t)].alarm THEN 1 ELSE 0)
                EXCEPT ![P(t)].alarm = Now(t).n > 0]
  /\ task' = Then(t, Rest(t))
  /\ UNCHANGED <<pipe, port, lock, disk, term, keys, failed>>

Pending(t) ==
  /\ Now(t).op = "sigpending"
  /\ task' = Then(t, (IF Now(t).y \in proc[P(t)].pend THEN Now(t).a ELSE <<>>) \o Rest(t))
  /\ UNCHANGED <<proc, pipe, port, lock, disk, term, keys, failed>>

DoSigWait(t) ==
  /\ Now(t).op = "sigwait"
  /\ \E s \in proc[P(t)].pend \cap Now(t).s :
       /\ proc' = [proc EXCEPT ![P(t)].pend = @ \ {s}]
       /\ task' = [task EXCEPT ![t].code = Rest(t), ![t].got = s]
  /\ UNCHANGED <<pipe, port, lock, disk, term, keys, failed>>

Conflict(t) == {l \in lock : /\ l.p # P(t) /\ l.x = Now(t).x
                             /\ l.y = "w" \/ Now(t).y = "w"}

(* The call that t is in cannot return yet.                                *)
Blocked(t) ==
  LET c == Now(t) IN
  CASE c.op \in {"read", "whileread"} -> LET q == Fd(t, c.x)[1] IN pipe[q] = <<>> /\ Writers(q)
    [] c.op \in {"wait", "waitpid"} -> /\ \E q \in DOMAIN proc : Child(t, q)
                                       /\ \A q \in DOMAIN proc : Child(t, q) => proc[q].st # "zombie"
    [] c.op = "setlkw" -> Conflict(t) # {}
    [] c.op = "accept" -> port[c.y] = <<>>
    [] c.op \in {"pause", "sigsuspend"} -> TRUE
    [] OTHER -> FALSE

(* A signal is delivered before the task makes its next call ...           *)
Deliver(t) ==
  /\ \E s \in proc[P(t)].pend \ task[t].mask : Take(t, s, task[t].code, task[t].mask, task[t].mask)
  /\ UNCHANGED <<pipe, port, disk, term, keys, failed>>

(* ... or while it is inside a call that blocks, which then fails with     *)
(* EINTR unless the handler was installed with SA_RESTART; a process that  *)
(* was stopped there waits on when it continues.                           *)
Interrupt(t) ==
  /\ Blocked(t)
  /\ LET c == Now(t)
         m == IF c.op = "sigsuspend" THEN c.s ELSE task[t].mask
     IN  \E s \in proc[P(t)].pend \ m :
           Take(t, s, IF \/ Disp(proc[P(t)], s).k = "dfl"
                         \/ c.op \notin {"pause", "sigsuspend"} /\ Disp(proc[P(t)], s).restart
                      THEN task[t].code ELSE c.c \o Rest(t), m, task[t].mask)
  /\ UNCHANGED <<pipe, port, disk, term, keys, failed>>

Ring(p) ==
  /\ Live(p) /\ proc[p].alarm
  /\ proc' = Signalled([proc EXCEPT ![p].alarm = FALSE], p, "ALRM")
  /\ UNCHANGED <<task, pipe, port, lock, disk, term, keys, failed>>

(* The user types a line, an interrupt, quit or stop key, or an operator   *)
(* sends a signal, in the order of keys; every process of the program is   *)
(* in the foreground group.  In raw mode the keys are characters.          *)
RAW == 2
Mode == IF "mode" \in DOMAIN disk THEN disk["mode"] ELSE 0
AsCharacter == Head(keys) \in {"line", "DEL"} \/ (Mode = RAW /\ Head(keys) \in {"INT", "QUIT", "TSTP"})
Press ==
  /\ keys # <<>>
  /\ keys' = Tail(keys)
  /\ \/ /\ AsCharacter
        /\ pipe' = [pipe EXCEPT ![TTY] = Append(@, [v |-> Head(keys), e |-> NoEnd])]
        /\ UNCHANGED proc
     \/ /\ Head(keys) = "CONT"
        /\ proc' = [p \in DOMAIN proc |-> IF proc[p].st = "stopped"
                                          THEN [proc[p] EXCEPT !.st = "live"] ELSE proc[p]]
        /\ UNCHANGED pipe
     \/ /\ Head(keys) \in DOMAIN SigNo /\ ~AsCharacter
        /\ proc' = [p \in DOMAIN proc |-> Signalled(proc, p, Head(keys))[p]]
        /\ UNCHANGED pipe
  /\ UNCHANGED <<task, port, lock, disk, term, failed>>

(* tcsetattr with TCSAFLUSH: what was typed before is thrown away.         *)
SetTerminal(t) ==
  /\ Now(t).op = "tcsetattr"
  /\ disk' = [disk EXCEPT !["mode"] = Now(t).n]
  /\ pipe' = [pipe EXCEPT ![TTY] = <<>>]
  /\ task' = Then(t, Rest(t))
  /\ UNCHANGED <<proc, port, lock, term, keys, failed>>

-----------------------------------------------------------------------------
(* Threads: a mutex holds the task that locked it, a recursive one how     *)
(* often.                                                                  *)

DoCreate(t) ==
  /\ Now(t).op = "create"
  /\ Room
  /\ LET u == Min({r \in DOMAIN task : task[r].st = "free"})
     IN  /\ task' = [task EXCEPT ![u] = [task[t] EXCEPT !.code = Now(t).a],
                                 ![t].code = Rest(t)]
         /\ proc' = Put(P(t), Now(t).x, u)
  /\ UNCHANGED <<pipe, port, lock, disk, term, keys, failed>>

DoThreadExit(t) ==
  /\ Now(t).op = "texit"
  /\ task' = [task EXCEPT ![t].st = "done", ![t].code = <<>>]
  /\ UNCHANGED <<proc, pipe, port, lock, disk, term, keys, failed>>

DoJoin(t) ==
  /\ Now(t).op = "join"
  /\ LET u == Val(t, Now(t).x)
     IN  /\ task[u].st = "done"
         /\ task' = [task EXCEPT ![u] = NoTask, ![t].code = Rest(t)]
  /\ UNCHANGED <<proc, pipe, port, lock, disk, term, keys, failed>>

MutexOwner(v) == IF v = 0 THEN 0 ELSE ((v - 1) % TASKS) + 1    \* v: owner and depth
Mutex(t) ==
  /\ LET v == Val(t, Now(t).x) IN
     \/ /\ Now(t).op = "lock"
        /\ v = 0 \/ (Now(t).n = 1 /\ MutexOwner(v) = t)
        /\ Store(t, Now(t).x, IF v = 0 THEN t ELSE v + TASKS)
        /\ task' = Then(t, Rest(t))
     \/ /\ Now(t).op = "unlock"
        /\ Store(t, Now(t).x, IF v > TASKS THEN v - TASKS ELSE 0)
        /\ task' = Then(t, Rest(t))
     \/ /\ Now(t).op = "timedlock"
        /\ v # 0                                            \* ETIMEDOUT
        /\ task' = Then(t, Now(t).c \o Rest(t))
        /\ UNCHANGED <<proc, disk>>
  /\ UNCHANGED <<pipe, port, lock, term, keys, failed>>

DoCondWait(t) ==
  /\ Now(t).op = "cwait"
  /\ Store(t, Now(t).y, 0)
  /\ task' = [task EXCEPT ![t].code = <<Lock(Now(t).y)>> \o Rest(t), ![t].on = Now(t).x]
  /\ UNCHANGED <<pipe, port, lock, term, keys, failed>>

Waiters(t, c) == {u \in DOMAIN task : task[u].p = P(t) /\ task[u].on = c}
DoCondSignal(t) ==
  /\ Now(t).op = "csignal"
  /\ \E u \in IF Waiters(t, Now(t).x) = {} THEN {t} ELSE Waiters(t, Now(t).x) :
       task' = [Then(t, Rest(t)) EXCEPT ![u].on = ""]
  /\ UNCHANGED <<proc, pipe, port, lock, disk, term, keys, failed>>

(* pthread_cond_wait may return although nobody signalled: once per thread *)
(* (a bound), since it does not keep on doing so.                          *)
Spurious(t) ==
  /\ task[t].on # "" /\ task[t].code # <<>> /\ Head(task[t].code).op = "lock"
  /\ task[t].got # "woken"
  /\ task' = [task EXCEPT ![t].on = "", ![t].got = "woken"]
  /\ UNCHANGED <<proc, pipe, port, lock, disk, term, keys, failed>>

(* The last of n threads lets the others of the barrier go.                *)
DoBarrier(t) ==
  /\ Now(t).op = "barrier"
  /\ LET W == Waiters(t, Now(t).x)
     IN  task' = IF Cardinality(W) = Now(t).n - 1
                 THEN [u \in DOMAIN task |-> IF u \in W THEN [task[u] EXCEPT !.on = ""]
                                                        ELSE Then(t, Rest(t))[u]]
                 ELSE [Then(t, Rest(t)) EXCEPT ![t].on = Now(t).x]
  /\ UNCHANGED <<proc, pipe, port, lock, disk, term, keys, failed>>

-----------------------------------------------------------------------------
(* Record locks and sockets.                                               *)

(* The processes that wait, directly or not, for one that waits for p.     *)
WaitsFor(p) == UNION {{l.p : l \in Conflict(u)} :
                       u \in {v \in DOMAIN task : At(v, {"setlkw"}) /\ P(v) = p}}
RecordLock(t) ==
  /\ Now(t).op \in {"setlk", "setlkw"}
  /\ LET mine == [p |-> P(t), x |-> Now(t).x, y |-> Now(t).y]
         others == {l \in lock : l.p # P(t) \/ l.x # Now(t).x}
     IN  \/ /\ Now(t).y = "u" \/ Conflict(t) = {}
            /\ lock' = IF Now(t).y = "u" THEN others ELSE others \cup {mine}
            /\ task' = Then(t, Now(t).a \o Rest(t))
         \/ /\ Now(t).y # "u" /\ Conflict(t) # {}
            /\ \/ Now(t).op = "setlk"                                     \* EAGAIN
               \/ \E l \in Conflict(t) : P(t) \in WaitsFor(l.p)           \* EDEADLK
            /\ task' = Then(t, Now(t).c \o Rest(t))
            /\ UNCHANGED lock
  /\ UNCHANGED <<proc, pipe, port, disk, term, keys, failed>>

DoListen(t) ==
  /\ Now(t).op = "listen"
  /\ port' = (Now(t).y :> <<>>) @@ port
  /\ proc' = [proc EXCEPT ![P(t)].fd = (Now(t).y :> NoEnd) @@ @]
  /\ task' = Then(t, Rest(t))
  /\ UNCHANGED <<pipe, lock, disk, term, keys, failed>>

DoConnect(t) ==
  /\ Now(t).op = "connect"
  /\ LET q == Len(pipe) + 1
     IN  \/ /\ Listening(Now(t).y)
            /\ port' = [port EXCEPT ![Now(t).y] = Append(@, <<q, q + 1>>)]
            /\ pipe' = pipe \o << <<>>, <<>> >>
            /\ proc' = [proc EXCEPT ![P(t)].fd = (Now(t).x :> <<q + 1, q>>) @@ @]
            /\ task' = Then(t, Now(t).a \o Rest(t))
         \/ /\ ~Listening(Now(t).y)                              \* ECONNREFUSED
            /\ task' = Then(t, Now(t).c \o Rest(t))
            /\ UNCHANGED <<port, pipe, proc>>
  /\ UNCHANGED <<lock, disk, term, keys, failed>>

DoAccept(t) ==
  /\ Now(t).op = "accept"
  /\ port[Now(t).y] # <<>>
  /\ proc' = [proc EXCEPT ![P(t)].fd = (Now(t).x :> Head(port[Now(t).y])) @@ @]
  /\ port' = [port EXCEPT ![Now(t).y] = Tail(@)]
  /\ task' = Then(t, Rest(t))
  /\ UNCHANGED <<pipe, lock, disk, term, keys, failed>>

(* One call that creates something fails, and the program's error path     *)
(* (the statements in field c) is taken.                                   *)
Fault(t) ==
  /\ ~failed /\ Programs[prog].faults
  /\ At(t, {"pipe", "spipe", "fork", "vfork", "exec", "create"})
  /\ failed' = TRUE
  /\ task' = Then(t, Now(t).c \o Rest(t))
  /\ UNCHANGED <<proc, pipe, port, lock, disk, term, keys>>

-----------------------------------------------------------------------------
(* Every process has ended; a server may be back where it waits for the    *)
(* next client.                                                            *)
Idle(p) == /\ Programs[prog].server
           /\ \A t \in DOMAIN task : task[t].p = p => At(t, {"accept"}) /\ Blocked(t)
Over == \A p \in DOMAIN proc : proc[p].st \notin {"live", "stopped"} \/ Idle(p)
Quiet == Over \/ keys # <<>> \/ ~Programs[prog].ends      \* a server may have nothing to do

(* The next call of a task that runs, or a signal in its place.            *)
Call(t) ==
  Runs(t) /\
  ( \/ Assign(t) \/ Branch(t) \/ Choose(t) \/ Pass(t) \/ Jump(t)
    \/ MakePipe(t) \/ CloseFd(t) \/ ReadFd(t) \/ WriteFd(t) \/ DoPrintf(t) \/ Flush(t)
    \/ DoFork(t) \/ DoExec(t) \/ DoExit(t) \/ DoWait(t)
    \/ DoKill(t) \/ Action(t) \/ Mask(t) \/ DoAlarm(t) \/ Pending(t) \/ DoSigWait(t)
    \/ SetTerminal(t)
    \/ Deliver(t) \/ Interrupt(t)
    \/ DoCreate(t) \/ DoThreadExit(t) \/ DoJoin(t) \/ Mutex(t) \/ DoCondWait(t) \/ DoCondSignal(t)
    \/ DoBarrier(t) \/ RecordLock(t) \/ DoListen(t) \/ DoConnect(t) \/ DoAccept(t) )

Next == /\ UNCHANGED <<prog, tty>>
        /\ \/ \E t \in DOMAIN task : Call(t) \/ Fault(t) \/ Spurious(t)
           \/ \E p \in DOMAIN proc : Ring(p)
           \/ Press
           \/ Quiet /\ UNCHANGED vars

Init ==
  /\ prog \in DOMAIN Programs
  /\ tty \in Programs[prog].tty
  /\ LET r == Programs[prog].roots
         std == ("0" :> <<TTY, 0>>) @@ ("1" :> <<0, TTY>>)
     IN  /\ proc = [p \in 1 .. PROCS |->
                      IF p \in DOMAIN r THEN [NoProc EXCEPT !.st = "live", !.fd = std] ELSE NoProc]
         /\ task = [t \in 1 .. TASKS |->
                      IF t \in DOMAIN r THEN [NoTask EXCEPT !.st = "run", !.p = t, !.code = r[t]]
                                        ELSE NoTask]
  /\ pipe = << [i \in DOMAIN Programs[prog].stdin |-> [v |-> Programs[prog].stdin[i], e |-> NoEnd]] >>
  /\ port = <<>> /\ lock = {} /\ term = <<>> /\ failed = FALSE
  /\ disk = [x \in Programs[prog].shared |-> 0]
  /\ keys \in Programs[prog].keys

(* The scheduler runs every task that can run, and timers expire.          *)
Spec == /\ Init /\ [][Next]_vars
        /\ \A t \in 1 .. TASKS : WF_vars(UNCHANGED <<prog, tty>> /\ Call(t))
        /\ \A p \in 1 .. PROCS : WF_vars(UNCHANGED <<prog, tty>> /\ Ring(p))

-----------------------------------------------------------------------------
(* What the programs promise.                                              *)

(* When every process has ended and no call failed, what the program wrote *)
(* and its exit status are what its code and comments promise: nothing is  *)
(* lost in a buffer, written twice or out of turn, whatever the schedule.  *)
(* (What is written once a call has failed is promised nowhere.)           *)
OutputAsPromised ==
  Over /\ ~failed => /\ term \in Programs[prog].outs[tty]
                     /\ proc[1].status \in Programs[prog].exit

(* A program that waits for its children leaves none to init: when it      *)
(* exits or returns from main they have been waited for, also on a path on *)
(* which a pipe, fork or exec failed or a wait was interrupted.  (One that *)
(* a signal kills waits for nobody.)                                       *)
ChildrenWaitedFor ==
  Programs[prog].reaps /\ proc[1].status >= 0 =>
    \A p \in DOMAIN proc : p \notin DOMAIN Programs[prog].roots /\ proc[p].st # "free"
                             => proc[p].up # 0

(* At most one copy of a daemon does its work at any time, and the process *)
(* number in the lock file is its own, whatever the order in which copies  *)
(* are started, fork and end.                                              *)
OneDaemon ==
  \A t \in DOMAIN task : At(t, {"sleep"}) /\ Now(t).v = "work" =>
     /\ disk["daemon.pid"] = P(t)
     /\ \A u \in DOMAIN task : At(u, {"sleep"}) /\ Now(u).v = "work" => P(u) = P(t)

(* Threads of a process, and processes that share memory, never reach a    *)
(* variable at the same time when one of them changes it.                  *)
Reaches(t, ops) == At(t, ops) /\ Now(t).x # ""
NoDataRace ==
  ~Programs[prog].races =>
    \A t, u \in DOMAIN task :
      ~ /\ t # u
        /\ Reaches(t, {"set", "add"})
        /\ Reaches(u, {"set", "add", "if", "while", "printf", "lock"})
        /\ Now(t).x = Now(u).x
        /\ P(t) = P(u) \/ Now(t).x \in DOMAIN disk

(* Nobody reaches an object of counted references once it has been freed.  *)
NoUseAfterFree ==
  \A t \in DOMAIN task :
    Runs(t) /\ Now(t).x \in Programs[prog].object => Val(t, "live") = 1

(* When a program has ended or is stopped the terminal is in the mode the  *)
(* program found it in, whatever the user types and whenever TERM arrives, *)
(* with two exceptions: a signal that the program neither catches nor      *)
(* blocks kills or stops it where it stands, and a handler that runs       *)
(* between tcsetattr and the assignment to ttystate does not know that     *)
(* there is something to restore.                                          *)
Unguarded(p) == \E s \in Programs[prog].unguarded :
                  IF s = "TSTP" THEN proc[p].st = "stopped" ELSE proc[p].status = -SigNo[s]
Unaware(p) == "ttystate" \in DOMAIN proc[p].mem /\ proc[p].mem["ttystate"] = CHANGING
TerminalRestored ==
  Over \/ (\E p \in DOMAIN proc : proc[p].st = "stopped") =>
    Mode = 0 \/ Unguarded(1) \/ Unaware(1)

(* Every program that is meant to end does: no process waits for ever for  *)
(* a signal that came too early, a pipe whose writer is itself, a lock or  *)
(* a condition.                                                            *)
EveryoneEnds == Programs[prog].ends /\ keys = <<>> ~> Over
=============================================================================
