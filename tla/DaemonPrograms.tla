--------------------------- MODULE DaemonPrograms ---------------------------
(***************************************************************************)
(* The programs of daemons/ and advio/ that keep to themselves by record   *)
(* locks, and the ones that write without blocking.                        *)
(***************************************************************************)
EXTENDS Libapue

(* daemonize(), daemons/init.c: two forks, all descriptors closed.         *)
daemonize == << Fork("pid", <<>>, <<Exit(0)>>), Sigaction("HUP", "ign", <<>>),
                Fork("pid", <<>>, <<Exit(0)>>), Close("0"), Close("1") >>

(* lock_reg, lib/lockreg.c, with the commands the callers use.             *)
write_lock(file, fail) == SetLk(file, "w", <<>>, fail)
read_lock(file, ok, fail) == SetLk(file, "r", ok, fail)
writew_lock(file, fail) == SetLkw(file, "w", fail)

(* already_running(): with the lock, the file gets our process number.     *)
lockfile(fail) == write_lock("daemon.pid", fail)
already_running == << lockfile(<<Exit(1)>>), Set("daemon.pid", 0), GetPid("daemon.pid") >>

AllSignals == {"HUP", "INT", "QUIT", "USR1", "USR2", "ALRM", "TERM", "CHLD", "PIPE", "TSTP"}
thr_fn == << Forever(<< SigWait(AllSignals), IfGot("HUP", <<Add("reread", 1)>>, <<>>),
                        IfGot("TERM", <<Exit(0)>>, <<>>) >>) >>
reread_up == already_running
             \o << SignalDfl("HUP"), Block(AllSignals), Create("tid", thr_fn), Work, Exit(0) >>
(* (mutant) the lock is taken before the forks, which do not pass it on    *)
rereadLockFirst ==
  already_running \o daemonize
  \o << SignalDfl("HUP"), Block(AllSignals), Create("tid", thr_fn), Work, Exit(0) >>
reread == daemonize \o reread_up

sigterm == << Exit(0) >>
sighup  == << Add("reread", 1) >>
reread2_up == already_running
              \o << Catch("TERM", sigterm), Catch("HUP", sighup), Work, Exit(0) >>
reread2 == daemonize \o reread2_up

(* An operator who sends signals to the process named in the lock file.    *)
operator(signals) == [i \in DOMAIN signals |-> Kill("daemon.pid", signals[i])] \o << Exit(0) >>

-----------------------------------------------------------------------------
(* advio/deadlock.c: each has a byte and waits for the other's; one of the *)
(* two calls fails with EDEADLK.                                           *)
lockabyte(name, byte) == << writew_lock(byte, ErrSys), Printf(name \o byte) >>
deadlock == TELL_WAIT \o
  << Fork("pid", lockabyte("child", "0") \o TELL_PARENT \o WAIT_PARENT \o lockabyte("child", "1"),
                 lockabyte("parent", "1") \o TELL_CHILD("pid") \o WAIT_CHILD
                 \o lockabyte("parent", "0")),
     Exit(0) >>

mandatory == TELL_WAIT \o
  << Fork("pid",
          WAIT_PARENT \o << read_lock("file", ErrSys, <<>>), Printf("read_lock returns EAGAIN"),
                            Either(<<>>, <<Printf("read OK")>>) >>,
          << write_lock("file", ErrSys) >> \o TELL_CHILD("pid")
          \o << Waitpid("pid", "status", ErrSys, ErrSys) >>),
     Exit(0) >>

(* advio/nonblockw.c writing into a pipe that a pager empties: what does   *)
(* not fit is written again.                                               *)
Drain == << WhileRead("0", <<WriteGot("1")>>), Exit(0) >>
nonblockw == << Set("ntowrite", 3),
                While("ntowrite", ">", 0,
                  << Set("nwrite", 1), WriteNb("p[1]", "x", <<Set("nwrite", -1)>>),
                     If("nwrite", ">", 0, <<Add("ntowrite", -1)>>, <<>>) >>),
                Exit(0) >>
nonblockwPiped == << Pipe("p"), Fork("pid", << Close("p[1]"), Dup2("p[0]", "0"), Close("p[0]") >> \o Drain,
                                            <<Close("p[0]")>>) >> \o nonblockw

sizepipe == << Pipe("fd"), Set("n", 0), Set("i", 1),
               While("i", "=", 1, << WriteNb("fd[1]", "a", <<Set("i", -1)>>),
                                     If("i", "=", 1, <<Add("n", 1)>>, <<>>) >>),
               PrintVar("pipe capacity = ", "n"), Exit(0) >>

(* exercises/pendlock.c: a write lock that waits behind read locks.        *)
Reader(name) == << read_lock("lockfile", <<>>, ErrSys), Write("1", name \o " obtained"), Pause,
                   Exit(0) >>
pendlock == << SignalIntr("INT", <<>>),
               Fork("pid1", Reader("child 1"), <<Sleep>>),
               Fork("pid2", Reader("child 2"), <<Sleep>>),
               Fork("pid3", << write_lock("lockfile", <<Write("1", "child 3 can't")>>),
                               writew_lock("lockfile", ErrSys), Write("1", "child 3 got it"),
                               Pause, Exit(0) >>, <<Sleep>>),
               read_lock("lockfile", <<Write("1", "parent obtained")>>, <<Write("1", "parent can't")>>),
               Kill("pid1", "INT"), Kill("pid2", "INT"), Kill("pid3", "INT"), Exit(0) >>
=============================================================================
