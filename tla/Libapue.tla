------------------------------ MODULE Libapue -------------------------------
(***************************************************************************)
(* The library routines of lib/, proc/system.c, signals/system.c and       *)
(* ipc1/tellwait.c, as sequences of statements that programs splice in.    *)
(***************************************************************************)
EXTENDS Calls

(* signal(), lib/signal.c: calls are restarted, except after SIGALRM.      *)
Signal(sig, handler) == [Catch(sig, handler) EXCEPT !.n = IF sig = "ALRM" THEN 0 ELSE 1]
SignalIntr(sig, handler) == Catch(sig, handler)
SignalDfl(sig) == Sigaction(sig, "dfl", <<>>)

(* pr_exit, lib/prexit.c: signal deaths print as negative numbers.         *)
PrExit(status) == PrintVar("status ", status)

-----------------------------------------------------------------------------
(* lib/tellwait.c: parent and child tell each other with signals.          *)
TELL_WAIT == << Signal("USR1", <<Set("sigflag", 1)>>), Signal("USR2", <<Set("sigflag", 1)>>),
                Block({"USR1", "USR2"}) >>
WaitTold  == << While("sigflag", "=", 0, <<Sigsuspend({})>>),
                Set("sigflag", 0), SetMask({}) >>
WAIT_PARENT == WaitTold
WAIT_CHILD  == WaitTold
TELL_PARENT == <<Kill("parent", "USR2")>>
TELL_CHILD(pid) == <<Kill(pid, "USR1")>>

(* ipc1/tellwait.c: the same with two pipes.                               *)
PipeTELL_WAIT   == << Pipe("pfd1"), Pipe("pfd2") >>
PipeTELL_PARENT == <<Write("pfd2[1]", "c")>>
PipeWAIT_PARENT == << Read("pfd1[0]", ErrSys), IfGot("p", <<>>, ErrSys) >>
PipeTELL_CHILD  == <<Write("pfd1[1]", "p")>>
PipeWAIT_CHILD  == << Read("pfd2[0]", ErrSys), IfGot("c", <<>>, ErrSys) >>

-----------------------------------------------------------------------------
(* (mutant) not again when a signal interrupts it                          *)
WaitOnce(pid, status, fail) == << Waitpid(pid, status, fail, fail) >>
(* waitpid, again when a signal interrupts it.                             *)
WaitAgain(pid, status, fail) ==
  << Set("waiting", 1),
     While("waiting", "=", 1,
       << [Waitpid(pid, status, fail \o <<Set("waiting", 0)>>, <<>>)
             EXCEPT !.a = <<Set("waiting", 0)>>] >>) >>

(* popen: the child gets the other end as stdin or stdout, and closes the  *)
(* streams that earlier popens opened (others).  Then the caller goes on   *)
(* with body, or with fail when popen returns NULL.                        *)
PopenElse(fp, type, command, others, body, fail) ==
  LET theirs == IF type = "r" THEN fp \o "[1]" ELSE fp \o "[0]"
      ours   == IF type = "r" THEN fp \o "[0]" ELSE fp \o "[1]"
      child  == << Close(ours), Dup2(theirs, IF type = "r" THEN "1" ELSE "0"), Close(theirs) >>
                \o [i \in DOMAIN others |-> Close(others[i])]
                \o << Exec(command, <<Exit_(127)>>) >>
      parent == << Close(theirs), Dup2(ours, fp), Close(ours) >> \o body
  IN  << [Pipe(fp) EXCEPT !.a = <<ForkElse("childpid " \o fp, child, parent, fail)>>, !.c = fail] >>
Popen(fp, type, command, others) == PopenElse(fp, type, command, others, <<>>, ErrSys)
Pclose(fp) == << Close(fp) >> \o WaitAgain("childpid " \o fp, "stat", ErrSys)

-----------------------------------------------------------------------------
(* A command that writes one line and exits.                               *)
Cmd(line, n) == << Write("1", line), Exit(n) >>

(* system() of proc/system.c, and of signals/system.c, which ignores       *)
(* SIGINT and SIGQUIT and blocks SIGCHLD while the command runs; handlers: *)
(* the caller's, restored.                                                 *)
PlainSystem(command) ==
  << ForkElse("pid", << Exec(command, <<Exit_(127)>>) >>,
              WaitAgain("pid", "status", <<Set("status", -1)>>), <<Set("status", -1)>>) >>
System(command, restored) ==
  << Sigaction("INT", "ign", <<>>), Sigaction("QUIT", "ign", <<>>), Block({"CHLD"}),
     ForkElse("pid", restored \o << SetMask({}), Exec(command, <<Exit_(127)>>) >>,
              WaitAgain("pid", "status", <<Set("status", -1)>>), <<Set("status", -1)>>) >>
  \o restored \o << SetMask({}) >>

(* abort() of signals/abort.c: SIGABRT gets through whatever the caller    *)
(* has done with it; disposition: the caller's.                            *)
AllButAbort == {"HUP", "INT", "QUIT", "USR1", "USR2", "ALRM", "TERM", "CHLD", "TSTP"}
(* (mutant) the buffers are not flushed first                              *)
AbortUnflushed(disposition) ==
  (IF disposition = "ign" THEN <<SignalDfl("ABRT")>> ELSE <<>>)
  \o << SetMask(AllButAbort), Kill("self", "ABRT"), Fflush, SignalDfl("ABRT"),
        SetMask(AllButAbort), Kill("self", "ABRT"), Exit(1) >>
Abort(disposition) ==
  (IF disposition = "ign" THEN <<SignalDfl("ABRT")>> ELSE <<>>)
  \o (IF disposition = "fn" THEN <<>> ELSE <<Fflush>>)
  \o << SetMask(AllButAbort), Kill("self", "ABRT"), Fflush, SignalDfl("ABRT"),
        SetMask(AllButAbort), Kill("self", "ABRT"), Exit(1) >>

(* sleep() of lib/sleep.c; sleep1 and sleep2 of signals/.                  *)
LibSleep(old) == << Catch("ALRM", <<>>), Block({"ALRM"}), Alarm(1), Sigsuspend({}), Alarm(0),
                    old, SetMask({}) >>
Sleep1 == << Signal("ALRM", <<>>), Alarm(1), Pause, Alarm(0) >>
Sleep2 == << Signal("ALRM", <<Longjmp("env_alrm")>>),
             Setjmp("env_alrm", <<>>, <<Alarm(1), Pause>>), Alarm(0) >>
=============================================================================
