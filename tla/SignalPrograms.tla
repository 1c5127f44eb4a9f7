--------------------------- MODULE SignalPrograms ---------------------------
(***************************************************************************)
(* The programs of signals/: handlers that run between any two calls or    *)
(* inside a call that blocks, masks, and jumps out of handlers.            *)
(***************************************************************************)
EXTENDS Libapue

sigusr == << Signal("USR1", <<Printf("received SIGUSR1")>>),
             Signal("USR2", <<Printf("received SIGUSR2")>>), Forever(<<Pause>>) >>

sig_usr1 == << If("canjump", "=", 0, <<>>,
                  << PrMask("starting sig_usr1:"), Alarm(3), Outlast,
                     PrMask("finishing sig_usr1:"), Set("canjump", 0), Siglongjmp("jmpbuf") >>) >>
mask == << Signal("USR1", sig_usr1), Signal("ALRM", <<PrMask("in sig_alrm:")>>),
           PrMask("starting main:"),
           Setjmp("jmpbuf", << PrMask("ending main:"), Exit(0) >>, <<>>),
           Set("canjump", 1), Forever(<<Pause>>) >>

critical == << Signal("QUIT", << Printf("caught SIGQUIT"), SignalDfl("QUIT") >>),
               Block({"QUIT"}), Sleep, IfPending("QUIT", <<Printf("SIGQUIT pending")>>),
               SetMask({}), Printf("SIGQUIT unblocked"), Sleep, Exit(0) >>

suspend1 == << PrMask("program start:"), Signal("INT", <<PrMask("in sig_int:")>>),
               Block({"INT"}), PrMask("in critical region:"), Sigsuspend({"USR1"}),
               PrMask("after return from sigsuspend:"), SetMask({}),
               PrMask("program exit:"), Exit(0) >>

suspend2 == << Signal("INT", <<Printf("interrupt")>>), Signal("QUIT", <<Set("quitflag", 1)>>),
               Block({"QUIT"}), While("quitflag", "=", 0, <<Sigsuspend({})>>),
               Set("quitflag", 0), SetMask({}), Exit(0) >>

(* A read with a timeout: the handler makes read fail, or jumps over it.   *)
read1 == << Signal("ALRM", <<>>), Alarm(10), Read("0", <<>>), Alarm(0), WriteGot("1"), Exit(0) >>
read2 == << Signal("ALRM", <<Longjmp("env_alrm")>>),
            Setjmp("env_alrm", ErrSys, <<>>),
            Alarm(10), Read("0", <<>>), Alarm(0), WriteGot("1"), Exit(0) >>

(* tsleep2.c, with the sleep function it is compiled with.                 *)
sig_int == << Printf("sig_int starting"), Outlast, Printf("sig_int finished") >>
tsleep(sleep) == << Signal("INT", sig_int) >> \o sleep
                 \o << PrintVar("sleep returned: ", "unslept"), Exit(0) >>
tsleep1 == tsleep(Sleep1)
tsleep2 == tsleep(Sleep2)
tsleep3 == tsleep(LibSleep(SignalDfl("ALRM")))

sig_cld == << Printf("SIGCLD received"), Wait("reaped", "how", <<Set("reaped", -1)>>),
              PrintVar("pid = ", "reaped") >>
child == << Signal("CHLD", sig_cld), Fork("pid", <<Sleep, Exit_(0)>>, <<>>), Pause, Exit(0) >>

(* The default action is restored before the process stops itself.         *)
sig_tstp(again) == << Unblock({"TSTP"}), SignalDfl("TSTP"), Kill("self", "TSTP"),
                      Signal("TSTP", again) >>
sigtstp == << Signal("TSTP", sig_tstp(<<>>)),
              WhileRead("0", <<WriteGot("1")>>), Exit(0) >>

Ed == << Signal("INT", <<Write("1", "?")>>), Sleep, Exit(0) >>
CaughtInt  == Signal("INT", <<Printf("caught SIGINT")>>)
systest2 == << CaughtInt, Signal("CHLD", <<Printf("caught SIGCHLD")>>) >>
            \o System(Ed, << CaughtInt, SignalDfl("QUIT") >>)
            \o << If("status", "=", -1, ErrSys, <<>>), Exit(0) >>

(* A caller whose SIGCHLD handler waits for children, as in child.c: it    *)
(* must not take the status of the command from system().                  *)
systemReaping == << Signal("CHLD", sig_cld) >> \o System(Cmd("date", 0), << SignalDfl("INT"), SignalDfl("QUIT") >>)
                 \o << PrExit("status"), Exit(0) >>

(* A caller of popen(), pclose() and system() whose waits the alarm clock  *)
(* interrupts: signal() does not restart calls after SIGALRM.              *)
interrupted == << Signal("ALRM", <<>>), Alarm(1) >>
               \o Popen("fpout", "w", Cmd("date", 0), <<>>) \o Pclose("fpout")
               \o << Alarm(1) >> \o PlainSystem(Cmd("who", 0)) \o << Exit(0) >>

(* A caller of abort() that catches, ignores or blocks SIGABRT.            *)
abortCaught  == << Signal("ABRT", <<Printf("caught")>>), Printf("buffered") >> \o Abort("fn")
abortIgnored == << Sigaction("ABRT", "ign", <<>>), Printf("buffered") >> \o Abort("ign")
abortBlocked == << Block({"ABRT"}), Printf("buffered") >> \o Abort("dfl")
=============================================================================
