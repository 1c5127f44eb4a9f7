---------------------------- MODULE ProcPrograms ----------------------------
(***************************************************************************)
(* The programs of proc/, ipc1/, intro/, relation/ and environ/ that start *)
(* other processes and talk to them through pipes.                         *)
(***************************************************************************)
EXTENDS Libapue

(* A pager that may be left before it has shown everything.                *)
Pager == << WhileRead("0", <<WriteGot("1"), Either(<<>>, <<Exit(0)>>)>>), Exit(0) >>
File  == <<"l1", "l2", "l3">>                \* the lines of the file argv[1]
Copy(fd) == [i \in DOMAIN File |-> Write(fd, File[i])]

-----------------------------------------------------------------------------
(* proc/                                                                   *)

fork1 == << Set("globvar", 6), Write("1", "a write to stdout"), Printf("before fork"),
            Fork("pid", <<Add("globvar", 1)>>, <<Sleep>>),
            PrintVar("glob = ", "globvar"), Exit(0) >>

fork2 == << Fork("pid",
                 << Fork("pid", <<>>, <<Exit(0)>>),
                    Sleep, Printf("second child"), Exit(0) >>, <<>>),
            Waitpid("pid", "status", ErrSys, ErrSys), Exit(0) >>

vfork1 == << Set("globvar", 6), Printf("before vfork"),
             Vfork("pid", << Add("globvar", 1), Exit_(0) >>, <<>>),
             PrintVar("glob = ", "globvar"), Exit(0) >>

WaitAndPrint == << Wait("pid", "status", ErrSys), PrExit("status") >>
wait1 == << Fork("pid", <<Exit(7)>>, <<>>) >> \o WaitAndPrint
         \o << Fork("pid", <<Kill("self", "ABRT")>>, <<>>) >> \o WaitAndPrint
         \o << Fork("pid", <<Kill("self", "FPE")>>, <<>>) >> \o WaitAndPrint \o << Exit(0) >>

charatatime(s) == << Write("1", s \o "1"), Write("1", s \o "2") >>    \* unbuffered
tellwait1 == << Fork("pid", charatatime("c"), charatatime("p")), Exit(0) >>
tellwait2 == TELL_WAIT \o
             << Fork("pid", WAIT_PARENT \o charatatime("c"),
                            charatatime("p") \o TELL_CHILD("pid")), Exit(0) >>

RunCommand(command) == PlainSystem(command) \o << If("status", "=", -1, ErrSys, <<>>) >>
systest1 == RunCommand(Cmd("date", 0)) \o << PrExit("status") >>
            \o RunCommand(<<Exit(127)>>) \o << PrExit("status") >>
            \o RunCommand(Cmd("who", 44)) \o << PrExit("status"), Exit(0) >>
systest3 == RunCommand(Cmd("tsys", 0)) \o << PrExit("status"), Exit(0) >>

do_cmd(cmd) == << Write("1", "command: " \o cmd) >> \o RunCommand(Cmd(cmd, 0))
               \o << Write("1", "times"), PrExit("status") >>
times1 == do_cmd("date") \o do_cmd("who") \o << Exit(0) >>

echoall(argv, environ) == << Printf(argv), Printf(environ), Exit(0) >>
exec1 == << Fork("pid", << Exec(echoall("myarg1", "USER=unknown"), ErrSys) >>, <<>>),
            Waitpid("pid", "status", ErrSys, ErrSys),
            Fork("pid", << Exec(echoall("only 1 arg", "USER=me"), ErrSys) >>, <<>>),
            Exit(0) >>

test1 == << Fork("pid", <<>>, <<Sleep, Exit(2)>>),
            Fork("pid", <<>>, <<Sleep, Kill("self", "ABRT")>>),
            Fork("pid", <<>>, << Exec(<<Exit(0)>>, <<Exit(7)>>) >>),
            Fork("pid", <<>>, <<Sleep, Exit(0)>>),
            Sleep, Kill("self", "KILL"), Exit(6) >>

zombie == << Fork("pid", <<Exit(0)>>, <<>>), Sleep >> \o PlainSystem(Cmd("ps", 0)) \o << Exit(0) >>

(* lab7/, whose cout << endl flushes: nobody waits for the third child of  *)
(* wait.cpp, and the status printed for it is that of the second.          *)
wait == << Fork("pid", <<Sleep, Write("1", "in child"), Exit(100)>>, <<>>),
           Wait("pid", "status", ErrSys), Write("1", "in parent"), PrExit("status"),
           Fork("pid", <<Kill("self", "ABRT")>>, <<>>),
           Wait("pid", "status", ErrSys), PrExit("status"),
           Fork("pid", <<Kill("self", "FPE")>>, <<>>), PrExit("status"), Exit(0) >>
fork == << Set("glob", 6), Write("1", "a write_out"), Write("1", "fork before"),
           Fork("pid", <<Add("glob", 1)>>, <<Sleep>>),
           PrintVar("", "glob"), Exit(0) >>

-----------------------------------------------------------------------------
(* relation/, intro/, environ/                                             *)

orphan3 == << Printf("parent"), Fflush,
              Fork("pid",
                   << Printf("child"), Fflush, Signal("HUP", <<Printf("SIGHUP received")>>),
                      Kill("self", "TSTP"), Printf("child"), Fflush,
                      Printf("read error") >>,       \* EIO: the group is orphaned
                   <<Sleep>>), Exit(0) >>

(* What execlp finds for a command line, or couldn't execute.              *)
Execute == << IfGot("date", << Exec(Cmd("now", 0), <<Exit(127)>>) >>, <<Exit(127)>>) >>
shell1 == << Printf("% "),
             WhileRead("0", << Fork("pid", Execute, <<>>),
                               Waitpid("pid", "status", ErrSys, ErrSys), Printf("% ") >>),
             Exit(0) >>
shell2 == << Signal("INT", <<Printf("interrupt")>>) >> \o shell1

testjmp == << Set("globval", 1), Set("autoval", 2), Set("volaval", 4),
              Setjmp("jmpbuffer",
                     << Printf("after longjmp:"), PrintVar("globval = ", "globval"),
                        PrintVar("autoval = ", "autoval"), PrintVar("volaval = ", "volaval"),
                        Exit(0) >>, <<>>),
              Set("globval", 95), Set("autoval", 96), Set("volaval", 98),
              Printf("in f1():"), PrintVar("globval = ", "globval"),
              Either(<<>>, <<Set("autoval", 2)>>),   \* a register is rolled back
              Longjmp("jmpbuffer") >>

-----------------------------------------------------------------------------
(* ipc1/                                                                   *)

pipe1 == << Pipe("fd"),
            Fork("pid", << Close("fd[1]"), Read("fd[0]", <<>>), WriteGot("1") >>,
                        << Close("fd[0]"), Write("fd[1]", "hello world") >>),
            Exit(0) >>

pipe2 == << Pipe("fd"),
            Fork("pid",
                 << Close("fd[1]"), Dup2("fd[0]", "0"), Close("fd[0]"), Exec(Pager, ErrSys) >>,
                 << Close("fd[0]") >> \o Copy("fd[1]") \o
                 << Close("fd[1]"), Waitpid("pid", "status", ErrSys, ErrSys), Exit(0) >>) >>

myuclc == << WhileRead("0", << IfGot("AB", <<Printf("ab")>>, <<Printf("$")>>), Fflush >>),
             Exit(0) >>
popen1 == Popen("fpin", "r", myuclc, <<>>) \o
          << Printf("prompt> "), Fflush,
             WhileRead("fpin", << Printf("$"), Printf("prompt> "), Fflush >>) >>
          \o Pclose("fpin") \o << Printf(""), Exit(0) >>

popen2 == Popen("fpout", "w", Pager, <<>>) \o Copy("fpout") \o Pclose("fpout") \o << Exit(0) >>

add2 == << WhileRead("0", << IfGot("1 2", <<Write("1", "3")>>, <<Write("1", "invalid args")>>) >>),
           Exit(0) >>
add2stdio == << WhileRead("0", << IfGot("1 2", <<Printf("3")>>, <<Printf("invalid args")>>) >>),
                Exit(0) >>
pipe4 == << Signal("PIPE", << Printf("SIGPIPE caught"), Exit(1) >>), Pipe("fd1"), Pipe("fd2"),
            Fork("pid",
                 << Close("fd1[1]"), Close("fd2[0]"), Dup2("fd1[0]", "0"), Close("fd1[0]"),
                    Dup2("fd2[1]", "1"), Close("fd2[1]"), Exec(add2, ErrSys) >>,
                 << Close("fd1[0]"), Close("fd2[1]"),
                    WhileRead("0", << WriteGot("fd1[1]"), Read("fd2[0]", <<Exit(0)>>),
                                      Printf("$") >>),
                    Exit(0) >>) >>

(* ipc1/slock.c, a semaphore between processes: its name is tried until it *)
(* is new, and removed at once; two processes count under the lock.        *)
s_alloc == << Set("cnt", 1), Either(<<>>, <<Add("cnt", 1)>>) >>      \* EEXIST at most once
s_lock   == << Lock("slock") >>
s_unlock == << Unlock("slock") >>
Counting == s_lock \o << Add("area", 1) >> \o s_unlock
slock == s_alloc \o << Fork("pid", Counting \o <<Exit(0)>>, Counting),
                       Waitpid("pid", "status", ErrSys, ErrSys),
                       PrintVar("count = ", "area"), Exit(0) >>

(* devzero.c: parent and child take turns to update shared memory; NLOOPS  *)
(* updates in all, with either implementation of TELL and WAIT.            *)
NLOOPS == 4
update(i) == << Expect("area", i), Add("area", 1) >>
devzero(init, tellChild, waitChild, tellParent, waitParent) ==
  init \o
  << Fork("pid",
          waitParent \o update(1) \o tellParent \o waitParent \o update(3) \o tellParent,
          update(0) \o tellChild \o waitChild \o update(2) \o tellChild \o waitChild),
     Exit(0) >>
devzeroSignals == devzero(TELL_WAIT, TELL_CHILD("pid"), WAIT_CHILD, TELL_PARENT, WAIT_PARENT)
devzeroPipes   == devzero(PipeTELL_WAIT, PipeTELL_CHILD, PipeWAIT_CHILD,
                          PipeTELL_PARENT, PipeWAIT_PARENT)
=============================================================================
