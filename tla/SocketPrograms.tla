--------------------------- MODULE SocketPrograms ---------------------------
(***************************************************************************)
(* The programs of sockets/ and ipc2/open.fe, and the routines of lib/     *)
(* they use: servers and clients, and descriptors sent in messages.        *)
(***************************************************************************)
EXTENDS DaemonPrograms

-----------------------------------------------------------------------------
(* sockets/                                                                *)

Uptime == << Write("1", "up 1 day"), Exit(0) >>

(* connect_retry, clconn2.c, gives up after TRIES attempts (8 in the code),*)
(* or when there is no socket.                                             *)
TRIES == 2
Attempt(fd, name, later) ==
  << Either(<< [Connect(fd, name, later) EXCEPT !.a = <<Set("connected", 1), Set("numsec", 0)>>] >>,
            <<Set("numsec", 0)>>) >>
(* (mutant) the delay is not changed after an attempt                      *)
connect_retryAlways(fd, name) ==
  << Set("numsec", TRIES), Set("connected", 0),
     While("numsec", ">", 0, Attempt(fd, name, <<Sleep>>)) >>
connect_retry(fd, name) ==
  << Set("numsec", TRIES), Set("connected", 0),
     While("numsec", ">", 0, Attempt(fd, name, <<Sleep, Add("numsec", -1)>>)) >>
print_uptime(fd) == << WhileRead(fd, <<WriteGot("1")>>) >>
ruptime == connect_retry("sockfd", "ruptime")
           \o << If("connected", "=", 1, print_uptime("sockfd") \o <<Exit(0)>>, ErrSys) >>

initserver(name) == << Listen(name) >>
server(serve) == daemonize \o initserver("ruptime") \o << Forever(<<Accept("clfd", "ruptime")>> \o serve) >>

(* With popen the server sends the lines itself; the other one gives the  *)
(* client's descriptor to uptime, and goes on as a server if exec fails.   *)
serve_popen == PopenElse("fp", "r", Uptime, << "clfd", "ruptime" >>,
                         << WhileRead("fp", <<WriteGot("clfd")>>) >> \o Pclose("fp"),
                         << Write("clfd", "error") >>)
               \o << Close("clfd") >>
serve_fd == << ForkElse("pid", << Dup2("clfd", "1"), Close("clfd"),
                                  [Exec(Uptime, <<>>) EXCEPT !.s = {"ruptime"}] >>,
                        << Close("clfd"), Waitpid("pid", "status", <<>>, <<>>) >>, ErrSys) >>
ruptimed    == server(serve_popen)
ruptimed_fd == server(serve_fd)

(* Datagrams: the request may be lost; then the alarm ends the wait.       *)
sigalrm == <<>>
Lost == << Alarm(1), Pause >> \o ErrSys
ruptime_dg == << Catch("ALRM", sigalrm), Either(<<Connect("sockfd", "ruptime", Lost)>>, Lost),
                 Alarm(1), Read("sockfd", <<>>), Alarm(0), WriteGot("1"), Exit(0) >>
serve_dg == PopenElse("fp", "r", Uptime, << "ruptime" >>,
                      << Read("fp", <<>>), WriteGot("clfd") >> \o Pclose("fp"),
                      << Write("clfd", "error") >>)
ruptimed_dg == server(serve_dg)

-----------------------------------------------------------------------------
(* ipc2/open: descriptors from a server that is forked and executed.  What *)
(* comes before a descriptor is a message that is written out.             *)

send_fd(fd, opened) == << SendFd(fd, opened) >>
send_err(fd, msg)   == << Write(fd, msg), Write(fd, "status") >>
recv_fd(fd, newfd, done, fail) ==
  << Set("status", 1),
     While("status", "=", 1,
       << [RecvFd(fd, newfd, fail \o <<Set("status", 0)>>) EXCEPT
             !.a = << IfGot("fd", <<Set("status", 0)>> \o done,
                            <<IfGot("status", <<Set("status", 0)>>, <<WriteGot("1")>>)>>) >>] >>) >>

(* The files that can be opened hold one line.                             *)
handle_request == << IfGot("readable", << Pipe("newfd"), Write("newfd[1]", "contents"), Close("newfd[1]") >>
                                       \o send_fd("1", "newfd[0]") \o << Close("newfd[0]") >>,
                           send_err("1", "can't open")) >>
opend == << WhileRead("0", handle_request), Exit(0) >>

startServer == << SPipe("fd"),
                  Fork("pid", << Close("fd[0]"), Dup2("fd[1]", "0"), Dup2("fd[1]", "1"), Close("fd[1]"),
                                 Exec(opend, ErrSys) >>, << Close("fd[1]") >>), Set("started", 1) >>
cat == << WhileRead("opened", <<WriteGot("1")>>), Close("opened") >>
csopen(use) == << If("started", "=", 0, startServer, <<>>), WriteGot("fd[0]") >>
               \o recv_fd("fd[0]", "opened", use, <<>>)
open == << WhileRead("0", csopen(cat)), Exit(0) >>
=============================================================================
