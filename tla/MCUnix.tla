------------------------------- MODULE MCUnix -------------------------------
(***************************************************************************)
(* The programs TLC runs, with what each of them promises.                 *)
(***************************************************************************)
EXTENDS Unix, ProcPrograms, SignalPrograms, ThreadPrograms, SocketPrograms, TerminalPrograms,
        SequencesExt

(* A program that reads nothing, ends with status 0 and waits for its      *)
(* children, whether its output goes to a terminal or to a file.           *)
Program(code) == [roots |-> <<code>>, stdin |-> <<>>, hold |-> FALSE, keys |-> {<<>>}, tty |-> BOOLEAN,
                  faults |-> TRUE, shared |-> {}, ends |-> TRUE, reaps |-> TRUE, exit |-> {0},
                  races |-> FALSE, unguarded |-> {}, server |-> FALSE, object |-> {},
                  outs |-> [b \in BOOLEAN |-> {<<>>}]]
Promises(p, outs) == [p EXCEPT !.outs = [b \in BOOLEAN |-> outs]]
Either2(p, terminal, file) == [p EXCEPT !.outs = [b \in BOOLEAN |-> IF b THEN terminal ELSE file]]
NotReaped(p) == [p EXCEPT !.reaps = FALSE]
Server(p) == [p EXCEPT !.ends = FALSE]

(* The interleavings of two sequences.                                     *)
RECURSIVE Merges(_, _)
Merges(s, t) == IF s = <<>> THEN {t} ELSE IF t = <<>> THEN {s}
                ELSE {<<Head(s)>> \o m : m \in Merges(Tail(s), t)}
                     \cup {<<Head(t)>> \o m : m \in Merges(s, Tail(t))}

(* What handlers print for an interrupt, in the caller and in a child.     *)
Interrupts == {<<>>, <<"interrupt">>, <<"interrupt", "interrupt">>}
Status(p, n) == [p EXCEPT !.exit = n]

ProcTable ==
  [ fork1 |-> NotReaped(Either2(Program(fork1),
       {<<"a write to stdout", "before fork">> \o m : m \in Merges(<<"glob = 6">>, <<"glob = 7">>)},
       {<<"a write to stdout", "before fork", "glob = 6", "before fork", "glob = 7">>,
        <<"a write to stdout", "before fork", "glob = 7", "before fork", "glob = 6">>})),
    fork2 |-> NotReaped(Promises(Program(fork2), {<<"second child">>})),
    vfork1 |-> NotReaped(Promises(Program(vfork1), {<<"before vfork", "glob = 7">>})),
    wait1 |-> Promises(Program(wait1), {<<"status 7", "status -6", "status -8">>}),
    tellwait1 |-> NotReaped(Promises(Program(tellwait1), Merges(<<"c1", "c2">>, <<"p1", "p2">>))),
    tellwait2 |-> NotReaped(Promises(Program(tellwait2), {<<"p1", "p2", "c1", "c2">>})),
    systest1 |-> Either2(Program(systest1),
       {<<"date", "status 0", "status 127", "who", "status 44">>},
       {<<"date", "who", "status 0", "status 127", "status 44">>}),
    systest3 |-> Either2(Program(systest3), {<<"tsys", "status 0">>}, {<<"tsys", "status 0">>}),
    times1 |-> Either2(Program(times1),
       {<<"command: date", "date", "times", "status 0", "command: who", "who", "times", "status 0">>},
       {<<"command: date", "date", "times", "command: who", "who", "times", "status 0", "status 0">>}),
    exec1 |-> NotReaped(Promises(Program(exec1),
       {<<"myarg1", "USER=unknown", "only 1 arg", "USER=me">>})),
    test1 |-> NotReaped([Program(test1) EXCEPT !.exit = {2}]),
    orphan3 |-> NotReaped(Promises(Program(orphan3),
       {<<"parent", "child", "SIGHUP received", "child", "read error">>,
        <<"parent", "child", "child", "read error">>})),
    \* in a file the prompts appear twice: the child's exit(127) flushes its copy
    shell1 |-> [Either2(Program(shell1), {<<"% ", "now", "% ", "% ">>},
                        {<<"now", "% ", "% ", "% ", "% ", "% ">>}) EXCEPT !.stdin = <<"date", "nosuch">>],
    shell2 |-> [Status(Either2(Program(shell2),
         {<<>>} \cup UNION {Merges(<<"% ", "now", "% ">>, i) \cup Merges(<<"% ", "% ">>, i) : i \in Interrupts},
         {<<>>} \cup UNION {Merges(<<"now", "% ", "% ">>, i) \cup Merges(<<"% ", "% ">>, i) : i \in Interrupts}),
         {0, -2}) EXCEPT !.stdin = <<"date">>, !.keys = {<<"INT">>}],
    testjmp |-> Promises(Program(testjmp),
       {<<"in f1():", "globval = 95", "after longjmp:", "globval = 95", a, "volaval = 98">> :
          a \in {"autoval = 2", "autoval = 96"}}),
    pipe1 |-> NotReaped(Promises(Program(pipe1), {<<"hello world">>})),
    pipe2 |-> [Promises(Program(pipe2), {SubSeq(File, 1, n) : n \in 1 .. Len(File)})
                 EXCEPT !.exit = {0, -13}],
    popen1 |-> [Promises(Program(popen1), {<<"prompt> ", "ab", "prompt> ", "">>})
                 EXCEPT !.stdin = <<"AB">>],
    popen2 |-> [Promises(Program(popen2), {SubSeq(File, 1, n) : n \in 1 .. Len(File)})
                 EXCEPT !.exit = {0, -13}],
    add2 |-> [Promises(Program(add2), {<<"3", "invalid args">>}) EXCEPT !.stdin = <<"1 2", "x">>],
    add2stdio |-> [Promises(Program(add2stdio), {<<"3", "invalid args">>})
                    EXCEPT !.stdin = <<"1 2", "x">>],
    pipe4 |-> [Promises(NotReaped(Program(pipe4)), {<<"3", "invalid args">>})
                 EXCEPT !.stdin = <<"1 2", "x">>],
    zombie |-> NotReaped(Promises(Program(zombie), {<<"ps">>})),
    wait |-> NotReaped(Promises(Program(wait),
       {<<"in child", "in parent">> \o s : s \in {<<"status 100", "status -6", "status -6">>}})),
    fork |-> NotReaped(Promises(Program(fork), {<<"a write_out", "fork before">> \o m : m \in Merges(<<"6">>, <<"7">>)})),
    slock |-> [Promises(Program(slock), {<<"count = 2">>}) EXCEPT !.shared = {"area", "slock"}],
    \* may wait for ever: lib/tellwait.c loses a signal after its first wait
    devzero |-> [Server(NotReaped(Program(devzeroSignals))) EXCEPT !.shared = {"area"}, !.faults = FALSE],
    devzeroPipes |-> [NotReaped(Program(devzeroPipes)) EXCEPT !.shared = {"area"}] ]

Typed(p, k) == [p EXCEPT !.keys = k, !.tty = {TRUE}]
Timed(code, typed) == [Typed(Status(Promises(Program(code), {<<>>, <<"line">>}), {0, 1}), typed)
                         EXCEPT !.hold = TRUE]
RET == "sleep returned: 0"
SigInt == <<"sig_int starting", "sig_int finished">>
Whole == {<<>>, <<RET>>, Append(SigInt, RET), <<RET>> \o SigInt}
Sleeper(code, outs) == Typed(Status(Promises(Program(code), outs), {0, -2}), {<<"INT">>})

SignalTable ==
  [ sigusr |-> Server(Typed(Status(Promises(Program(sigusr), {<<>>, <<"received SIGUSR1">>}), {-10, -12}),
                           {<<"USR1", "USR2">>, <<"USR2", "USR1">>})),
    mask |-> Server(Typed(Status(Promises(Program(mask),
       {<<>>, <<"starting main:">>,
        <<"starting main:", "starting sig_usr1: USR1", "in sig_alrm: USR1 ALRM",
          "finishing sig_usr1: USR1", "ending main:">>}), {0, -10}), {<<"USR1">>})),
    critical |-> Typed(Status(Promises(Program(critical),
       {<<>>, <<"SIGQUIT pending", "caught SIGQUIT">>, <<"SIGQUIT pending", "caught SIGQUIT", "SIGQUIT unblocked">>,
        <<"SIGQUIT unblocked">>, <<"SIGQUIT unblocked", "caught SIGQUIT">>, <<"caught SIGQUIT">>,
        <<"caught SIGQUIT", "SIGQUIT unblocked">>, <<"caught SIGQUIT", "SIGQUIT pending">>}), {0, -3}),
       {<<"QUIT", "QUIT">>}),
    suspend1 |-> Server(Typed(Status(Promises(Program(suspend1),
       {<<>>, <<"program start:">>,
        <<"program start:", "in critical region: INT", "in sig_int: INT USR1",
          "after return from sigsuspend: INT", "program exit:">>}), {0, -2}), {<<"INT">>})),
    suspend2 |-> Typed(Status(Promises(Program(suspend2), {<<>>, <<"interrupt">>}), {0, -2, -3}),
                       {<<"INT", "QUIT">>, <<"QUIT", "INT">>}),
    read1 |-> Timed(read1, {<<"line">>}),
    read2 |-> Timed(read2, {<<"line">>, <<>>}),
    tsleep1 |-> Server(Sleeper(tsleep1, Whole)),
    tsleep2 |-> Sleeper(tsleep2, Whole \cup {<<"sig_int starting", RET>>}),  \* longjmp over sig_int
    tsleep3 |-> Sleeper(tsleep3, Whole),
    child |-> Server(Typed(Promises(Program(child), {<<"SIGCLD received", "pid = 2">>}), {<<>>})),
    sigtstp |-> Server([Typed(Promises(Program(sigtstp), {<<"a", "b">>}), {<<"TSTP", "CONT">>})
                          EXCEPT !.stdin = <<"a", "b">>]),
    systest2 |-> Typed(Status(Promises(Program(systest2),
       {<<>>, <<"?", "caught SIGCHLD">>, <<"caught SIGCHLD">>, <<"caught SIGCHLD", "caught SIGINT">>,
        <<"caught SIGINT", "caught SIGCHLD">>}), {0, -2}), {<<"INT">>}),
    interrupted |-> Promises(Program(interrupted), {<<"date", "who">>}),
    systemReaping |-> Promises(Program(systemReaping),
       {<<"date", "SIGCLD received", "pid = -1", "status 0">>}),
    abortCaught |-> Status(Promises(Program(abortCaught), {<<"buffered", "caught">>}), {-6}),
    abortIgnored |-> Status(Promises(Program(abortIgnored), {<<"buffered">>}), {-6}),
    abortBlocked |-> Status(Promises(Program(abortBlocked), {<<"buffered">>}), {-6}) ]

(* A daemon that is started while another copy of it has come up, or has   *)
(* not yet taken the lock.                                                 *)
Operated(daemon, copy, signals) == [NotReaped(Program(daemon)) EXCEPT !.tty = {TRUE}, !.shared = {"daemon.pid"},
                                !.roots = <<daemon, copy, operator(signals)>>]
Locks == <<"child 1 obtained", "child 2 obtained", "child 3 can't", "child 3 got it", "parent obtained",
           "parent can't">>

DaemonTable ==
  [ reread |-> Operated(reread, reread_up, <<"HUP", "TERM">>),
    reread2 |-> Operated(reread2, reread2_up, <<"HUP", "TERM">>),
    deadlock |-> NotReaped(Status(Promises(Program(deadlock),
       {m \o <<last>> : m \in Merges(<<"child0">>, <<"parent1">>), last \in {"child1", "parent0"}}), {0, 1})),
    mandatory |-> Promises(Program(mandatory),
       {<<"read_lock returns EAGAIN">>, <<"read_lock returns EAGAIN", "read OK">>}),
    nonblockw |-> NotReaped(Promises(Program(nonblockwPiped), {<<"x", "x", "x">>})),
    sizepipe |-> Promises(Program(sizepipe), {<<"pipe capacity = " \o ToString(PIPE_CAP)>>}),
    pendlock |-> [Server(NotReaped(Typed(Status(Promises(Program(pendlock),
       SetToAllKPermutations(ToSet(Locks))), {0}), {<<>>}))) EXCEPT !.faults = FALSE] ]

Racy(p) == [p EXCEPT !.races = TRUE]
Counted(p) == [p EXCEPT !.object = {"f_lock", "f_count", "f_more"}]
JoinedLast(m) == m \o <<"thread 2 exit code 2">>

(* atfork: what is in the buffer at the fork reaches a file twice.         *)
Started == <<"thread started...">>
Before == <<"parent about to fork...", "preparing locks...">>
InChild == <<"child unlocking locks...", "child returned from fork">>
InParent == <<"parent unlocking locks...", "parent returned from fork">>
Blocks(copied, late) == UNION {{copied \o InChild \o copied \o p, copied \o p \o copied \o InChild} :
                                 p \in UNION {Merges(InParent, s) : s \in late}}
AtforkTty == UNION {Merges(Before \o m, s) : m \in Merges(InChild, InParent), s \in {<<>>, Started}}
AtforkFile == Blocks(Before, {<<>>, Started}) \cup UNION {Blocks(b, {<<>>}) : b \in Merges(Before, Started)}

ThreadTable ==
  [ goodexit |-> Promises(Program(goodexit), {<<"thread:", "  foo.a = 1", "parent:", "  foo.a = 1">>}),
    badexit2 |-> Racy(Promises(Program(badexit2),
       UNION {{<<"thread 1:", "  foo.a = 1", "parent starting second thread">> \o m :
                 m \in Merges(<<"parent:", foo>>, s)} :
              foo \in {"  foo.a = 1", "  foo.a = -1"}, s \in {<<>>, <<"thread 2: ID is">>}})),
    exitstatus |-> Promises(Program(exitstatus), {JoinedLast(m) :
       m \in Merges(<<"thread 1 returning", "thread 1 exit code 1">>, <<"thread 2 exiting">>)}),
    cleanup |-> Promises(Program(cleanup), UNION {{JoinedLast(m) :
       m \in Merges(started1 \o h \o <<"thread 1 exit code 1">>, started2)} :
       h \in {<<>>, <<"1 second handler", "1 first handler">>},
       started1 \in {<<"1 start", "1 push complete">>},
       started2 \in {<<"2 start", "2 push complete", "2 second handler", "2 first handler">>}}),
    threadid |-> Promises(Program(threadid),
       {<<"main thread:">>} \cup Merges(<<"main thread:">>, <<"new thread: ">>)),
    mutex1 |-> Counted(Program(mutex1)),
    mutex2 |-> Counted(Program(mutex2)),
    mutex3 |-> Counted(Program(mutex3)),
    barrier |-> Promises(Program(barrier), {<<"sorted">>}),
    condvar |-> Program(condvar),
    timedlock |-> Promises(Program(timedlock), {<<"mutex is locked", "can't lock mutex again">>}),
    timeout |-> Program(timeoutMain),
    test2 |-> Promises(Program(test2), {<<>>, <<"retry">>}),
    suspend |-> Typed(Status(Promises(Program(suspend), {<<>>, <<"interrupt">>}), {0, -2, -3}), {<<"INT", "QUIT">>}),
    atfork |-> NotReaped(Either2(Program(atfork), AtforkTty, AtforkFile)),
    getenv1 |-> Racy(Promises(Program(getenv1Main),
       UNION {Merges(<<a>>, <<b>>) : a \in {"A=1", "A=2"}, b \in {"B=1", "B=2"}})),
    getenv2 |-> Promises(Program(getenv2Main),
       UNION {Merges(<<a>>, <<b>>) : a \in {"A=1", "A=-1"}, b \in {"B=2", "B=-1"}}),
    getenv3 |-> Promises(Program(getenv3Main),
       UNION {Merges(a, b) : a \in {<<>>, <<"A=1">>}, b \in {<<>>, <<"B=2">>}}) ]

Serving(client, daemon) ==
  Status([NotReaped(Typed(Promises(Program(client), {<<>>, <<"up 1 day">>}), {<<>>})) EXCEPT
     !.roots = <<client, daemon>>, !.server = TRUE], {0, 1})
SocketTable ==
  [ ruptimePopen |-> Serving(ruptime, ruptimed),
    ruptimeFd |-> [Serving(ruptime, ruptimed_fd) EXCEPT !.faults = FALSE],
    ruptimeDg |-> Server(Serving(ruptime_dg, ruptimed_dg)),
    open |-> [NotReaped(Promises(Program(open), {<<"contents", "can't open", "contents">>}))
               EXCEPT !.stdin = <<"readable", "missing", "readable">>] ]

(* A user at the terminal; what is typed before the mode changes is lost.  *)
AtTerminal(code, typed) == [Server(Typed(Program(code), typed)) EXCEPT !.shared = {"mode"}, !.hold = TRUE]
Caughts == {<<>>, <<"signal caught">>, <<"signal caught", "signal caught">>}
TerminalTable ==
  [ getpass |-> [Status(Promises(AtTerminal(t_getpass,
         {<<"INT", "line">>, <<"TSTP", "line", "CONT">>, <<"line", "INT">>, <<"QUIT", "line">>}),
         {<<>>, <<"Enter password:">>, <<"Enter password:", "line">>}), {0, -2, -3})
         EXCEPT !.unguarded = {"QUIT"}],
    t_raw |-> [Status(Promises(AtTerminal(t_raw,
         {<<"INT", "DEL", "INT">>, <<"QUIT", "DEL", "TERM">>, <<"DEL", "TSTP", "CONT", "QUIT">>}),
         Caughts \cup {<<"Enter raw mode">> \o typed \o second \o caught :
            typed \in {<<>>, <<"INT">>, <<"QUIT">>, <<"TSTP">>, <<"TSTP", "QUIT">>},
            second \in {<<>>, <<"Enter cbreak mode">>}, caught \in Caughts}),
         {0, 1, -2, -3, -15}) EXCEPT !.unguarded = {"TSTP"}],
    ptyDate |-> Status(NotReaped(Promises(Program(ptyDate), {<<>>, <<"now">>})), {0, -15}),
    ptyRaw |-> [Status(NotReaped(Promises(Program(ptyRaw), {<<>>, <<"now">>})), {0, 1, -15})
                  EXCEPT !.shared = {"mode"}],
    ptyIgnore |-> [NotReaped(Promises(Program(ptyIgnore), {<<"reply">>})) EXCEPT !.stdin = <<"line">>],
    ptyDriver |-> [NotReaped(Promises(Program(ptyDriver), {<<>>})) EXCEPT !.faults = FALSE] ]

AllPrograms == ProcTable @@ SignalTable @@ DaemonTable @@ ThreadTable @@ SocketTable @@ TerminalTable
=============================================================================
