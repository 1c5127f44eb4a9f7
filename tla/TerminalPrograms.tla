-------------------------- MODULE TerminalPrograms ---------------------------
(***************************************************************************)
(* The programs of termios/ and pty/, and lib/ttymodes.c: they change the  *)
(* mode of the user's terminal and have to give it back as it was.         *)
(***************************************************************************)
EXTENDS Libapue

NOECHO == 1                                        \* RAW of module Unix is 2
RESET == 0                                         \* CHANGING, too, is RESET
raw == 2
cbreak == 3

(* ttystate is set after the mode has been changed, and verified: when     *)
(* only part of it took, it is changed back and the caller gives up.  That *)
(* ttystate lags behind the mode is recorded (history): CHANGING is RESET  *)
(* to the program, which knows no better.                                  *)
tty_mode(m) == << If("ttystate", ">", RESET, ErrSys, <<>>), Set("ttystate", CHANGING), Tcsetattr(m),
                  Either(<<>>, <<Tcsetattr(0)>> \o ErrSys), Set("ttystate", m) >>
tty_cbreak == tty_mode(cbreak)
tty_raw    == tty_mode(raw)
tty_reset  == << If("ttystate", ">", RESET, <<Tcsetattr(0), Set("ttystate", RESET)>>, <<>>) >>
tty_atexit == tty_reset

sig_catch == << Printf("signal caught") >> \o tty_reset \o << Exit(0) >>
t_raw == << Signal("INT", sig_catch), Signal("QUIT", sig_catch), Signal("TERM", sig_catch) >>
         \o tty_raw
         \o << Printf("Enter raw mode"), Set("i", 1),
               While("i", "=", 1,
                 << [Read("0", <<Set("i", 0)>>) EXCEPT
                       !.a = << IfGot("DEL", <<Set("i", -1)>>, <<Printf("$")>>) >>,
                       !.c = <<Set("i", 0)>>] >>) >>
         \o tty_reset \o << If("i", "=", 0, ErrSys, <<>>) >> \o tty_cbreak
         \o << Printf("Enter cbreak mode"), [WhileRead("0", <<Printf("$")>>) EXCEPT !.c = <<>>] >>
         \o tty_reset \o ErrSys

(* (mutant) no signal is blocked                                           *)
getpassUnblocked == << Tcsetattr(NOECHO), Write("1", "Enter password:"), Read("0", <<>>), Tcsetattr(0) >>
getpass == << Block({"INT", "TSTP"}), Tcsetattr(NOECHO), Write("1", "Enter password:"),
              Read("0", <<>>), Tcsetattr(0), SetMask({}) >>
t_getpass == getpass \o << Printf("$"), Exit(0) >>

-----------------------------------------------------------------------------
(* pty/: the slave is "pty[1]", which only the child opens.                *)

pty_fork(child) == << SPipe("pty"),
                      Fork("pid", << Close("pty[0]"), Dup2("pty[1]", "0"), Dup2("pty[1]", "1"),
                                     Close("pty[1]") >> \o child, << Close("pty[1]") >>) >>
loop(ignoreeof, atexit) ==
  << ForkElse("child", << WhileRead("0", <<WriteGot("pty[0]")>>) >>
                       \o (IF ignoreeof THEN <<>> ELSE << Kill("parent", "TERM") >>)
                       \o atexit \o << Exit(0) >>, <<>>, atexit \o ErrSys),
     SignalIntr("TERM", <<Set("sigcaught", 1)>>),
     [WhileRead("pty[0]", <<WriteGot("1")>>) EXCEPT !.c = <<>>],
     If("sigcaught", "=", 0, <<Kill("child", "TERM")>>, <<>>) >>
do_driver(driver) ==
  << SPipe("pipe"),
     Fork("driver", << Close("pipe[1]"), Dup2("pipe[0]", "0"), Dup2("pipe[0]", "1"), Close("pipe[0]"),
                       Exec(driver, ErrSys) >>, <<>>),
     Close("pipe[0]"), Dup2("pipe[1]", "0"), Dup2("pipe[1]", "1"), Close("pipe[1]") >>
pty(program, driver, ignoreeof, interactive) ==
  pty_fork(<< Exec(program, ErrSys) >>)
  \o (IF interactive THEN tty_raw ELSE <<>>) \o driver
  \o loop(ignoreeof, IF interactive THEN tty_atexit ELSE <<>>)
  \o (IF interactive THEN tty_atexit ELSE <<>>) \o << Exit(0) >>

Date == << Write("1", "now"), Exit(0) >>
Ask  == << Read("0", <<>>), Write("1", "reply"), Exit(0) >>
Expecting == << Write("1", "line"), Read("0", <<>>), Exit(0) >>
ptyDate   == pty(Date, <<>>, FALSE, FALSE)
ptyRaw    == pty(Date, <<>>, FALSE, TRUE)
ptyIgnore == pty(Ask, <<>>, TRUE, FALSE)
ptyDriver == pty(Ask, do_driver(Expecting), TRUE, FALSE)
=============================================================================
