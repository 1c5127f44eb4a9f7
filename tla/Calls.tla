------------------------------- MODULE Calls --------------------------------
(***************************************************************************)
(* The statements programs are written with: one constructor per system    *)
(* call or library function, as the sources under src/ use it.  Module     *)
(* Unix says what each does.  A statement has a target x, a second operand *)
(* y, a number n, a text v, a set s, and three continuations: a when it    *)
(* succeeds, b for the other outcome, c when it fails or is interrupted.   *)
(***************************************************************************)
EXTENDS Integers, Sequences

Stmt(op, x) == [op |-> op, x |-> x, y |-> "", n |-> 0, v |-> "", s |-> {},
                a |-> <<>>, b |-> <<>>, c |-> <<>>]

Exit(n)  == [Stmt("exit", "") EXCEPT !.n = n]      \* flushes stdout first
Exit_(n) == [Stmt("_exit", "") EXCEPT !.n = n]
ErrSys   == <<Exit(1)>>                            \* err_sys, err_quit

-----------------------------------------------------------------------------
(* Variables and control; a variable starts as 0.                          *)
Set(x, n)         == [Stmt("set", x) EXCEPT !.n = n]
Add(x, n)         == [Stmt("add", x) EXCEPT !.n = n]
GetPid(x)         == Stmt("getpid", x)
If(x, r, n, a, b) == [Stmt("if", x) EXCEPT !.y = r, !.n = n, !.a = a, !.b = b]
IfGot(m, a, b)    == If(m, "got", 0, a, b)         \* what was read is m
While(x, r, n, a) == [Stmt("while", x) EXCEPT !.y = r, !.n = n, !.a = a]
Forever(a)        == While("no variable", "=", 0, a)
Expect(x, n)      == If(x, "=", n, <<>>, ErrSys)
Either(a, b)      == [Stmt("either", "") EXCEPT !.a = a, !.b = b]
Sleep             == Stmt("sleep", "")
Work              == [Sleep EXCEPT !.v = "work"]   \* what a daemon is there for
Outlast           == [Sleep EXCEPT !.n = 1]        \* longer than the alarm clock
Setjmp(j, a, b)   == [Stmt("setjmp", j) EXCEPT !.a = a, !.b = b]
Longjmp(j)        == Stmt("longjmp", j)
Siglongjmp(j)     == Stmt("siglongjmp", j)

-----------------------------------------------------------------------------
(* Descriptors: pipe(fd) opens "fd[0]" for reading, "fd[1]" for writing.   *)
Pipe(d)           == [Stmt("pipe", d) EXCEPT !.c = ErrSys]
SPipe(d)          == [Stmt("spipe", d) EXCEPT !.c = ErrSys]  \* socketpair
Close(d)          == Stmt("close", d)
Dup2(d, e)        == [Stmt("dup2", d) EXCEPT !.y = e]
Read(d, eof)      == [Stmt("read", d) EXCEPT !.b = eof, !.c = ErrSys]
WhileRead(d, a)   == [Stmt("whileread", d) EXCEPT !.a = a, !.c = ErrSys]
RecvFd(d, e, eof) == [Read(d, eof) EXCEPT !.y = e]           \* SCM_RIGHTS
Write(d, v)       == [Stmt("write", d) EXCEPT !.v = v, !.c = ErrSys]
WriteGot(d)       == Write(d, "$")                           \* what was read
WriteNb(d, v, full) == [Write(d, v) EXCEPT !.op = "writenb", !.c = full]
SendFd(d, e)      == [Write(d, "fd") EXCEPT !.y = e]
Printf(v)         == [Stmt("printf", "") EXCEPT !.v = v]
PrintVar(v, x)    == [Stmt("printf", x) EXCEPT !.v = v]
PrMask(v)         == [Stmt("prmask", "") EXCEPT !.v = v]
Fflush            == Stmt("fflush", "")
Tcsetattr(mode)   == [Stmt("tcsetattr", "mode") EXCEPT !.n = mode]
CHANGING          == -1                            \* the mode is about to change

-----------------------------------------------------------------------------
(* Processes.  Without an error path of its own a call ends in err_sys.    *)
Fork(x, child, parent)     == [Stmt("fork", x) EXCEPT !.a = child, !.b = parent, !.c = ErrSys]
ForkElse(x, child, par, c) == [Fork(x, child, par) EXCEPT !.c = c]
Vfork(x, child, parent)    == [Fork(x, child, parent) EXCEPT !.op = "vfork"]
Exec(image, c)             == [Stmt("exec", "") EXCEPT !.a = image, !.c = c]
Wait(x, status, c)         == [Stmt("wait", x) EXCEPT !.y = status, !.b = c, !.c = c]
Waitpid(x, status, b, c)   == [Stmt("waitpid", x) EXCEPT !.y = status, !.b = b, !.c = c]

-----------------------------------------------------------------------------
(* Signals.                                                                *)
Default           == [k |-> "dfl", code |-> <<>>, restart |-> FALSE]
Kill(x, sig)      == [Stmt("kill", x) EXCEPT !.y = sig]      \* x: variable, self, parent
Sigaction(sig, k, a) == [Stmt("sigaction", k) EXCEPT !.y = sig, !.a = a]  \* EINTR
Catch(sig, a)     == Sigaction(sig, "fn", a)
Block(s)          == [Stmt("block", "") EXCEPT !.s = s]
Unblock(s)        == [Stmt("unblock", "") EXCEPT !.s = s]
SetMask(s)        == [Stmt("setmask", "") EXCEPT !.s = s]
SigReturn(s)      == SetMask(s)                              \* end of a handler
Sigsuspend(s)     == [Stmt("sigsuspend", "") EXCEPT !.s = s]
Pause             == Stmt("pause", "")
Alarm(n)          == [Stmt("alarm", "unslept") EXCEPT !.n = n]
IfPending(sig, a) == [Stmt("sigpending", "") EXCEPT !.y = sig, !.a = a]
SigWait(s)        == [Stmt("sigwait", "") EXCEPT !.s = s]

-----------------------------------------------------------------------------
(* Threads, record locks, stream sockets.                                  *)
Create(x, a)      == [Stmt("create", x) EXCEPT !.a = a, !.c = ErrSys]
ThreadExit        == Stmt("texit", "")
Join(x)           == Stmt("join", x)
Lock(m)           == Stmt("lock", m)
RLock(m)          == [Stmt("lock", m) EXCEPT !.n = 1]        \* recursive
Unlock(m)         == Stmt("unlock", m)
TimedOut(m, c)    == [Stmt("timedlock", m) EXCEPT !.c = c]
CondWait(c, m)    == [Stmt("cwait", c) EXCEPT !.y = m]
CondSignal(c)     == Stmt("csignal", c)
Barrier(b, n)     == [Stmt("barrier", b) EXCEPT !.n = n]
SetLk(f, ty, a, c)== [Stmt("setlk", f) EXCEPT !.y = ty, !.a = a, !.c = c]
SetLkw(f, ty, c)  == [Stmt("setlkw", f) EXCEPT !.y = ty, !.c = c]
Listen(name)      == [Stmt("listen", "") EXCEPT !.y = name]
Connect(d, name, c) == [Stmt("connect", d) EXCEPT !.y = name, !.c = c]
Accept(d, name)   == [Stmt("accept", d) EXCEPT !.y = name, !.c = ErrSys]
=============================================================================
