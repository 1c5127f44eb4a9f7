--------------------------- MODULE ThreadPrograms ---------------------------
(***************************************************************************)
(* The programs of threads/, threadctl/ and exercises/ that use threads.   *)
(* Threads share the variables of their process; a variable of one thread  *)
(* carries the name of the thread.                                         *)
(***************************************************************************)
EXTENDS Libapue

Returning(code) == code \o << ThreadExit >>
Locked(m, code) == << Lock(m) >> \o code \o << Unlock(m) >>

-----------------------------------------------------------------------------
(* threads/: starting and joining                                          *)

PrintFoo(s, a) == << Printf(s), PrintVar("  foo.a = ", a) >>

goodexit == << Create("tid1", Returning(<< Set("fp.a", 1) >> \o PrintFoo("thread:", "fp.a"))),
               Join("tid1") >> \o PrintFoo("parent:", "fp.a") \o << Exit(0) >>

(* foo is on the stack of thread 1: the second thread may reuse it.        *)
badexit2 == << Create("tid1", Returning(<< Set("foo.a", 1) >> \o PrintFoo("thread 1:", "foo.a"))),
               Join("tid1"), Sleep, Printf("parent starting second thread"),
               Create("tid2", Returning(<< Printf("thread 2: ID is"),
                                           Either(<<>>, <<Set("foo.a", -1)>>) >>)),
               Outlast >> \o PrintFoo("parent:", "foo.a") \o << Exit(0) >>

JoinBoth == << Join("tid1"), PrintVar("thread 1 exit code ", "tret1"),
               Join("tid2"), PrintVar("thread 2 exit code ", "tret2"), Exit(0) >>
exitstatus == << Create("tid1", Returning(<<Printf("thread 1 returning"), Set("tret1", 1)>>)),
                 Create("tid2", Returning(<<Printf("thread 2 exiting"), Set("tret2", 2)>>)) >>
              \o JoinBoth

(* The handlers run in reverse order; those of thread 1, which returns     *)
(* between push and pop, may or may not (undefined).                       *)
handlers(thread) == << Printf(thread \o " second handler"), Printf(thread \o " first handler") >>
started(thread)  == << Printf(thread \o " start"), Printf(thread \o " push complete") >>
cleanup == << Create("tid1", Returning(started("1") \o << Either(<<>>, handlers("1")),
                                                         Set("tret1", 1) >>)),
              Create("tid2", Returning(started("2") \o handlers("2") \o << Set("tret2", 2) >>)) >>
           \o JoinBoth

threadid == << Create("ntid", Returning(<<Printf("new thread: ")>>)), Printf("main thread:"),
               Sleep, Exit(0) >>

-----------------------------------------------------------------------------
(* threads/: objects with reference counts.  What calls foo_*: threads     *)
(* that look for the object while main creates and releases it.            *)

foo_init == << Set("live", 1), Set("f_count", 1) >>
foo_free == << Set("live", 0) >>

(* (mutant) the count is changed without the lock                          *)
hold1Unlocked == << Add("f_count", 1) >>
hold1 == Locked("f_lock", << Add("f_count", 1) >>)
rele1 == << Lock("f_lock"), Add("f_count", -1),
            If("f_count", "=", 0, <<Unlock("f_lock")>> \o foo_free, <<Unlock("f_lock")>>) >>
mutex1 == foo_init \o hold1
          \o << Create("tid1", Returning(hold1 \o rele1 \o rele1)) >> \o rele1
          \o << Join("tid1"), Exit(0) >>

(* foo_alloc of mutex2.c and mutex3.c: hashed under both locks.            *)
alloc == foo_init \o << Lock("hashlock"), Set("fh", 1), Lock("f_lock"), Unlock("hashlock"),
                        Set("f_more", 1), Unlock("f_lock") >>
find2(found) == Locked("hashlock", << If("fh", "=", 1, hold1 \o <<Set(found, 1)>>, <<>>) >>)
(* (mutant) the count is not looked at again                               *)
recheckNot == << Set("fh", 0), Unlock("hashlock"), Unlock("f_lock") >> \o foo_free
recheck == << If("f_count", "=", 1,
                 << Set("fh", 0), Unlock("hashlock"), Unlock("f_lock") >> \o foo_free,
                 << Add("f_count", -1), Unlock("f_lock"), Unlock("hashlock") >>) >>
rele2 == << Lock("f_lock"),
            If("f_count", "=", 1,
               << Unlock("f_lock"), Lock("hashlock"), Lock("f_lock") >> \o recheck,
               << Add("f_count", -1), Unlock("f_lock") >>) >>

hold3 == Locked("hashlock", << Add("f_count", 1) >>)
find3(found) == Locked("hashlock",
                  << If("fh", "=", 1, <<Add("f_count", 1), Set(found, 1)>>, <<>>) >>)
rele3 == << Lock("hashlock"), Add("f_count", -1),
            If("f_count", "=", 0, <<Set("fh", 0), Unlock("hashlock")>> \o foo_free,
                                  <<Unlock("hashlock")>>) >>

User(found, find, use) == Returning(find \o << If(found, "=", 1, use, <<>>) >>)
Objects(find(_), hold, rele) ==
  << Create("tid1", User("fp1", find("fp1"), hold \o rele \o rele)),
     Create("tid2", User("fp2", find("fp2"), rele)) >> \o alloc \o rele
  \o << Join("tid1"), Join("tid2"), If("live", "=", 1, ErrSys, <<>>), Exit(0) >>
mutex2 == Objects(find2, hold1, rele2)
mutex3 == Objects(find3, hold3, rele3)

-----------------------------------------------------------------------------
(* threads/: waiting for each other                                        *)

NTHR == 2
NUMS == << "nums0", "nums1" >>                   \* the parts of nums
merge == [i \in 1 .. NTHR |-> If(NUMS[i], "=", 1, <<>>, ErrSys)]
barrier == [i \in 1 .. NTHR |-> Create("tid", Returning(<<Set(NUMS[i], 1), Barrier("b", NTHR + 1)>>))]
           \o << Barrier("b", NTHR + 1) >> \o merge \o << Printf("sorted"), Exit(0) >>

process_msg == << Lock("qlock"), While("workq", "=", 0, <<CondWait("qready", "qlock")>>),
                  Add("workq", -1), Unlock("qlock") >>
enqueue_msg == Locked("qlock", << Add("workq", 1) >>) \o << CondSignal("qready") >>
(* Two threads process messages until NMSG have been.                      *)
NMSG == 2
Processed == Locked("donelock", << Add("done", 1), If("done", "=", NMSG, <<Exit(0)>>, <<>>) >>)
condvar == << Create("tid1", <<Forever(process_msg \o Processed)>>),
              Create("tid2", <<Forever(process_msg \o Processed)>>) >>
           \o enqueue_msg \o enqueue_msg \o << Forever(<<Pause>>) >>

timedlock == << Lock("lock"), Printf("mutex is locked"),
                TimedOut("lock", <<Printf("can't lock mutex again")>>), Exit(0) >>

-----------------------------------------------------------------------------
(* threadctl/                                                              *)

(* Without a thread to sleep in timeout calls the function itself, while   *)
(* main holds the recursive mutex.                                         *)
retry == << RLock("mutex"), Add("retried", 1), Unlock("mutex") >>
makethread(fn, fail) == << [Create("tid", Returning(fn)) EXCEPT !.c = fail] >>
timeout(func) == makethread(<<Sleep>> \o func, func)
timeoutMain == << RLock("mutex"), Either(<<>>, timeout(retry)), Unlock("mutex"), Exit(0) >>

(* The same in lab_1/test2.c, where the caller sleeps in makepthread.      *)
retryLab == << RLock("mutex"), Printf("retry"), Fflush, Unlock("mutex") >>
makepthread(fn) == makethread(fn, <<Set("err", 1)>>) \o << Outlast >>
timeoutLab(func) == makepthread(<<Sleep>> \o func) \o << If("err", "=", 1, func, <<>>) >>
test2 == << RLock("mutex") >> \o timeoutLab(retryLab) \o << Unlock("mutex"), Exit(0) >>

thr_suspend == << Forever(<< SigWait({"INT", "QUIT"}),
                    IfGot("INT", <<Printf("interrupt")>>,
                          Locked("lock", << Set("quitflag", 1) >>)
                          \o << CondSignal("waitloc"), ThreadExit >>) >>) >>
suspend == << Block({"INT", "QUIT"}), Create("tid", thr_suspend), Lock("lock"),
              While("quitflag", "=", 0, <<CondWait("waitloc", "lock")>>), Unlock("lock"),
              Set("quitflag", 0), SetMask({}), Exit(0) >>

(* The handlers of pthread_atfork run around the fork.                     *)
prepare == << Printf("preparing locks..."), Lock("lock1"), Lock("lock2") >>
parent  == << Printf("parent unlocking locks..."), Unlock("lock1"), Unlock("lock2") >>
child_  == << Printf("child unlocking locks..."), Unlock("lock1"), Unlock("lock2") >>
atfork == << Create("tid", Returning(<<Printf("thread started..."), Pause>>)), Outlast,
             Printf("parent about to fork...") >> \o prepare
          \o << Fork("pid", child_ \o << Printf("child returned from fork") >>,
                            parent \o << Printf("parent returned from fork") >>), Exit(0) >>

(* Two threads look up two variables of the environment, "A=1" and "B=2".  *)
Lookups(getenv(_, _)) ==
  << Create("tid1", Returning(getenv("A", 1))), Create("tid2", Returning(getenv("B", 2))),
     Join("tid1"), Join("tid2"), Exit(0) >>

getenv1(name, value) == << Set("envbuf", value), PrintVar(name \o "=", "envbuf") >>

Once(init) == Locked("once", << If("init_done", "=", 0, init \o <<Set("init_done", 1)>>, <<>>) >>)
getenv_r(name, value) ==
  Once(<< Set("env_mutex", 0) >>)
  \o << RLock("env_mutex"), Either(<<Set("buf" \o name, value)>>, <<Set("buf" \o name, -1)>>),
        Unlock("env_mutex"), PrintVar(name \o "=", "buf" \o name) >>     \* -1: ENOSPC

getenv3(name, value) ==
  Once(<< Set("key", 1) >>)
  \o << Lock("env_mutex"),
        Either(<< Set("envbuf" \o name, value), Unlock("env_mutex"),
                  PrintVar(name \o "=", "envbuf" \o name) >>,
               << Unlock("env_mutex") >>) >>                             \* malloc failed

getenv1Main == Lookups(getenv1)
getenv2Main == Lookups(getenv_r)
getenv3Main == Lookups(getenv3)
=============================================================================
