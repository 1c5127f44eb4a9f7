-------------------------- MODULE OpendPollProofs ---------------------------
(***************************************************************************)
(* Theorems about OpendPoll, for any users, any number of connections and  *)
(* any size of its two tables: both hold the connections and nothing else  *)
(* (TablesExact), and what poll has said of a connection is acted on       *)
(* before poll is called again, although the array is packed while the     *)
(* loop goes over it (NoneSkipped).                                        *)
(***************************************************************************)
EXTENDS OpendPoll, OpendProofs

Slot == [fd : {-1, listenfd} \cup Fds, revents : Revents]

\* The first num entries of the array p are the descriptor that is listened
\* on and the connections conns, each once.
PollEach(p, num, conns) ==
    /\ p \in Seq(Slot) /\ Len(p) \in Nat /\ num \in 1 .. Len(p)
    /\ p[1].fd = listenfd
    /\ \A n \in 2 .. num : p[n].fd \in conns
    /\ \A fd \in conns : \E n \in 2 .. num : p[n].fd = fd
    /\ \A m, n \in 2 .. num : p[m].fd = p[n].fd => m = n

\* The entries before the index have been acted on.
Acted == pc = "scan" => \A n \in 2 .. i : n <= numfd => pollfd[n].revents # "POLLHUP"

Listening == \E n \in 1 .. Len(client) : client[n].fd = listenfd

LoopOK ==
    /\ pc \in {"poll", "accept", "scan"} /\ (pc = "accept" => i = 1)
    /\ i \in 1 .. MaxConns + 1
    /\ Listening /\ Cardinality(Connected) = numfd - 1
    /\ PollEach(pollfd, numfd, Connected)

PInv == WorldInv /\ LoopOK /\ Acted

-----------------------------------------------------------------------------
\* pollfd[]

LEMMA SlotOfUnused == Unused \in Slot
BY DEF Unused, Slot, Revents

\* An entry for a new connection, in an array that has grown when it had to.
LEMMA Grown ==
  ASSUME NEW p, NEW num, NEW conns, PollEach(p, num, conns),
         conns \subseteq Fds, NEW fd \in Fds, fd \notin conns
  PROVE  LET t == IF num = Len(p) THEN grow_pollfd(p) ELSE p
         IN  PollEach([t EXCEPT ![num + 1] = [fd |-> fd, revents |-> "0"]], num + 1, conns \cup {fd})
<1>. DEFINE more == [n \in 1 .. NALLOC |-> Unused]
            t == IF num = Len(p) THEN grow_pollfd(p) ELSE p
            new == [fd |-> fd, revents |-> "0"]
            q == [t EXCEPT ![num + 1] = new]
<1>1. p \in Seq(Slot) /\ Len(p) \in Nat /\ num \in 1 .. Len(p)
  BY DEF PollEach
<1>2. new \in Slot /\ new.fd = fd
  BY DEF Slot, Revents
<1>3. t \in Seq(Slot) /\ num + 1 \in 1 .. Len(t) /\ Len(t) \in Nat
      /\ \A n \in 1 .. num : t[n] = p[n]
  <2>1. CASE num = Len(p)
    <3>1. NALLOC \in Nat /\ NALLOC > 0
      BY OpendAssumption
    <3>2. more \in Seq(Slot) /\ Len(more) = NALLOC
      <4>1. more \in [1 .. NALLOC -> Slot]
        BY SlotOfUnused
      <4>. HIDE DEF more
      <4>. QED
        BY <3>1, <4>1
    <3>. HIDE DEF more
    <3>3. t = p \o more
      BY <2>1 DEF grow_pollfd, more
    <3>. HIDE DEF t
    <3>4. /\ p \o more \in Seq(Slot)
          /\ Len(p \o more) = Len(p) + NALLOC
          /\ \A n \in 1 .. Len(p) + NALLOC :
                (p \o more)[n] = IF n <= Len(p) THEN p[n] ELSE more[n - Len(p)]
      BY <1>1, <3>2, ConcatProperties
    <3>5. \A n \in 1 .. num : n \in 1 .. Len(p) + NALLOC /\ n <= Len(p)
      BY <1>1, <2>1, <3>1
    <3>6. num + 1 \in 1 .. Len(p) + NALLOC /\ Len(p) + NALLOC \in Nat
      BY <1>1, <2>1, <3>1
    <3>. QED
      BY <3>3, <3>4, <3>5, <3>6
  <2>2. CASE num # Len(p)
    <3>1. t = p
      BY <2>2
    <3>. HIDE DEF t
    <3>. QED
      BY <1>1, <2>2, <3>1
  <2>. QED
    BY <2>1, <2>2
<1>. HIDE DEF t, new
<1>4. /\ q \in Seq(Slot) /\ Len(q) = Len(t)
      /\ \A n \in 1 .. Len(t) : q[n] = IF n = num + 1 THEN new ELSE t[n]
  BY <1>2, <1>3, ExceptSeq
<1>. HIDE DEF q
<1>5. q[num + 1] = new
  BY <1>3, <1>4
<1>6. \A n \in 1 .. num : q[n] = p[n]
  <2>. SUFFICES ASSUME NEW n \in 1 .. num PROVE q[n] = p[n]
    OBVIOUS
  <2>1. n \in 1 .. Len(t) /\ n # num + 1
    BY <1>1, <1>3
  <2>. QED
    BY <1>3, <1>4, <2>1
<1>7. ASSUME NEW n \in 2 .. num + 1
      PROVE  (n = num + 1 /\ q[n].fd = fd) \/ (n \in 2 .. num /\ q[n] = p[n] /\ q[n].fd \in conns)
  <2>1. n = num + 1 \/ (n \in 2 .. num /\ n \in 1 .. num)
    BY <1>1, <1>7
  <2>. QED
    BY <1>2, <1>5, <1>6, <2>1 DEF PollEach
<1>8. q[1].fd = listenfd
  BY <1>1, <1>6 DEF PollEach
<1>9. \A n \in 2 .. num + 1 : q[n].fd \in conns \cup {fd}
  BY <1>7
<1>10. ASSUME NEW x \in conns \cup {fd} PROVE \E n \in 2 .. num + 1 : q[n].fd = x
  <2>1. CASE x = fd
    <3>1. num + 1 \in 2 .. num + 1
      BY <1>1
    <3>. QED
      BY <1>2, <1>5, <2>1, <3>1
  <2>2. CASE x # fd
    <3>1. PICK n \in 2 .. num : p[n].fd = x
      BY <1>10, <2>2 DEF PollEach
    <3>2. n \in 2 .. num + 1 /\ n \in 1 .. num
      BY <1>1
    <3>. QED
      BY <1>6, <3>1, <3>2
  <2>. QED
    BY <2>1, <2>2
<1>11. ASSUME NEW m \in 2 .. num + 1, NEW n \in 2 .. num + 1, q[m].fd = q[n].fd PROVE m = n
  <2>1. (m = num + 1 /\ q[m].fd = fd) \/ (m \in 2 .. num /\ q[m] = p[m] /\ q[m].fd \in conns)
    BY <1>7
  <2>2. (n = num + 1 /\ q[n].fd = fd) \/ (n \in 2 .. num /\ q[n] = p[n] /\ q[n].fd \in conns)
    BY <1>7
  <2>3. m \in 2 .. num /\ n \in 2 .. num /\ p[m].fd = p[n].fd => m = n
    BY DEF PollEach
  <2>. QED
    BY <1>11, <2>1, <2>2, <2>3
<1>12. Len(q) \in Nat /\ num + 1 \in 1 .. Len(q)
  BY <1>3, <1>4
<1>13. PollEach(q, num + 1, conns \cup {fd})
  BY <1>4, <1>8, <1>9, <1>10, <1>11, <1>12 DEF PollEach
<1>. QED
  BY <1>13 DEF q, t, new

\* The last entry takes the place of one that is closed.
LEMMA Packed ==
  ASSUME NEW p, NEW num, NEW conns, PollEach(p, num, conns), NEW k \in 2 .. num
  PROVE  LET q == IF k < num THEN [p EXCEPT ![k] = p[num]] ELSE p IN
         /\ PollEach(q, num - 1, conns \ {p[k].fd})
         /\ \A n \in 2 .. k - 1 : q[n] = p[n]
<1>. DEFINE q == IF k < num THEN [p EXCEPT ![k] = p[num]] ELSE p
<1>1. p \in Seq(Slot) /\ Len(p) \in Nat /\ num \in 1 .. Len(p) /\ k \in Nat /\ num >= 2 /\ num - 1 \in 1 .. Len(p)
  BY DEF PollEach
<1>2. /\ q \in Seq(Slot) /\ Len(q) = Len(p)
      /\ \A n \in 1 .. Len(p) : q[n] = IF k < num /\ n = k THEN p[num] ELSE p[n]
  <2>1. CASE k < num
    <3>1. k \in 1 .. Len(p) /\ p[num] \in Slot
      BY <1>1, ElementOfSeq
    <3>2. q = [p EXCEPT ![k] = p[num]]
      BY <2>1
    <3>. HIDE DEF q
    <3>. QED
      BY <1>1, <2>1, <3>1, <3>2, ExceptSeq
  <2>2. CASE ~(k < num)
    <3>1. q = p
      BY <2>2
    <3>. HIDE DEF q
    <3>. QED
      BY <1>1, <2>2, <3>1
  <2>. QED
    BY <2>1, <2>2
<1>. HIDE DEF q
\* An entry of the shorter array is an entry of the longer one that stays.
<1>3. ASSUME NEW n \in 2 .. num - 1
      PROVE  (n # k /\ n \in 2 .. num /\ q[n] = p[n]) \/ (n = k /\ k < num /\ q[n] = p[num])
  <2>1. n \in 2 .. num /\ n \in 1 .. Len(p) /\ (n = k => k < num)
    BY <1>1
  <2>. QED
    BY <1>2, <2>1
<1>4. num \in 2 .. num /\ (k < num => num # k)
  BY <1>1
<1>5. \A n \in 2 .. num - 1 : q[n].fd \in conns \ {p[k].fd}
  BY <1>3, <1>4 DEF PollEach
<1>6. ASSUME NEW x \in conns \ {p[k].fd} PROVE \E n \in 2 .. num - 1 : q[n].fd = x
  <2>1. PICK n \in 2 .. num : p[n].fd = x
    BY <1>6 DEF PollEach
  <2>2. n # k
    BY <1>6, <2>1
  <2>3. CASE n = num
    <3>1. k \in 2 .. num - 1 /\ k < num /\ k \in 1 .. Len(p)
      BY <1>1, <2>2, <2>3
    <3>. QED
      BY <1>2, <2>1, <2>3, <3>1
  <2>4. CASE n # num
    <3>1. n \in 2 .. num - 1 /\ n \in 1 .. Len(p)
      BY <1>1, <2>1, <2>4
    <3>. QED
      BY <1>2, <2>1, <2>2, <3>1
  <2>. QED
    BY <2>3, <2>4
<1>7. \A m, n \in 2 .. num - 1 : n # num /\ (q[m].fd = q[n].fd => m = n)
  <2>1. \A n \in 2 .. num - 1 : n # num
    BY <1>1
  <2>. QED
    BY <1>3, <1>4, <2>1 DEF PollEach
<1>8. q[1].fd = listenfd
  <2>1. 1 \in 1 .. Len(p) /\ k # 1
    BY <1>1
  <2>. QED
    BY <1>2, <2>1 DEF PollEach
<1>9. PollEach(q, num - 1, conns \ {p[k].fd})
  BY <1>1, <1>2, <1>5, <1>6, <1>7, <1>8 DEF PollEach
<1>10. \A n \in 2 .. k - 1 : q[n] = p[n]
  <2>1. \A n \in 2 .. k - 1 : n \in 1 .. Len(p) /\ n # k
    BY <1>1
  <2>. QED
    BY <1>2, <2>1
<1>. QED
  BY <1>9, <1>10 DEF q

\* What poll says of the entries is all that Poll changes.
LEMMA Marked ==
  ASSUME NEW p, NEW num, NEW conns, PollEach(p, num, conns), NEW q \in Seq(Slot), Len(q) = Len(p),
         \A n \in 1 .. Len(p) : q[n].fd = p[n].fd
  PROVE  PollEach(q, num, conns)
<1>1. num \in 1 .. Len(p) /\ Len(p) \in Nat
  BY DEF PollEach
<1>2. q[1].fd = p[1].fd /\ \A n \in 2 .. num : q[n].fd = p[n].fd
  <2>1. 1 \in 1 .. Len(p) /\ \A n \in 2 .. num : n \in 1 .. Len(p)
    BY <1>1
  <2>. QED
    BY <2>1
<1>. QED
  BY <1>2 DEF PollEach

-----------------------------------------------------------------------------
\* The loop

LEMMA PInvFacts ==
  ASSUME PInv
  PROVE  /\ client \in Seq(Client) /\ Len(client) \in Nat
         /\ OneEach(client, sock) /\ Connected = Used(sock) /\ Connected \subseteq Fds
         /\ -1 \notin Fds /\ listenfd \notin Fds
         /\ pollfd \in Seq(Slot) /\ Len(pollfd) \in Nat
         /\ numfd \in 1 .. Len(pollfd) /\ numfd \in Nat /\ numfd >= 1
         /\ i \in Nat /\ i >= 1 /\ MaxConns \in Nat
<1>1. WorldInv /\ PollEach(pollfd, numfd, Connected) /\ i \in 1 .. MaxConns + 1
  BY DEF PInv, LoopOK
<1>2. Connected \subseteq Fds
  BY DEF Connected
<1>3. pollfd \in Seq(Slot) /\ Len(pollfd) \in Nat /\ numfd \in 1 .. Len(pollfd)
  BY <1>1 DEF PollEach
<1>. QED
  BY <1>1, <1>2, <1>3, WorldFacts, OpendAssumption

\* There are as many connections as entries after the first, no more than
\* MaxConns, and the table of clients has an entry for each, and one for the
\* descriptor that is listened on: client[i] exists wherever the loop is.
LEMMA EnoughClients ==
  ASSUME PInv
  PROVE  /\ IsFiniteSet(Connected) /\ numfd <= MaxConns + 1 /\ numfd <= Len(client)
<1>1. /\ client \in Seq(Client) /\ Len(client) \in Nat
      /\ OneEach(client, sock) /\ Connected = Used(sock) /\ Connected \subseteq Fds
      /\ listenfd \notin Fds /\ numfd \in Nat /\ MaxConns \in Nat
  BY PInvFacts
<1>2. IsFiniteSet(Connected) /\ Cardinality(Connected) <= MaxConns
  BY <1>1, FdsCounted, FS_Subset
<1>3. Cardinality(Connected) = numfd - 1
  BY DEF PInv, LoopOK
<1>. DEFINE S == Connected \cup {listenfd}
            f == [x \in S |-> Entry(client, x)]
<1>4. IsFiniteSet(S) /\ Cardinality(S) = numfd
  <2>1. listenfd \notin Connected
    BY <1>1
  <2>2. IsFiniteSet(S) /\ Cardinality(S) = Cardinality(Connected) + 1
    BY <1>2, <2>1, FS_AddElement
  <2>. QED
    BY <1>1, <1>3, <2>2
<1>5. \A x \in S : Entry(client, x) \in 1 .. Len(client) /\ client[Entry(client, x)].fd = x
  <2>. SUFFICES ASSUME NEW x \in S
                PROVE  Entry(client, x) \in 1 .. Len(client) /\ client[Entry(client, x)].fd = x
    OBVIOUS
  <2>1. \E n \in 1 .. Len(client) : client[n].fd = x
    BY <1>1 DEF OneEach, PInv, LoopOK, Listening
  <2>. QED
    BY <1>1, <2>1, EntryProperties
<1>6. f \in Injection(S, 1 .. Len(client))
  BY <1>5 DEF Injection, IsInjective
<1>7. IsFiniteSet(1 .. Len(client)) /\ Cardinality(1 .. Len(client)) = Len(client)
  <2>1. /\ IsFiniteSet(1 .. Len(client))
        /\ Cardinality(1 .. Len(client)) = IF 1 > Len(client) THEN 0 ELSE Len(client) - 1 + 1
    BY <1>1, FS_Interval
  <2>2. (IF 1 > Len(client) THEN 0 ELSE Len(client) - 1 + 1) = Len(client)
    BY <1>1
  <2>. QED
    BY <2>1, <2>2
<1>. HIDE DEF f, S
<1>8. Cardinality(S) <= Cardinality(1 .. Len(client))
  BY <1>6, <1>7, FS_Injection
<1>9. numfd <= Len(client)
  BY <1>4, <1>7, <1>8
<1>10. numfd <= MaxConns + 1
  <2>1. PICK c \in Nat : c = Cardinality(Connected)
    BY <1>2, FS_CardinalityType
  <2>2. c <= MaxConns /\ c = numfd - 1
    BY <1>2, <1>3, <2>1
  <2>. QED
    BY <1>1, <2>1, <2>2
<1>. QED
  BY <1>2, <1>9, <1>10

LEMMA InitPInv == Init => PInv
<1>. SUFFICES ASSUME Init PROVE PInv
  OBVIOUS
<1>1. << >> \in Seq(Client) /\ Len(<< >>) = 0
  BY EmptySeq
<1>2. Added(<< >>, client, listenfd, "root")
  BY <1>1, AddProperties DEF Init
<1>3. client \in Seq(Client) /\ Len(client) \in Nat
  BY <1>2 DEF Added
<1>4. PICK e \in 1 .. Len(client) :
            /\ client[e] = [fd |-> listenfd, uid |-> "root"]
            /\ \A n \in 1 .. Len(client) : n # e =>
                  IF n <= Len(<< >>) THEN client[n] = << >>[n] ELSE client[n] = Free
  BY <1>2 DEF Added
<1>5. \A n \in 1 .. Len(client) : client[n].fd = listenfd \/ client[n] = Free
  <2>1. \A n \in 1 .. Len(client) : ~(n <= 0)
    BY <1>3
  <2>. QED
    BY <1>1, <1>4, <2>1
<1>6. Connected = {} /\ -1 \notin Fds /\ listenfd \notin Fds
  BY OpendAssumption DEF Init, Connected, Fds, listenfd
<1>7. OneClientPerConnection
  <2>1. \A n \in 1 .. Len(client) : client[n].fd \notin Fds
    BY <1>5, <1>6 DEF Free
  <2>2. OneEach(client, sock)
    BY <1>6, <2>1 DEF OneEach, Used, Connected
  <2>. QED
    BY <1>3, <2>2, OneEachIs
<1>8. WorldOK
  <2>1. client \in Seq([fd : {-1, listenfd} \cup Fds, uid : Uids \cup {"none", "root"}])
    BY <1>3 DEF Client
  <2>2. calling \subseteq Uids /\ calls \in 0 .. MaxCalls /\ up \in BOOLEAN
        /\ sock \in [Fds -> Sock \cup {NoSock}]
        /\ given \in [uid : Uids \cup {"none", "root"}, of : Uids \cup {"none"}]
    BY OpendAssumption DEF Init
  <2>. QED
    BY <2>1, <2>2 DEF WorldOK
<1>9. PollEach(pollfd, numfd, Connected)
  <2>1. NALLOC \in Nat /\ NALLOC > 0 /\ numfd = 1
    BY OpendAssumption DEF Init
  <2>2. [Unused EXCEPT !.fd = listenfd] \in Slot /\ [Unused EXCEPT !.fd = listenfd].fd = listenfd
    BY DEF Unused, Slot, Revents
  <2>3. pollfd \in [1 .. NALLOC -> Slot] /\ pollfd[1].fd = listenfd
    BY <2>1, <2>2, SlotOfUnused DEF Init
  <2>4. pollfd \in Seq(Slot) /\ Len(pollfd) = NALLOC
    BY <2>1, <2>3
  <2>5. \A n \in 2 .. numfd : FALSE
    BY <2>1
  <2>6. 1 \in 1 .. NALLOC
    BY <2>1
  <2>. QED
    BY <1>6, <2>1, <2>3, <2>4, <2>5, <2>6 DEF PollEach
<1>10. Cardinality(Connected) = numfd - 1
  BY <1>6, FS_EmptySet DEF Init
<1>11. LoopOK /\ Acted
  <2>1. i = 1 /\ pc = "poll" /\ i \in 1 .. MaxConns + 1
    BY OpendAssumption DEF Init
  <2>. QED
    BY <1>4, <1>9, <1>10, <2>1 DEF LoopOK, Acted, Listening
<1>. QED
  BY <1>7, <1>8, <1>11 DEF PInv, WorldInv

LEMMA PollKept ==
  ASSUME PInv, Poll
  PROVE  PInv'
<1>1. /\ pollfd \in Seq(Slot) /\ Len(pollfd) \in Nat /\ MaxConns \in Nat
      /\ numfd \in 1 .. Len(pollfd) /\ numfd \in Nat
  BY PInvFacts
<1>2. UNCHANGED world /\ UNCHANGED numfd /\ i' = 1 /\ pc' \in {"accept", "scan"}
  BY DEF Poll
<1>3. WorldInv' /\ Connected' = Connected /\ Listening'
  BY <1>2 DEF world, PInv, LoopOK, WorldInv, WorldOK, OneClientPerConnection, Connected, Listening
<1>. DEFINE q == [n \in DOMAIN pollfd |->
                    IF n <= numfd THEN [pollfd[n] EXCEPT !.revents = Revent(pollfd[n].fd)]
                    ELSE pollfd[n]]
<1>4. \A n \in 1 .. Len(pollfd) : q[n] \in Slot /\ q[n].fd = pollfd[n].fd
  <2>. SUFFICES ASSUME NEW n \in 1 .. Len(pollfd) PROVE q[n] \in Slot /\ q[n].fd = pollfd[n].fd
    OBVIOUS
  <2>1. n \in DOMAIN pollfd /\ pollfd[n] \in Slot
    BY <1>1, ElementOfSeq, LenProperties
  <2>2. Revent(pollfd[n].fd) \in Revents
    BY DEF Revent, Revents
  <2>3. /\ [pollfd[n] EXCEPT !.revents = Revent(pollfd[n].fd)] \in Slot
        /\ [pollfd[n] EXCEPT !.revents = Revent(pollfd[n].fd)].fd = pollfd[n].fd
    BY <2>1, <2>2 DEF Slot
  <2>. QED
    BY <2>1, <2>3
<1>5. DOMAIN q = 1 .. Len(pollfd)
  BY <1>1, LenProperties
<1>6. pollfd' = q
  BY DEF Poll
<1>. HIDE DEF q
<1>7. q \in Seq(Slot) /\ Len(q) = Len(pollfd)
  <2>1. q \in [1 .. Len(pollfd) -> Slot]
    <3>1. q = [n \in 1 .. Len(pollfd) |-> q[n]]
      BY <1>5 DEF q
    <3>. QED
      BY <1>4, <3>1
  <2>. QED
    BY <1>1, <2>1
<1>8. PollEach(pollfd', numfd', Connected')
  <2>1. PollEach(q, numfd, Connected)
    BY <1>4, <1>7, Marked DEF PInv, LoopOK
  <2>. QED
    BY <1>2, <1>3, <1>6, <2>1
<1>9. LoopOK' /\ Acted'
  <2>1. 1 \in 1 .. MaxConns + 1 /\ \A n \in 2 .. 1 : FALSE
    BY <1>1
  <2>2. Cardinality(Connected') = numfd' - 1
    BY <1>2, <1>3 DEF PInv, LoopOK
  <2>. QED
    BY <1>2, <1>3, <1>8, <2>1, <2>2 DEF LoopOK, Acted
<1>. QED
  BY <1>3, <1>9 DEF PInv

LEMMA AcceptPollKept ==
  ASSUME PInv, Accept
  PROVE  PInv'
<1>1. PICK u \in Uids, fd \in Fds :
        /\ Accepted(u, fd)
        /\ LET t == IF numfd = Len(pollfd) THEN grow_pollfd(pollfd) ELSE pollfd
           IN  pollfd' = [t EXCEPT ![numfd + 1] = [fd |-> fd, revents |-> "0"]]
  BY DEF Accept
<1>2. numfd' = numfd + 1 /\ pc' = "scan" /\ i' = i /\ i = 1
  BY DEF Accept, PInv, LoopOK
<1>3. /\ client \in Seq(Client) /\ Len(client) \in Nat
      /\ Connected \subseteq Fds /\ -1 \notin Fds /\ numfd \in Nat /\ MaxConns \in Nat
  BY PInvFacts
<1>4. /\ WorldInv' /\ fd \notin Connected /\ Connected' = Connected \cup {fd}
      /\ Added(client, client', fd, u)
  BY <1>1, AcceptedKept DEF PInv
<1>5. PollEach(pollfd', numfd', Connected')
  BY <1>1, <1>2, <1>3, <1>4, Grown DEF PInv, LoopOK
<1>6. Listening'
  <2>1. PICK l \in 1 .. Len(client) : client[l].fd = listenfd
    BY DEF PInv, LoopOK, Listening
  <2>2. Len(client') \in Nat /\ Len(client) <= Len(client')
    BY <1>4 DEF Added
  <2>3. l \in 1 .. Len(client') /\ l <= Len(client)
    BY <1>3, <2>2
  <2>4. client[l].fd # -1
    BY <2>1 DEF listenfd
  <2>5. client'[l] = client[l]
    BY <1>4, <2>3, <2>4 DEF Added
  <2>. QED
    BY <2>1, <2>3, <2>5 DEF Listening
<1>7. Cardinality(Connected') = numfd' - 1
  <2>1. IsFiniteSet(Connected) /\ Cardinality(Connected) = numfd - 1
    BY EnoughClients DEF PInv, LoopOK
  <2>2. Cardinality(Connected') = Cardinality(Connected) + 1
    BY <1>4, <2>1, FS_AddElement
  <2>. QED
    BY <1>2, <1>3, <2>1, <2>2
<1>8. LoopOK' /\ Acted'
  <2>1. 1 \in 1 .. MaxConns + 1 /\ \A n \in 2 .. 1 : FALSE
    BY <1>3
  <2>. QED
    BY <1>2, <1>5, <1>6, <1>7, <2>1 DEF LoopOK, Acted
<1>. QED
  BY <1>4, <1>8 DEF PInv

\* An entry at which nothing is closed is passed.
LEMMA PassedKept ==
  ASSUME PInv, WorldInv', Connected' = Connected, client' = client,
         UNCHANGED <<pc, pollfd, numfd>>, pc = "scan", i < numfd, i' = i + 1,
         pollfd[i + 1].revents # "POLLHUP"
  PROVE  PInv'
<1>1. /\ numfd \in Nat /\ i \in Nat /\ i >= 1 /\ MaxConns \in Nat /\ numfd <= MaxConns + 1
  BY PInvFacts, EnoughClients
<1>2. i + 1 \in 1 .. MaxConns + 1
  BY <1>1
<1>3. Acted'
  <2>1. \A n \in 2 .. i + 1 : n = i + 1 \/ n \in 2 .. i
    BY <1>1
  <2>. QED
    BY <2>1 DEF PInv, Acted
<1>4. LoopOK'
  BY <1>2 DEF PInv, LoopOK, Listening
<1>. QED
  BY <1>3, <1>4 DEF PInv

\* An entry that is closed is not passed, but replaced by the last one; what
\* is before it stays.
LEMMA HungupKept ==
  ASSUME PInv, Hungup, UNCHANGED pc, pc = "scan", i < numfd
  PROVE  PInv'
<1>1. /\ client \in Seq(Client) /\ Len(client) \in Nat
      /\ Connected \subseteq Fds /\ listenfd \notin Fds
      /\ numfd \in Nat /\ i \in Nat /\ i >= 1 /\ MaxConns \in Nat /\ numfd <= MaxConns + 1
  BY PInvFacts, EnoughClients
<1>. DEFINE fd == pollfd[i + 1].fd
<1>2. PollEach(pollfd, numfd, Connected) /\ i + 1 \in 2 .. numfd /\ (i < numfd - 1 <=> i + 1 < numfd)
  BY <1>1 DEF PInv, LoopOK
<1>3. fd \in Connected
  BY <1>2 DEF PollEach
<1>4. /\ Closed(fd) /\ numfd' = numfd - 1
      /\ pollfd' = IF i + 1 < numfd THEN [pollfd EXCEPT ![i + 1] = pollfd[numfd]] ELSE pollfd
      /\ i' = IF i < numfd - 1 THEN i ELSE i + 1
  BY <1>2 DEF Hungup, this
<1>. HIDE DEF fd
<1>5. /\ WorldInv' /\ Connected' = Connected \ {fd}
      /\ Len(client') = Len(client)
      /\ \A n \in 1 .. Len(client) : client'[n].fd = IF client[n].fd = fd THEN -1 ELSE client[n].fd
  BY <1>3, <1>4, ClosedKept DEF PInv
<1>6. /\ PollEach(pollfd', numfd', Connected')
      /\ \A n \in 2 .. (i + 1) - 1 : pollfd'[n] = pollfd[n]
  BY <1>2, <1>4, <1>5, Packed DEF fd
<1>7. Listening'
  <2>1. PICK l \in 1 .. Len(client) : client[l].fd = listenfd
    BY DEF PInv, LoopOK, Listening
  <2>2. listenfd # fd
    BY <1>1, <1>3
  <2>. QED
    BY <1>5, <2>1, <2>2 DEF Listening
<1>8. Cardinality(Connected') = numfd' - 1
  <2>1. IsFiniteSet(Connected) /\ Cardinality(Connected) = numfd - 1
    BY EnoughClients DEF PInv, LoopOK
  <2>2. Cardinality(Connected') = Cardinality(Connected) - 1
    BY <1>3, <1>5, <2>1, FS_RemoveElement
  <2>. QED
    BY <1>1, <1>4, <2>1, <2>2
<1>9. i' \in 1 .. MaxConns + 1
  <2>1. i \in 1 .. MaxConns + 1 /\ i + 1 \in 1 .. MaxConns + 1
    BY <1>1
  <2>. QED
    BY <1>4, <2>1
<1>10. LoopOK'
  BY <1>6, <1>7, <1>8, <1>9 DEF LoopOK
<1>11. \A n \in 2 .. i : pollfd'[n] = pollfd[n] /\ n <= numfd /\ pollfd[n].revents # "POLLHUP"
  <2>1. \A n \in 2 .. i : n \in 2 .. (i + 1) - 1 /\ n <= numfd
    BY <1>1
  <2>. QED
    BY <1>6, <2>1 DEF PInv, Acted
<1>12. Acted'
  <2>1. CASE i < numfd - 1
    <3>1. i' = i
      BY <1>4, <2>1
    <3>. QED
      BY <1>11, <3>1 DEF Acted
  <2>2. CASE ~(i < numfd - 1)
    <3>1. i' = i + 1 /\ numfd' = numfd - 1
      BY <1>4, <2>2
    <3>2. \A n \in 2 .. i + 1 : n <= numfd - 1 => n \in 2 .. i
      BY <1>1, <2>2
    <3>. QED
      BY <1>11, <3>1, <3>2 DEF Acted
  <2>. QED
    BY <2>1, <2>2
<1>. QED
  BY <1>5, <1>10, <1>12 DEF PInv

LEMMA ScanPollKept ==
  ASSUME PInv, Scan
  PROVE  PInv'
<1>1. /\ client \in Seq(Client) /\ Len(client) \in Nat /\ pollfd \in Seq(Slot)
      /\ numfd \in Nat /\ i \in Nat /\ i >= 1 /\ MaxConns \in Nat
      /\ numfd \in 1 .. Len(pollfd) /\ Len(pollfd) \in Nat /\ numfd <= Len(client)
  BY PInvFacts, EnoughClients
<1>2. pc = "scan"
  BY DEF Scan
<1>3. CASE i >= numfd
  <2>1. pc' = "poll" /\ UNCHANGED <<i, pollfd, numfd, world>>
    BY <1>3 DEF Scan
  <2>2. WorldInv' /\ Connected' = Connected /\ Listening'
    BY <2>1 DEF world, PInv, LoopOK, WorldInv, WorldOK, OneClientPerConnection, Connected, Listening
  <2>3. LoopOK' /\ Acted'
    BY <2>1, <2>2 DEF PInv, LoopOK, Acted
  <2>. QED
    BY <2>2, <2>3 DEF PInv
<1>4. CASE ~(i >= numfd)
  <2>1. /\ CASE this.revents = "POLLHUP" -> Hungup
             [] this.revents = "POLLIN" -> Request
             [] this.revents = "0" -> i' = i + 1 /\ UNCHANGED <<pollfd, numfd, world>>
        /\ UNCHANGED pc
    BY <1>4 DEF Scan
  <2>2. i + 1 \in 2 .. numfd /\ i + 1 \in 1 .. Len(pollfd) /\ i + 1 \in 1 .. Len(client) /\ i < numfd
    BY <1>1, <1>4
  <2>3. this = pollfd[i + 1] /\ this \in Slot /\ client[i + 1] \in Client
    BY <1>1, <2>2, ElementOfSeq DEF this
  <2>4. this.revents \in {"0", "POLLIN", "POLLHUP"} /\ this.fd \in Connected
    BY <2>2, <2>3 DEF Slot, Revents, PInv, LoopOK, PollEach
  <2>5. CASE this.revents = "POLLHUP"
    <3>1. Hungup
      BY <2>1, <2>5
    <3>. QED
      BY <1>2, <2>1, <2>2, <3>1, HungupKept
  <2>6. CASE this.revents = "POLLIN"
    <3>1. Request
      BY <2>1, <2>6
    <3>2. handle_request(this.fd, client[i + 1].uid) /\ i' = i + 1 /\ UNCHANGED <<pollfd, numfd>>
      BY <3>1 DEF Request
    <3>3. client[i + 1].uid \in Uids \cup {"none", "root"}
      BY <2>3 DEF Client
    <3>4. WorldInv' /\ Connected' = Connected /\ client' = client
      BY <2>4, <3>2, <3>3, RequestKept DEF PInv
    <3>. QED
      BY <1>2, <2>1, <2>2, <2>3, <2>6, <3>2, <3>4, PassedKept
  <2>7. CASE this.revents = "0"
    <3>1. i' = i + 1 /\ UNCHANGED <<pollfd, numfd, world>>
      BY <2>1, <2>7
    <3>2. WorldInv' /\ Connected' = Connected /\ client' = client
      BY <3>1 DEF world, PInv, WorldInv, WorldOK, OneClientPerConnection, Connected
    <3>. QED
      BY <1>2, <2>1, <2>2, <2>3, <2>7, <3>1, <3>2, PassedKept
  <2>. QED
    BY <2>4, <2>5, <2>6, <2>7
<1>. QED
  BY <1>3, <1>4

LEMMA NextPInv == PInv /\ [Next]_vars => PInv'
<1>. SUFFICES ASSUME PInv, [Next]_vars PROVE PInv'
  OBVIOUS
<1>1. CASE ClientStep /\ UNCHANGED loopvars
  <2>1. WorldInv' /\ Connected' = Connected /\ UNCHANGED <<client, given, up>>
    BY <1>1, ClientStepKept DEF PInv
  <2>2. UNCHANGED <<pc, i, pollfd, numfd>>
    BY <1>1 DEF loopvars
  <2>3. LoopOK' /\ Acted'
    BY <2>1, <2>2 DEF PInv, LoopOK, Listening, Acted
  <2>. QED
    BY <2>1, <2>3 DEF PInv
<1>2. CASE UNCHANGED vars
  BY <1>2 DEF vars, PInv, WorldInv, WorldOK, OneClientPerConnection, Connected, LoopOK, Listening, Acted
<1>3. CASE Fails
  <2>1. log_sys /\ UNCHANGED <<pc, i, pollfd, numfd, client>>
    BY <1>3 DEF Fails, loopvars, log_sys
  <2>2. WorldInv' /\ Connected' = Connected
    BY <2>1, LogSysKept DEF PInv
  <2>3. LoopOK' /\ Acted'
    BY <2>1, <2>2 DEF PInv, LoopOK, Listening, Acted
  <2>. QED
    BY <2>2, <2>3 DEF PInv
<1>. QED
  BY <1>1, <1>2, <1>3, PollKept, AcceptPollKept, ScanPollKept DEF Next, loop

LEMMA SpecPInv == Spec => []PInv
BY InitPInv, NextPInv, PTL DEF Spec

\* The table of clients and the array for poll, which grow and are packed at
\* different times, both hold the connections (client_add, grow_pollfd, loop).
THEOREM PollTables == Spec => []TablesExact
<1>1. PInv => TablesExact
  <2>. SUFFICES ASSUME PInv PROVE TablesExact
    OBVIOUS
  <2>1. PollEach(pollfd, numfd, Connected) /\ i \in 1 .. MaxConns + 1 /\ MaxConns \in Nat
    BY OpendAssumption DEF PInv, LoopOK
  <2>2. i \in 0 .. MaxConns + 1
    BY <2>1
  <2>3. TypeOK
    BY <2>1, <2>2 DEF PInv, WorldInv, LoopOK, TypeOK, PollEach, Slot
  <2>4. EveryClientPolled
    BY <2>1 DEF PInv, LoopOK, EveryClientPolled, PollEach
  <2>. QED
    BY <2>3, <2>4 DEF PInv, WorldInv, TablesExact
<1>. QED
  BY <1>1, SpecPInv, PTL

\* No connection that poll has found gone is passed over when the entries
\* move under the index (loop of loop.poll.c).
THEOREM PollComplete == Spec => []NoneSkipped
<1>1. PInv => NoneSkipped
  <2>. SUFFICES ASSUME PInv, pc = "scan", NEW n \in 2 .. numfd, n <= i
                PROVE  pollfd[n].revents # "POLLHUP"
    BY DEF NoneSkipped
  <2>1. n \in 2 .. i /\ n <= numfd
    BY PInvFacts
  <2>. QED
    BY <2>1 DEF PInv, Acted
<1>. QED
  BY <1>1, SpecPInv, PTL
=============================================================================
