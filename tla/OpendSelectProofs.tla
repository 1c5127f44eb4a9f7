------------------------- MODULE OpendSelectProofs --------------------------
(***************************************************************************)
(* Theorems about OpendSelect, for any users, any number of connections    *)
(* and any size of the table: the table of clients and what select is      *)
(* called with agree with the connections (TablesExact), and a request is  *)
(* handled in the name of the user who made it (RightUser).                *)
(***************************************************************************)
EXTENDS OpendSelect, OpendProofs

\* The loop of select sees every entry in use; the descriptor it listens on
\* is not in the table.
WatchOK ==
    /\ allset = {listenfd} \cup Connected
    /\ \A fd \in Connected : fd <= maxfd
    /\ maxi < Len(client)
    /\ \A n \in 1 .. Len(client) : client[n].fd # -1 => client[n].fd \in Fds /\ n <= maxi + 1

SInv == TypeOK /\ OneClientPerConnection /\ WatchOK /\ RightUser

LEMMA SInvWorld ==
  ASSUME SInv
  PROVE  /\ WorldInv /\ client \in Seq(Client) /\ Len(client) \in Nat
         /\ OneEach(client, sock) /\ Connected = Used(sock) /\ Connected \subseteq Fds
         /\ -1 \notin Fds /\ listenfd \notin Fds
         /\ maxi \in Int /\ i \in Nat /\ maxfd \in 0 .. MaxConns /\ MaxConns \in Nat
         /\ rset \subseteq {listenfd} \cup Fds
<1>1. WorldInv
  BY DEF SInv, TypeOK, WorldInv
<1>2. Connected \subseteq Fds
  BY DEF Connected
<1>3. maxi \in Int /\ i \in Nat /\ maxfd \in 0 .. MaxConns /\ MaxConns \in Nat
  BY OpendAssumption DEF SInv, TypeOK
<1>4. rset \subseteq {listenfd} \cup Fds
  BY DEF SInv, TypeOK
<1>. QED
  BY <1>1, <1>2, <1>3, <1>4, WorldFacts

LEMMA InitSInv == Init => SInv
<1>. SUFFICES ASSUME Init PROVE SInv
  OBVIOUS
<1>1. client = << >> /\ client \in Seq(Client) /\ Len(client) = 0
  BY EmptySeq DEF Init, WorldInit
<1>2. Connected = {}
  BY DEF Init, WorldInit, Connected
<1>3. OneClientPerConnection
  <2>1. OneEach(client, sock)
    BY <1>1, <1>2 DEF OneEach, Used, Connected
  <2>. QED
    BY <1>1, <2>1, OneEachIs
<1>4. TypeOK
  <2>1. WorldOK
    BY OpendAssumption, <1>1 DEF Init, WorldInit, WorldOK, Client
  <2>. QED
    BY <2>1, OpendAssumption DEF Init, TypeOK, listenfd
<1>5. WatchOK /\ RightUser
  BY <1>1, <1>2 DEF Init, WorldInit, WatchOK, RightUser
<1>. QED
  BY <1>3, <1>4, <1>5 DEF SInv

\* What SInv says of the other variables of the loop.
LEMMA SInvParts ==
  ASSUME WorldInv', WatchOK', RightUser',
         pc' \in {"select", "accept", "scan"}, i' \in 0 .. MaxConns + NALLOC,
         rset' \subseteq {listenfd} \cup Fds, maxfd' \in 0 .. MaxConns, maxi' \in -1 .. MaxConns - 1
  PROVE  SInv'
<1>1. allset' = {listenfd} \cup Connected' /\ Connected' \subseteq Fds
  BY DEF WatchOK, Connected
<1>. QED
  BY <1>1 DEF SInv, TypeOK, WorldInv

LEMMA SelectKept ==
  ASSUME SInv, Select
  PROVE  SInv'
<1>1. /\ UNCHANGED world /\ UNCHANGED <<allset, maxfd, maxi>>
      /\ rset' \subseteq allset /\ i' = 0 /\ pc' \in {"accept", "scan"}
  BY DEF Select
<1>2. WorldInv' /\ Connected' = Connected
  BY <1>1, SInvWorld DEF world, WorldInv, WorldOK, OneClientPerConnection, Connected
<1>3. WatchOK' /\ RightUser'
  BY <1>1, <1>2 DEF SInv, WatchOK, RightUser, world
<1>4. allset \subseteq {listenfd} \cup Fds /\ maxfd \in 0 .. MaxConns /\ maxi \in -1 .. MaxConns - 1
      /\ 0 \in 0 .. MaxConns + NALLOC
  BY OpendAssumption DEF SInv, TypeOK
<1>. QED
  BY <1>1, <1>2, <1>3, <1>4, SInvParts

\* The entries before a new one are in use, by as many connections: the table
\* is never searched beyond MaxConns.
LEMMA AcceptKept ==
  ASSUME SInv, Accept
  PROVE  SInv'
<1>1. PICK u \in Uids, fd \in Fds :
        /\ Accepted(u, fd)
        /\ allset' = allset \cup {fd}
        /\ maxfd' = Max({maxfd, fd})
        /\ maxi' = Max({maxi, Entry(client', fd) - 1})
  BY DEF Accept
<1>2. /\ client \in Seq(Client) /\ Len(client) \in Nat
      /\ -1 \notin Fds /\ maxi \in Int /\ maxfd \in 0 .. MaxConns /\ MaxConns \in Nat
      /\ rset \subseteq {listenfd} \cup Fds
  BY SInvWorld
<1>3. /\ WorldInv' /\ fd \notin Connected /\ Connected' = Connected \cup {fd}
      /\ Added(client, client', fd, u)
  BY <1>1, SInvWorld, AcceptedKept
<1>4. client' \in Seq(Client) /\ Len(client) <= Len(client') /\ Len(client') \in Nat
  BY <1>3 DEF Added
<1>5. PICK e \in Nat :
            /\ e \in 1 .. Len(client')
            /\ client'[e] = [fd |-> fd, uid |-> u]
            /\ e <= Len(client) => client[e].fd = -1
            /\ \A n \in 1 .. e - 1 : n <= Len(client) /\ client[n].fd # -1
            /\ \A n \in 1 .. Len(client') : n # e =>
                  IF n <= Len(client) THEN client'[n] = client[n] ELSE client'[n] = Free
  BY <1>3, <1>4 DEF Added
<1>6. client'[e].fd = fd /\ e \in Nat /\ e >= 1 /\ e \in 1 .. Len(client')
  BY <1>4, <1>5
<1>7. OneEach(client', sock')
  BY <1>3, <1>4, OneEachNext DEF WorldInv
<1>8. Entry(client', fd) = e
  <2>1. Entry(client', fd) \in 1 .. Len(client') /\ client'[Entry(client', fd)].fd = fd
    BY <1>4, <1>6, EntryProperties
  <2>. QED
    BY <1>6, <1>7, <2>1 DEF OneEach
<1>9. \A n \in 1 .. e - 1 : client'[n] = client[n] /\ client[n].fd \in Fds
  <2>. SUFFICES ASSUME NEW n \in 1 .. e - 1 PROVE client'[n] = client[n] /\ client[n].fd \in Fds
    OBVIOUS
  <2>1. n <= Len(client) /\ client[n].fd # -1 /\ n \in 1 .. Len(client) /\ n \in 1 .. Len(client') /\ n # e
    BY <1>2, <1>4, <1>5, <1>6
  <2>. QED
    BY <1>5, <2>1 DEF SInv, WatchOK
<1>10. e <= MaxConns
  <2>. DEFINE f == [n \in 1 .. e |-> client'[n].fd]
  <2>1. \A n \in 1 .. e : client'[n].fd \in Fds /\ n \in 1 .. Len(client')
    <3>. SUFFICES ASSUME NEW n \in 1 .. e PROVE client'[n].fd \in Fds /\ n \in 1 .. Len(client')
      OBVIOUS
    <3>1. n \in 1 .. e - 1 \/ n = e
      BY <1>6
    <3>2. n \in 1 .. Len(client')
      BY <1>4, <1>5
    <3>. QED
      BY <1>6, <1>9, <3>1, <3>2
  <2>2. f \in [1 .. e -> Fds]
    BY <2>1
  <2>3. \A m, n \in 1 .. e : f[m] = f[n] => m = n
    BY <1>7, <2>1 DEF OneEach
  <2>. HIDE DEF f
  <2>4. f \in Injection(1 .. e, Fds)
    BY <2>2, <2>3 DEF Injection, IsInjective
  <2>5. IsFiniteSet(Fds) /\ Cardinality(Fds) = MaxConns
    BY FdsCounted
  <2>6. Cardinality(1 .. e) = e
    BY <1>6, FS_Interval
  <2>7. Cardinality(1 .. e) <= Cardinality(Fds)
    BY <2>4, <2>5, FS_Injection
  <2>. QED
    BY <2>5, <2>6, <2>7
<1>11. maxi' \in {maxi, e - 1} /\ maxi <= maxi' /\ e - 1 <= maxi'
  <2>1. maxi \in Int /\ e - 1 \in Int /\ maxi' = Max({maxi, e - 1})
    BY <1>1, <1>2, <1>6, <1>8
  <2>. QED
    BY <2>1, MaxOfTwo
<1>12. maxfd' \in {maxfd, fd} /\ maxfd <= maxfd' /\ fd <= maxfd' /\ fd \in 1 .. MaxConns
  <2>1. fd \in 1 .. MaxConns
    BY DEF Fds
  <2>2. fd \in Int /\ maxfd \in Int
    BY <1>2, <2>1
  <2>. QED
    BY <1>1, <2>1, <2>2, MaxOfTwo
<1>13. PICK top \in Int : maxi' = top /\ maxi \in Int /\ maxi <= top /\ e - 1 <= top
  <2>1. maxi \in Int /\ e \in Int
    BY <1>2, <1>6
  <2>. QED
    BY <1>11, <2>1
<1>14. WatchOK'
  <2>1. allset' = {listenfd} \cup Connected'
    BY <1>1, <1>3 DEF SInv, WatchOK
  <2>2. ASSUME NEW x \in Connected' PROVE x <= maxfd'
    <3>1. x = fd \/ (x \in Connected /\ x <= maxfd /\ x \in 1 .. MaxConns)
      BY <1>3, <2>2 DEF SInv, WatchOK, Connected, Fds
    <3>. QED
      BY <1>2, <1>12, <3>1
  <2>3. maxi' < Len(client')
    BY <1>2, <1>4, <1>5, <1>6, <1>11 DEF SInv, WatchOK
  <2>4. ASSUME NEW n \in 1 .. Len(client'), client'[n].fd # -1
        PROVE  client'[n].fd \in Fds /\ n <= maxi' + 1
    <3>1. CASE n = e
      <4>1. e <= top + 1
        BY <1>6, <1>13
      <4>. QED
        BY <1>6, <1>13, <3>1, <4>1
    <3>2. CASE n # e
      <4>1. n <= Len(client) /\ client'[n] = client[n]
        BY <1>5, <2>4, <3>2 DEF Free
      <4>2. n \in 1 .. Len(client) /\ client[n].fd # -1
        BY <1>2, <1>4, <2>4, <4>1
      <4>3. client[n].fd \in Fds /\ n <= maxi + 1
        BY <4>2 DEF SInv, WatchOK
      <4>4. n \in Int /\ n <= maxi + 1
        BY <1>4, <4>3
      <4>5. n <= top + 1
        BY <1>13, <4>4
      <4>. QED
        BY <1>13, <4>1, <4>3, <4>5
    <3>. QED
      BY <3>1, <3>2
  <2>. QED
    BY <2>1, <2>2, <2>3, <2>4 DEF WatchOK
<1>15. RightUser'
  BY <1>1 DEF SInv, RightUser, Accepted
<1>16. pc' = "select" /\ UNCHANGED <<i, rset>> /\ i \in 0 .. MaxConns + NALLOC
  BY DEF Accept, SInv, TypeOK
<1>17. maxi' \in -1 .. MaxConns - 1 /\ maxfd' \in 0 .. MaxConns
  <2>1. maxi \in -1 .. MaxConns - 1
    BY DEF SInv, TypeOK
  <2>. QED
    BY <1>2, <1>6, <1>10, <1>11, <1>12, <2>1
<1>. QED
  BY <1>2, <1>3, <1>14, <1>15, <1>16, <1>17, SInvParts

\* The entry the loop is at belongs to a connection when it is in use.
LEMMA ScanKept ==
  ASSUME SInv, Scan
  PROVE  SInv'
<1>1. /\ WorldInv /\ client \in Seq(Client) /\ Len(client) \in Nat
      /\ OneEach(client, sock) /\ Connected = Used(sock) /\ Connected \subseteq Fds
      /\ -1 \notin Fds /\ listenfd \notin Fds
      /\ maxi \in Int /\ i \in Nat /\ maxfd \in 0 .. MaxConns /\ MaxConns \in Nat
      /\ rset \subseteq {listenfd} \cup Fds
  BY SInvWorld
<1>2. UNCHANGED <<rset, maxfd, maxi>>
  BY DEF Scan
<1>3. maxi \in -1 .. MaxConns - 1 /\ i \in 0 .. MaxConns + NALLOC /\ pc \in {"select", "accept", "scan"}
  BY DEF SInv, TypeOK
<1>4. pc' \in {"select", "accept", "scan"}
  BY <1>3 DEF Scan
<1>5. CASE i > maxi
  <2>1. UNCHANGED <<i, allset, world>>
    BY <1>5 DEF Scan
  <2>2. WorldInv' /\ Connected' = Connected
    BY <1>1, <2>1 DEF world, WorldInv, WorldOK, OneClientPerConnection, Connected
  <2>3. WatchOK' /\ RightUser'
    BY <1>2, <2>1, <2>2 DEF SInv, WatchOK, RightUser, world
  <2>. QED
    BY <1>1, <1>2, <1>3, <1>4, <2>1, <2>2, <2>3, SInvParts
<1>6. CASE ~(i > maxi)
  <2>1. i' = i + 1 /\ (IF clifd >= 0 /\ clifd \in rset THEN ReadEof \/ ReadRequest
                       ELSE UNCHANGED <<allset, world>>)
    BY <1>6 DEF Scan
  <2>2. i' \in 0 .. MaxConns + NALLOC
    <3>1. i + 1 \in 0 .. MaxConns + NALLOC
      BY <1>1, <1>3, <1>6, OpendAssumption
    <3>. QED
      BY <2>1, <3>1
  <2>3. WorldInv' /\ WatchOK' /\ RightUser'
    <3>1. CASE clifd >= 0 /\ clifd \in rset
      <4>1. i + 1 \in 1 .. Len(client) /\ client[i + 1] \in Client
        <5>1. maxi < Len(client)
          BY DEF SInv, WatchOK
        <5>2. i + 1 \in 1 .. Len(client)
          BY <1>1, <1>6, <5>1
        <5>. QED
          BY <1>1, <5>2, ElementOfSeq
      <4>2. clifd # -1 /\ clifd = client[i + 1].fd
        BY <3>1 DEF clifd
      <4>3. clifd \in Connected /\ client[i + 1].uid = sock[clifd].uid
        BY <1>1, <4>1, <4>2 DEF SInv, WatchOK, OneEach
      <4>4. CASE ReadEof
        <5>1. Closed(clifd) /\ allset' = allset \ {clifd}
          BY <4>4 DEF ReadEof
        <5>2. /\ WorldInv' /\ Connected' = Connected \ {clifd}
              /\ Len(client') = Len(client)
              /\ \A n \in 1 .. Len(client) : client'[n].fd = IF client[n].fd = clifd THEN -1 ELSE client[n].fd
          BY <1>1, <4>3, <5>1, ClosedKept
        <5>3. allset' = {listenfd} \cup Connected'
          BY <1>1, <4>3, <5>1, <5>2 DEF SInv, WatchOK
        <5>4. WatchOK'
          BY <1>2, <5>2, <5>3 DEF SInv, WatchOK
        <5>5. RightUser'
          BY <5>1 DEF Closed, SInv, RightUser
        <5>. QED
          BY <5>2, <5>4, <5>5
      <4>5. CASE ReadRequest
        <5>1. handle_request(clifd, client[i + 1].uid) /\ UNCHANGED allset
          BY <4>5 DEF ReadRequest
        <5>2. client[i + 1].uid \in Uids \cup {"none", "root"}
          BY <4>1 DEF Client
        <5>3. WorldInv' /\ Connected' = Connected /\ client' = client
          BY <1>1, <4>3, <5>1, <5>2, RequestKept
        <5>4. WatchOK'
          BY <1>2, <5>1, <5>3 DEF SInv, WatchOK
        <5>5. RightUser'
          BY <4>3, <5>1 DEF handle_request, RightUser
        <5>. QED
          BY <5>3, <5>4, <5>5
      <4>. QED
        BY <2>1, <3>1, <4>4, <4>5
    <3>2. CASE ~(clifd >= 0 /\ clifd \in rset)
      <4>1. UNCHANGED <<allset, world>>
        BY <2>1, <3>2
      <4>2. WorldInv' /\ Connected' = Connected
        BY <1>1, <4>1 DEF world, WorldInv, WorldOK, OneClientPerConnection, Connected
      <4>. QED
        BY <1>2, <4>1, <4>2 DEF SInv, WatchOK, RightUser, world
    <3>. QED
      BY <3>1, <3>2
  <2>. QED
    BY <1>1, <1>2, <1>3, <1>4, <2>2, <2>3, SInvParts
<1>. QED
  BY <1>5, <1>6

LEMMA NextSInv == SInv /\ [Next]_vars => SInv'
<1>. SUFFICES ASSUME SInv, [Next]_vars PROVE SInv'
  OBVIOUS
<1>1. CASE ClientStep /\ UNCHANGED loopvars
  <2>1. WorldInv' /\ Connected' = Connected /\ UNCHANGED <<client, given, up>>
    BY <1>1, SInvWorld, ClientStepKept
  <2>2. WatchOK' /\ RightUser'
    BY <1>1, <2>1 DEF SInv, WatchOK, RightUser, loopvars
  <2>3. /\ UNCHANGED <<pc, i, rset, maxfd, maxi>> /\ rset \subseteq {listenfd} \cup Fds
        /\ pc \in {"select", "accept", "scan"} /\ i \in 0 .. MaxConns + NALLOC
        /\ maxfd \in 0 .. MaxConns /\ maxi \in -1 .. MaxConns - 1
    BY <1>1, SInvWorld DEF loopvars, SInv, TypeOK
  <2>. QED
    BY <2>1, <2>2, <2>3, SInvParts
<1>2. CASE UNCHANGED vars
  BY <1>2 DEF vars, SInv, TypeOK, WorldOK, OneClientPerConnection, Connected, WatchOK, RightUser
<1>3. CASE Fails
  <2>1. log_sys /\ UNCHANGED loopvars
    BY <1>3 DEF Fails
  <2>2. WorldInv' /\ Connected' = Connected /\ UNCHANGED <<client, given>>
    BY <2>1, SInvWorld, LogSysKept DEF log_sys
  <2>3. WatchOK' /\ RightUser'
    BY <2>1, <2>2 DEF SInv, WatchOK, RightUser, loopvars
  <2>4. /\ UNCHANGED <<pc, i, rset, maxfd, maxi>> /\ rset \subseteq {listenfd} \cup Fds
        /\ pc \in {"select", "accept", "scan"} /\ i \in 0 .. MaxConns + NALLOC
        /\ maxfd \in 0 .. MaxConns /\ maxi \in -1 .. MaxConns - 1
    BY <2>1, SInvWorld DEF loopvars, SInv, TypeOK
  <2>. QED
    BY <2>2, <2>3, <2>4, SInvParts
<1>. QED
  BY <1>1, <1>2, <1>3, SelectKept, AcceptKept, ScanKept DEF Next, loop

LEMMA SpecSInv == Spec => []SInv
BY InitSInv, NextSInv, PTL DEF Spec

\* What the loop of select watches is what the table of clients holds, and
\* both are the connections (client_add, client_del, loop).
THEOREM SelectTables == Spec => []TablesExact
<1>1. SInv => TablesExact
  <2>. SUFFICES ASSUME SInv PROVE TablesExact
    OBVIOUS
  <2>1. /\ client \in Seq(Client) /\ Len(client) \in Nat
        /\ OneEach(client, sock) /\ Connected = Used(sock) /\ Connected \subseteq Fds
        /\ -1 \notin Fds /\ maxi \in Int
    BY SInvWorld
  <2>2. ASSUME NEW fd \in Connected PROVE fd <= maxfd /\ Entry(client, fd) - 1 <= maxi
    <3>1. \E n \in 1 .. Len(client) : client[n].fd = fd
      BY <2>1, <2>2 DEF OneEach
    <3>2. Entry(client, fd) \in 1 .. Len(client) /\ client[Entry(client, fd)].fd = fd
      BY <2>1, <3>1, EntryProperties
    <3>3. Entry(client, fd) <= maxi + 1
      BY <2>1, <2>2, <3>2 DEF SInv, WatchOK
    <3>4. PICK e \in Nat : Entry(client, fd) = e /\ e <= maxi + 1
      BY <2>1, <3>2, <3>3
    <3>. QED
      BY <2>1, <3>4 DEF SInv, WatchOK
  <2>3. EveryClientWatched
    BY <2>2 DEF SInv, WatchOK, EveryClientWatched
  <2>. QED
    BY <2>3 DEF SInv, TablesExact
<1>. QED
  BY <1>1, SpecSInv, PTL

\* loop takes the uid of a request from the entry that has its descriptor:
\* no request is handled in the name of another user.
THEOREM SelectUser == Spec => []RightUser
<1>1. SInv => RightUser
  BY DEF SInv
<1>. QED
  BY <1>1, SpecSInv, PTL
=============================================================================
