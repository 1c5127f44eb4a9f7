----------------------------- MODULE OpendProofs -----------------------------
(***************************************************************************)
(* The table of clients of Opend, for any users and any size of the table: *)
(* client_add and client_del keep one entry for each connection.  The      *)
(* theorems about the two loops are in OpendSelectProofs and               *)
(* OpendPollProofs.                                                        *)
(***************************************************************************)
EXTENDS Opend, FiniteSetTheorems, SequenceTheorems, WellFoundedInduction, TLAPS

Client == [fd : {-1, listenfd} \cup Fds, uid : Uids \cup {"none", "root"}]

WorldInv == WorldOK /\ OneClientPerConnection

-----------------------------------------------------------------------------
\* The least element

LEMMA LeastExists ==
  ASSUME NEW S \in SUBSET Nat, S # {}
  PROVE  \E x \in S : \A y \in S : x <= y
<1>. DEFINE R == OpToRel(<, Nat)
<1>1. IsWellFoundedOn(R, Nat)
  BY NatLessThanWellFounded
<1>2. \A x, y \in Nat : <<y, x>> \in R <=> y < x
  BY DEF OpToRel
<1>. HIDE DEF R
<1>3. PICK x \in S : \A y \in S : ~ (<<y, x>> \in R)
  BY <1>1, WFMin
<1>4. \A y \in S : x \in Nat /\ y \in Nat /\ ~(y < x)
  BY <1>2, <1>3
<1>5. \A y \in S : x <= y
  BY <1>4
<1>. QED
  BY <1>5

LEMMA MinProperties ==
  ASSUME NEW S \in SUBSET Nat, S # {}
  PROVE  Min(S) \in S /\ \A y \in S : Min(S) <= y
BY LeastExists DEF Min

LEMMA MaxOfTwo ==
  ASSUME NEW a \in Int, NEW b \in Int
  PROVE  Max({a, b}) \in {a, b} /\ a <= Max({a, b}) /\ b <= Max({a, b})
<1>1. \E x \in {a, b} : \A y \in {a, b} : x >= y
  OBVIOUS
<1>2. Max({a, b}) \in {a, b} /\ \A y \in {a, b} : Max({a, b}) >= y
  BY <1>1 DEF Max
<1>. QED
  BY <1>2

\* There are MaxConns descriptors to have.
LEMMA FdsCounted == IsFiniteSet(Fds) /\ Cardinality(Fds) = MaxConns
<1>1. MaxConns \in Nat
  BY OpendAssumption
<1>2. IsFiniteSet(1 .. MaxConns) /\ Cardinality(1 .. MaxConns) = IF 1 > MaxConns THEN 0 ELSE MaxConns - 1 + 1
  BY <1>1, FS_Interval
<1>3. (IF 1 > MaxConns THEN 0 ELSE MaxConns - 1 + 1) = MaxConns
  BY <1>1
<1>. QED
  BY <1>2, <1>3 DEF Fds

-----------------------------------------------------------------------------
\* client.c

\* The entry of a descriptor that is in the table.
LEMMA EntryProperties ==
  ASSUME NEW table \in Seq(Client), NEW fd,
         \E n \in 1 .. Len(table) : table[n].fd = fd
  PROVE  /\ Entry(table, fd) \in 1 .. Len(table)
         /\ table[Entry(table, fd)].fd = fd
         /\ \A n \in 1 .. Len(table) : table[n].fd = fd => Entry(table, fd) <= n
<1>. DEFINE S == {n \in DOMAIN table : table[n].fd = fd}
<1>1. DOMAIN table = 1 .. Len(table) /\ Len(table) \in Nat
  BY LenProperties
<1>2. S \in SUBSET Nat /\ S # {}
  BY <1>1
<1>3. Min(S) \in S /\ \A y \in S : Min(S) <= y
  BY <1>2, MinProperties
<1>. QED
  BY <1>1, <1>3 DEF Entry

\* The table grows by free entries, and only when it has none.
LEMMA RoomyProperties ==
  ASSUME NEW table \in Seq(Client)
  PROVE  LET t == Roomy(table) IN
         /\ t \in Seq(Client) /\ Len(table) <= Len(t) /\ Len(table) \in Nat
         /\ \A n \in 1 .. Len(table) : t[n] = table[n]
         /\ \A n \in Len(table) + 1 .. Len(t) : t[n] = Free
         /\ \E n \in 1 .. Len(t) : t[n].fd = -1
<1>. DEFINE more == [n \in 1 .. NALLOC |-> Free]
<1>1. DOMAIN table = 1 .. Len(table) /\ Len(table) \in Nat
  BY LenProperties
<1>2. CASE \E n \in DOMAIN table : table[n].fd = -1
  <2>1. Roomy(table) = table
    BY <1>2 DEF Roomy
  <2>. QED
    BY <1>1, <1>2, <2>1
<1>3. CASE ~\E n \in DOMAIN table : table[n].fd = -1
  <2>1. Roomy(table) = table \o more
    BY <1>3 DEF Roomy, client_alloc
  <2>2. /\ more \in Seq(Client) /\ Len(more) = NALLOC /\ NALLOC \in Nat /\ NALLOC > 0
        /\ \A n \in 1 .. NALLOC : more[n] = Free
    <3>1. Free \in Client
      BY DEF Free, Client
    <3>2. NALLOC \in Nat /\ NALLOC > 0
      BY OpendAssumption
    <3>3. more \in [1 .. NALLOC -> Client] /\ \A n \in 1 .. NALLOC : more[n] = Free
      BY <3>1
    <3>. HIDE DEF more
    <3>4. more \in Seq(Client) /\ Len(more) = NALLOC
      BY <3>2, <3>3
    <3>. QED
      BY <3>2, <3>3, <3>4
  <2>. HIDE DEF more
  <2>3. /\ table \o more \in Seq(Client)
        /\ Len(table \o more) = Len(table) + NALLOC
        /\ \A n \in 1 .. Len(table) + NALLOC :
              (table \o more)[n] = IF n <= Len(table) THEN table[n] ELSE more[n - Len(table)]
    BY <2>2, ConcatProperties
  <2>4. \A n \in 1 .. Len(table) : (table \o more)[n] = table[n]
    BY <1>1, <2>2, <2>3
  <2>5. ASSUME NEW n \in Len(table) + 1 .. Len(table) + NALLOC PROVE (table \o more)[n] = Free
    <3>1. n \in 1 .. Len(table) + NALLOC /\ ~(n <= Len(table)) /\ n - Len(table) \in 1 .. NALLOC
      BY <1>1, <2>2
    <3>. QED
      BY <2>2, <2>3, <3>1
  <2>6. Len(table) + 1 \in 1 .. Len(table) + NALLOC /\ (table \o more)[Len(table) + 1].fd = -1
    <3>1. Len(table) + 1 \in 1 .. Len(table) + NALLOC
          /\ Len(table) + 1 \in Len(table) + 1 .. Len(table) + NALLOC
      BY <1>1, <2>2
    <3>2. (table \o more)[Len(table) + 1] = Free
      BY <2>5, <3>1
    <3>. QED
      BY <3>1, <3>2 DEF Free
  <2>7. Len(table) <= Len(table) + NALLOC
    BY <1>1, <2>2
  <2>. QED
    BY <1>1, <2>1, <2>3, <2>4, <2>5, <2>6, <2>7
<1>. QED
  BY <1>2, <1>3

\* Table t is the table with an entry more in use: the first that was free,
\* or the first one of those by which it has grown.
Added(table, t, fd, uid) ==
    /\ t \in Seq(Client) /\ Len(table) <= Len(t) /\ Len(t) \in Nat
    /\ \E e \in 1 .. Len(t) :
          /\ t[e] = [fd |-> fd, uid |-> uid]
          /\ e <= Len(table) => table[e].fd = -1
          /\ \A n \in 1 .. e - 1 : n <= Len(table) /\ table[n].fd # -1
          /\ \A n \in 1 .. Len(t) : n # e =>
                IF n <= Len(table) THEN t[n] = table[n] ELSE t[n] = Free

LEMMA AddProperties ==
  ASSUME NEW table \in Seq(Client), NEW fd \in {listenfd} \cup Fds,
         NEW uid \in Uids \cup {"none", "root"}
  PROVE  Added(table, client_add(table, fd, uid), fd, uid)
<1>. DEFINE r == Roomy(table)
            e == Entry(r, -1)
            t == [r EXCEPT ![e] = [fd |-> fd, uid |-> uid]]
<1>1. /\ r \in Seq(Client) /\ Len(table) <= Len(r) /\ Len(table) \in Nat
      /\ \A n \in 1 .. Len(table) : r[n] = table[n]
      /\ \A n \in Len(table) + 1 .. Len(r) : r[n] = Free
      /\ \E n \in 1 .. Len(r) : r[n].fd = -1
  BY RoomyProperties
<1>. HIDE DEF r
<1>2. /\ e \in 1 .. Len(r) /\ r[e].fd = -1
      /\ \A n \in 1 .. Len(r) : r[n].fd = -1 => e <= n
  BY <1>1, EntryProperties
<1>. HIDE DEF e
<1>3. [fd |-> fd, uid |-> uid] \in Client
  BY DEF Client
<1>4. /\ t \in Seq(Client) /\ Len(t) = Len(r)
      /\ \A j \in 1 .. Len(r) : t[j] = IF j = e THEN [fd |-> fd, uid |-> uid] ELSE r[j]
  BY <1>1, <1>2, <1>3, ExceptSeq
<1>. HIDE DEF t
<1>5. client_add(table, fd, uid) = t
  BY DEF client_add, t, r, e
<1>6. Len(r) \in Nat
  BY <1>1, LenProperties
<1>7. e <= Len(table) => table[e].fd = -1
  BY <1>1, <1>2, <1>6
<1>8. ASSUME NEW n \in 1 .. e - 1 PROVE n <= Len(table) /\ table[n].fd # -1
  <2>1. n \in 1 .. Len(r) /\ r[n].fd # -1
    BY <1>2, <1>6
  <2>2. n <= Len(table)
    <3>1. ~(n <= Len(table)) => n \in Len(table) + 1 .. Len(r)
      BY <1>1, <1>6, <2>1
    <3>. QED
      BY <1>1, <2>1, <3>1 DEF Free
  <2>. QED
    BY <1>1, <1>6, <2>1, <2>2
<1>9. ASSUME NEW n \in 1 .. Len(t), n # e
      PROVE  IF n <= Len(table) THEN t[n] = table[n] ELSE t[n] = Free
  <2>1. n \in 1 .. Len(r) /\ t[n] = r[n]
    BY <1>4, <1>9
  <2>2. IF n <= Len(table) THEN n \in 1 .. Len(table) ELSE n \in Len(table) + 1 .. Len(r)
    BY <1>1, <1>6, <2>1
  <2>. QED
    BY <1>1, <2>1, <2>2
<1>. QED
  BY <1>1, <1>2, <1>4, <1>5, <1>6, <1>7, <1>8, <1>9 DEF Added

\* client_del frees the entry of its descriptor and changes no other.
LEMMA DelProperties ==
  ASSUME NEW table \in Seq(Client), NEW fd,
         \E n \in 1 .. Len(table) : table[n].fd = fd
  PROVE  LET t == client_del(table, fd) IN
         /\ t \in Seq(Client) /\ Len(t) = Len(table) /\ Len(table) \in Nat
         /\ \E e \in 1 .. Len(table) :
               /\ table[e].fd = fd /\ t[e].fd = -1
               /\ \A n \in 1 .. Len(table) : n # e => t[n] = table[n]
<1>. DEFINE e == Entry(table, fd)
            new == [table[e] EXCEPT !.fd = -1]
            t == [table EXCEPT ![e] = new]
<1>1. e \in 1 .. Len(table) /\ table[e].fd = fd
  BY EntryProperties
<1>. HIDE DEF e
<1>2. table[e] \in Client
  BY <1>1, ElementOfSeq
<1>3. new \in Client /\ new.fd = -1
  BY <1>2 DEF Client
<1>4. client_del(table, fd) = t
  BY DEF client_del, t, e
<1>. HIDE DEF new
<1>5. /\ t \in Seq(Client) /\ Len(t) = Len(table)
      /\ \A j \in 1 .. Len(table) : t[j] = IF j = e THEN new ELSE table[j]
  BY <1>1, <1>3, ExceptSeq
<1>. HIDE DEF t
<1>6. Len(table) \in Nat
  BY LenProperties
<1>. QED
  BY <1>1, <1>3, <1>4, <1>5, <1>6

-----------------------------------------------------------------------------
\* The table and the connections

Used(socks) == {fd \in Fds : socks[fd] # NoSock}

\* OneClientPerConnection, for a table and connections.
OneEach(table, socks) ==
    /\ \A n \in 1 .. Len(table) : table[n].fd \in Fds =>
          table[n].fd \in Used(socks) /\ table[n].uid = socks[table[n].fd].uid
    /\ \A fd \in Used(socks) : \E n \in 1 .. Len(table) : table[n].fd = fd
    /\ \A m, n \in 1 .. Len(table) : table[m].fd \in Fds /\ table[m].fd = table[n].fd => m = n

LEMMA OneEachIs ==
  ASSUME client \in Seq(Client)
  PROVE  OneClientPerConnection <=> OneEach(client, sock)
<1>1. DOMAIN client = 1 .. Len(client)
  BY LenProperties
<1>. QED
  BY <1>1 DEF OneClientPerConnection, OneEach, Used, Connected

LEMMA OneEachNext ==
  ASSUME client' \in Seq(Client)
  PROVE  OneClientPerConnection' <=> OneEach(client', sock')
<1>1. DOMAIN client' = 1 .. Len(client')
  BY LenProperties
<1>. QED
  BY <1>1 DEF OneClientPerConnection, OneEach, Used, Connected

LEMMA WorldFacts ==
  ASSUME WorldInv
  PROVE  /\ client \in Seq(Client) /\ Len(client) \in Nat
         /\ OneEach(client, sock) /\ Connected = Used(sock)
         /\ sock \in [Fds -> Sock \cup {NoSock}] /\ -1 \notin Fds /\ listenfd \notin Fds
<1>1. client \in Seq(Client)
  BY DEF WorldInv, WorldOK, Client
<1>2. Len(client) \in Nat
  BY <1>1, LenProperties
<1>3. -1 \notin Fds /\ listenfd \notin Fds
  BY OpendAssumption DEF Fds, listenfd
<1>. QED
  BY <1>1, <1>2, <1>3, OneEachIs DEF WorldInv, WorldOK, Connected, Used

\* serv_accept finds the descriptor free, and client_add an entry for it.
LEMMA AcceptedKept ==
  ASSUME WorldInv, NEW u \in Uids, NEW fd \in Fds, Accepted(u, fd)
  PROVE  /\ WorldInv' /\ fd \notin Connected /\ Connected' = Connected \cup {fd}
         /\ Added(client, client', fd, u)
<1>. DEFINE new == [uid |-> u, asks |-> FALSE, gone |-> FALSE]
<1>1. /\ client \in Seq(Client) /\ Len(client) \in Nat
      /\ OneEach(client, sock) /\ Connected = Used(sock)
      /\ sock \in [Fds -> Sock \cup {NoSock}] /\ -1 \notin Fds /\ listenfd \notin Fds
  BY WorldFacts
<1>2. fd \notin Connected
  <2>1. Fds \ Connected \in SUBSET Nat /\ Fds \ Connected # {}
    BY OpendAssumption DEF Fds, Accepted, Connected
  <2>2. fd \in Fds \ Connected
    BY <2>1, MinProperties DEF Accepted
  <2>. QED
    BY <2>2
<1>3. Added(client, client', fd, u)
  <2>1. client' = client_add(client, fd, u) /\ fd \in {listenfd} \cup Fds
        /\ u \in Uids \cup {"none", "root"}
    BY DEF Accepted
  <2>. QED
    BY <1>1, <2>1, AddProperties
<1>4. client' \in Seq(Client) /\ Len(client) <= Len(client') /\ Len(client') \in Nat
  BY <1>3 DEF Added
<1>5. new \in Sock /\ new # NoSock /\ new.uid = u
  BY OpendAssumption DEF Sock, NoSock
<1>6. /\ sock' = [sock EXCEPT ![fd] = new]
      /\ \A x \in Fds : sock'[x] = IF x = fd THEN new ELSE sock[x]
  BY <1>1 DEF Accepted
<1>. HIDE DEF new
<1>7. Used(sock') = Used(sock) \cup {fd}
  BY <1>5, <1>6 DEF Used
<1>8. Connected' = Connected \cup {fd}
  BY <1>1, <1>7 DEF Connected, Used
<1>9. PICK e \in 1 .. Len(client') :
            /\ client'[e] = [fd |-> fd, uid |-> u]
            /\ e <= Len(client) => client[e].fd = -1
            /\ \A n \in 1 .. e - 1 : n <= Len(client) /\ client[n].fd # -1
            /\ \A n \in 1 .. Len(client') : n # e =>
                  IF n <= Len(client) THEN client'[n] = client[n] ELSE client'[n] = Free
  BY <1>3 DEF Added
<1>10. ASSUME NEW n \in 1 .. Len(client'), n # e, client'[n].fd \in Fds
       PROVE  n \in 1 .. Len(client) /\ client'[n] = client[n]
  <2>1. Free.fd \notin Fds
    BY <1>1 DEF Free
  <2>. QED
    BY <1>1, <1>4, <1>9, <1>10, <2>1
<1>11. OneEach(client', sock')
  <2>1. \A n \in 1 .. Len(client) : client[n].fd # fd
    BY <1>1, <1>2 DEF OneEach
  <2>2. ASSUME NEW n \in 1 .. Len(client'), client'[n].fd \in Fds
        PROVE  client'[n].fd \in Used(sock') /\ client'[n].uid = sock'[client'[n].fd].uid
    <3>1. CASE n = e
      <4>1. client'[n].fd = fd /\ client'[n].uid = u
        BY <1>9, <3>1
      <4>2. fd \in Used(sock') /\ sock'[fd].uid = u
        BY <1>5, <1>6, <1>7
      <4>. QED
        BY <4>1, <4>2
    <3>2. CASE n # e
      <4>1. n \in 1 .. Len(client) /\ client'[n] = client[n]
        BY <1>10, <2>2, <3>2
      <4>2. client[n].fd \in Used(sock) /\ client[n].uid = sock[client[n].fd].uid
        BY <1>1, <2>2, <4>1 DEF OneEach
      <4>3. client[n].fd # fd /\ client[n].fd \in Fds
        BY <2>1, <2>2, <4>1
      <4>. QED
        BY <1>6, <1>7, <4>1, <4>2, <4>3
    <3>. QED
      BY <3>1, <3>2
  <2>3. ASSUME NEW x \in Used(sock') PROVE \E n \in 1 .. Len(client') : client'[n].fd = x
    <3>1. CASE x = fd
      BY <1>9, <3>1
    <3>2. CASE x # fd
      <4>1. PICK n \in 1 .. Len(client) : client[n].fd = x
        BY <1>1, <1>7, <2>3, <3>2 DEF OneEach
      <4>2. n \in 1 .. Len(client') /\ n <= Len(client) /\ x \in Fds
        BY <1>1, <1>4, <2>3, <4>1 DEF Used
      <4>3. n # e
        BY <1>1, <1>9, <4>1, <4>2
      <4>. QED
        BY <1>9, <4>1, <4>2, <4>3
    <3>. QED
      BY <3>1, <3>2
  <2>4. ASSUME NEW m \in 1 .. Len(client'), NEW n \in 1 .. Len(client'),
               client'[m].fd \in Fds, client'[m].fd = client'[n].fd
        PROVE  m = n
    <3>1. m # e => m \in 1 .. Len(client) /\ client'[m] = client[m]
      BY <1>10, <2>4
    <3>2. n # e => n \in 1 .. Len(client) /\ client'[n] = client[n]
      BY <1>10, <2>4
    <3>3. client'[e].fd = fd
      BY <1>9
    <3>4. CASE m # e /\ n # e
      BY <1>1, <2>4, <3>1, <3>2, <3>4 DEF OneEach
    <3>5. CASE m = e \/ n = e
      BY <2>1, <2>4, <3>1, <3>2, <3>3, <3>5
    <3>. QED
      BY <3>4, <3>5
  <2>. QED
    BY <2>2, <2>3, <2>4 DEF OneEach
<1>12. WorldOK'
  <2>1. sock' \in [Fds -> Sock \cup {NoSock}]
    BY <1>1, <1>5, <1>6
  <2>2. client' \in Seq([fd : {-1, listenfd} \cup Fds, uid : Uids \cup {"none", "root"}])
    BY <1>4 DEF Client
  <2>. QED
    BY <2>1, <2>2 DEF WorldOK, WorldInv, Accepted
<1>13. WorldInv'
  BY <1>4, <1>11, <1>12, OneEachNext DEF WorldInv
<1>. QED
  BY <1>2, <1>3, <1>8, <1>13

\* The server closes the end of a client, and client_del frees its entry.
LEMMA ClosedKept ==
  ASSUME WorldInv, NEW fd \in Connected, Closed(fd)
  PROVE  /\ WorldInv' /\ Connected' = Connected \ {fd}
         /\ client' \in Seq(Client) /\ Len(client') = Len(client) /\ Len(client) \in Nat
         /\ \A n \in 1 .. Len(client) : client'[n].fd = IF client[n].fd = fd THEN -1 ELSE client[n].fd
<1>1. /\ client \in Seq(Client) /\ Len(client) \in Nat
      /\ OneEach(client, sock) /\ Connected = Used(sock)
      /\ sock \in [Fds -> Sock \cup {NoSock}] /\ -1 \notin Fds /\ listenfd \notin Fds
  BY WorldFacts
<1>2. \E n \in 1 .. Len(client) : client[n].fd = fd
  BY <1>1 DEF OneEach
<1>3. client' = client_del(client, fd) /\ sock' = [sock EXCEPT ![fd] = NoSock]
  BY DEF Closed
<1>4. /\ client' \in Seq(Client) /\ Len(client') = Len(client)
      /\ \E e \in 1 .. Len(client) :
            /\ client[e].fd = fd /\ client'[e].fd = -1
            /\ \A n \in 1 .. Len(client) : n # e => client'[n] = client[n]
  BY <1>1, <1>2, <1>3, DelProperties
<1>5. PICK e \in 1 .. Len(client) :
            /\ client[e].fd = fd /\ client'[e].fd = -1
            /\ \A n \in 1 .. Len(client) : n # e => client'[n] = client[n]
  BY <1>4
<1>6. fd \in Fds /\ \A x \in Fds : sock'[x] = IF x = fd THEN NoSock ELSE sock[x]
  BY <1>1, <1>3 DEF Connected
<1>7. Used(sock') = Used(sock) \ {fd}
  BY <1>6 DEF Used
<1>8. Connected' = Connected \ {fd}
  BY <1>1, <1>7 DEF Connected, Used
<1>9. \A n \in 1 .. Len(client) : client[n].fd = fd => n = e
  BY <1>1, <1>5, <1>6 DEF OneEach
<1>10. \A n \in 1 .. Len(client) : client'[n].fd = IF client[n].fd = fd THEN -1 ELSE client[n].fd
  BY <1>5, <1>9
<1>11. OneEach(client', sock')
  <2>1. ASSUME NEW n \in 1 .. Len(client'), client'[n].fd \in Fds
        PROVE  n \in 1 .. Len(client) /\ client'[n] = client[n] /\ client[n].fd # fd
    BY <1>1, <1>4, <1>5, <1>9, <2>1
  <2>2. ASSUME NEW n \in 1 .. Len(client'), client'[n].fd \in Fds
        PROVE  client'[n].fd \in Used(sock') /\ client'[n].uid = sock'[client'[n].fd].uid
    BY <1>1, <1>6, <1>7, <2>1, <2>2 DEF OneEach
  <2>3. ASSUME NEW x \in Used(sock') PROVE \E n \in 1 .. Len(client') : client'[n].fd = x
    <3>1. PICK n \in 1 .. Len(client) : client[n].fd = x
      BY <1>1, <1>7, <2>3 DEF OneEach
    <3>. QED
      BY <1>4, <1>7, <1>10, <2>3, <3>1
  <2>4. ASSUME NEW m \in 1 .. Len(client'), NEW n \in 1 .. Len(client'),
               client'[m].fd \in Fds, client'[m].fd = client'[n].fd
        PROVE  m = n
    BY <1>1, <2>1, <2>4 DEF OneEach
  <2>. QED
    BY <2>2, <2>3, <2>4 DEF OneEach
<1>12. WorldOK'
  <2>1. sock' \in [Fds -> Sock \cup {NoSock}]
    BY <1>1, <1>3
  <2>2. client' \in Seq([fd : {-1, listenfd} \cup Fds, uid : Uids \cup {"none", "root"}])
    BY <1>4 DEF Client
  <2>. QED
    BY <2>1, <2>2 DEF WorldOK, WorldInv, Closed
<1>13. WorldInv'
  BY <1>4, <1>11, <1>12, OneEachNext DEF WorldInv
<1>. QED
  BY <1>1, <1>4, <1>8, <1>10, <1>13

\* Steps that change only what a client asks, and whether it is there.
LEMMA SameClients ==
  ASSUME WorldInv, WorldOK', client' = client,
         \A fd \in Fds : (sock'[fd] # NoSock <=> sock[fd] # NoSock) /\ sock'[fd].uid = sock[fd].uid
  PROVE  WorldInv' /\ Connected' = Connected
<1>1. client \in Seq(Client) /\ OneEach(client, sock)
  BY WorldFacts
<1>2. Used(sock') = Used(sock)
  BY DEF Used
<1>3. OneEach(client', sock')
  BY <1>1, <1>2 DEF OneEach
<1>4. Connected' = Connected
  BY DEF Connected
<1>. QED
  BY <1>1, <1>3, <1>4, OneEachNext DEF WorldInv

LEMMA RequestKept ==
  ASSUME WorldInv, NEW fd \in Connected, NEW uid \in Uids \cup {"none", "root"},
         handle_request(fd, uid)
  PROVE  WorldInv' /\ Connected' = Connected /\ client' = client
<1>1. sock \in [Fds -> Sock \cup {NoSock}] /\ fd \in Fds /\ sock[fd] \in Sock
  BY WorldFacts DEF Connected
<1>2. [sock[fd] EXCEPT !.asks = FALSE] \in Sock
      /\ [sock[fd] EXCEPT !.asks = FALSE].uid = sock[fd].uid
  BY <1>1 DEF Sock
<1>3. sock' = [sock EXCEPT ![fd] = [sock[fd] EXCEPT !.asks = FALSE]]
  BY DEF handle_request
<1>4. \A x \in Sock : x # NoSock
  BY OpendAssumption DEF Sock, NoSock
<1>5. sock' \in [Fds -> Sock \cup {NoSock}]
      /\ \A x \in Fds : (sock'[x] # NoSock <=> sock[x] # NoSock) /\ sock'[x].uid = sock[x].uid
  BY <1>1, <1>2, <1>3, <1>4 DEF Connected
<1>6. given' \in [uid : Uids \cup {"none", "root"}, of : Uids \cup {"none"}] /\ up' \in BOOLEAN
  BY <1>1 DEF handle_request, Sock
<1>7. UNCHANGED <<calling, calls, client>>
  BY DEF handle_request
<1>8. WorldOK'
  BY <1>5, <1>6, <1>7 DEF WorldOK, WorldInv
<1>. QED
  BY <1>5, <1>7, <1>8, SameClients

LEMMA ClientStepKept ==
  ASSUME WorldInv, ClientStep
  PROVE  WorldInv' /\ Connected' = Connected /\ UNCHANGED <<client, given, up>>
<1>1. sock \in [Fds -> Sock \cup {NoSock}]
  BY WorldFacts
<1>2. UNCHANGED <<client, given, up>>
  BY DEF ClientStep, Call, Ask, Hangup
<1>3. CASE \E u \in Uids : Call(u)
  <2>1. UNCHANGED sock /\ calling' \subseteq Uids /\ calls' \in 0 .. MaxCalls
    BY <1>3, OpendAssumption DEF Call, WorldInv, WorldOK
  <2>2. WorldOK'
    BY <1>2, <2>1 DEF WorldInv, WorldOK
  <2>. QED
    BY <1>2, <2>1, <2>2, SameClients
<1>4. CASE \E fd \in Fds : Ask(fd) \/ Hangup(fd)
  <2>1. PICK fd \in Fds : Ask(fd) \/ Hangup(fd)
    BY <1>4
  <2>2. sock[fd] \in Sock /\ sock[fd] # NoSock /\ UNCHANGED <<calling, calls>>
    BY <1>1, <2>1 DEF Ask, Hangup, Connected
  <2>3. PICK new \in Sock : new.uid = sock[fd].uid /\ sock' = [sock EXCEPT ![fd] = new]
    <3>1. CASE Ask(fd)
      <4>1. [sock[fd] EXCEPT !.asks = TRUE] \in Sock
            /\ [sock[fd] EXCEPT !.asks = TRUE].uid = sock[fd].uid
        BY <2>2 DEF Sock
      <4>. QED
        BY <3>1, <4>1 DEF Ask
    <3>2. CASE Hangup(fd)
      <4>1. [sock[fd] EXCEPT !.gone = TRUE] \in Sock
            /\ [sock[fd] EXCEPT !.gone = TRUE].uid = sock[fd].uid
        BY <2>2 DEF Sock
      <4>. QED
        BY <3>2, <4>1 DEF Hangup
    <3>. QED
      BY <2>1, <3>1, <3>2
  <2>4. new # NoSock
    BY OpendAssumption DEF Sock, NoSock
  <2>5. sock' \in [Fds -> Sock \cup {NoSock}]
        /\ \A x \in Fds : (sock'[x] # NoSock <=> sock[x] # NoSock) /\ sock'[x].uid = sock[x].uid
    BY <1>1, <2>2, <2>3, <2>4
  <2>6. WorldOK'
    BY <1>2, <2>2, <2>5 DEF WorldInv, WorldOK
  <2>. QED
    BY <1>2, <2>5, <2>6, SameClients
<1>. QED
  BY <1>3, <1>4 DEF ClientStep

LEMMA LogSysKept ==
  ASSUME WorldInv, log_sys
  PROVE  WorldInv' /\ Connected' = Connected
<1>1. UNCHANGED <<calling, calls, client, given, sock>> /\ up' = FALSE
  BY DEF log_sys
<1>2. WorldOK'
  BY <1>1 DEF WorldInv, WorldOK
<1>. QED
  BY <1>1, <1>2, SameClients
=============================================================================
