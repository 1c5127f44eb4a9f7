------------------------------- MODULE Opend --------------------------------
(***************************************************************************)
(* The open server of ipc2/opend: its table of clients (client.c), the     *)
(* answer to a request (request.c), and the clients themselves.  The two   *)
(* versions of its loop are OpendSelect and OpendPoll.                     *)
(*                                                                         *)
(* A descriptor is the lowest number that is free; 0 is the one the server *)
(* listens on.                                                             *)
(***************************************************************************)
EXTENDS Integers, Sequences, FiniteSets, FiniteSetsExt

CONSTANTS
    Uids,      \* the users; each has at most one call waiting
    NALLOC,    \* by how many entries the tables grow
    MaxConns,  \* bound on the clients there are at one time
    MaxCalls   \* bound on the calls in all

ASSUME OpendAssumption ==
    /\ IsFiniteSet(Uids) /\ NALLOC \in Nat \ {0}
    /\ MaxConns \in Nat /\ MaxCalls \in Nat
    /\ "none" \notin Uids

VARIABLES
    calling,   \* the users whose call waits for accept
    calls,
    sock,      \* the connections of the server, by descriptor
    client,    \* the table; client[i + 1] is client[i] of the code
    given,     \* history: the uid handle_request got, and whose request it was
    up

world == <<calling, calls, sock, client, given, up>>

listenfd == 0
Fds == 1 .. MaxConns
NoSock == [uid |-> "none", asks |-> FALSE, gone |-> FALSE]
Sock == [uid : Uids, asks : BOOLEAN, gone : BOOLEAN]
Free == [fd |-> -1, uid |-> "none"]

WorldOK ==
    /\ calling \subseteq Uids /\ calls \in 0 .. MaxCalls
    /\ sock \in [Fds -> Sock \cup {NoSock}]
    /\ client \in Seq([fd : {-1, listenfd} \cup Fds, uid : Uids \cup {"none", "root"}])
    /\ given \in [uid : Uids \cup {"none", "root"}, of : Uids \cup {"none"}]
    /\ up \in BOOLEAN

WorldInit ==
    /\ calling = {} /\ calls = 0
    /\ sock = [fd \in Fds |-> NoSock]
    /\ client = << >>
    /\ given = [uid |-> "none", of |-> "none"]
    /\ up = TRUE

Connected == {fd \in Fds : sock[fd] # NoSock}

-----------------------------------------------------------------------------
\* The clients

Call(u) ==
    /\ up /\ u \notin calling /\ calls < MaxCalls
    /\ calling' = calling \cup {u}
    /\ calls' = calls + 1
    /\ UNCHANGED <<sock, client, given, up>>

Ask(fd) ==
    /\ up /\ fd \in Connected /\ ~sock[fd].asks /\ ~sock[fd].gone
    /\ sock' = [sock EXCEPT ![fd].asks = TRUE]
    /\ UNCHANGED <<calling, calls, client, given, up>>

\* A client leaves at any time, with or without its answer.
Hangup(fd) ==
    /\ up /\ fd \in Connected /\ ~sock[fd].gone
    /\ sock' = [sock EXCEPT ![fd].gone = TRUE]
    /\ UNCHANGED <<calling, calls, client, given, up>>

ClientStep == (\E u \in Uids : Call(u)) \/ (\E fd \in Fds : Ask(fd) \/ Hangup(fd))

-----------------------------------------------------------------------------
\* client.c

client_alloc(table) == table \o [n \in 1 .. NALLOC |-> Free]

\* The first free entry, in a table that has grown when it had to.
Roomy(table) == IF \E n \in DOMAIN table : table[n].fd = -1 THEN table
                ELSE client_alloc(table)
Entry(table, fd) == Min({n \in DOMAIN table : table[n].fd = fd})

client_add(table, fd, uid) ==
    LET t == Roomy(table) IN [t EXCEPT ![Entry(t, -1)] = [fd |-> fd, uid |-> uid]]

\* An entry that is free keeps its uid.
client_del(table, fd) == [table EXCEPT ![Entry(table, fd)].fd = -1]

-----------------------------------------------------------------------------
\* serv_accept gives the new client the lowest descriptor.
Accepted(u, fd) ==
    /\ u \in calling /\ Connected # Fds
    /\ fd = Min(Fds \ Connected)
    /\ calling' = calling \ {u}
    /\ sock' = [sock EXCEPT ![fd] = [uid |-> u, asks |-> FALSE, gone |-> FALSE]]
    /\ client' = client_add(client, fd, u)
    /\ UNCHANGED <<calls, given, up>>

\* The server closes its end.
Closed(fd) ==
    /\ client' = client_del(client, fd)
    /\ sock' = [sock EXCEPT ![fd] = NoSock]
    /\ UNCHANGED <<calling, calls, given, up>>

\* handle_request(buf, nread, fd, uid).  The answer cannot be sent to a
\* client that has gone, and the server is ended by SIGPIPE.
handle_request(fd, uid) ==
    /\ given' = [uid |-> uid, of |-> sock[fd].uid]
    /\ sock' = [sock EXCEPT ![fd].asks = FALSE]
    /\ up' = ~sock[fd].gone
    /\ UNCHANGED <<calling, calls, client>>

\* A call failed, and the server ends.
log_sys == up' = FALSE /\ UNCHANGED <<calling, calls, sock, client, given>>

Readable(fd) == IF fd = listenfd THEN calling # {} /\ Connected # Fds
                ELSE sock[fd].asks \/ sock[fd].gone

-----------------------------------------------------------------------------
\* "one Client struct per connected client": the entries in use are the
\* connections, each once, with the user that made it.
OneClientPerConnection ==
    LET inuse == {n \in DOMAIN client : client[n].fd \in Fds} IN
    /\ {client[n].fd : n \in inuse} = Connected
    /\ \A m, n \in inuse : client[m].fd = client[n].fd => m = n
    /\ \A n \in inuse : client[n].uid = sock[client[n].fd].uid

\* A request is handled in the name of the user who made it.
RightUser == given.uid = given.of
=============================================================================
