---------------------------- MODULE OpendSelect -----------------------------
(***************************************************************************)
(* The loop of ipc2/opend/loop.select.c.                                   *)
(***************************************************************************)
EXTENDS Opend

VARIABLES
    pc, i,         \* the loop, and its index into client[]
    rset, allset,  \* the descriptors that are ready, and those of interest
    maxfd, maxi

loopvars == <<pc, i, rset, allset, maxfd, maxi>>
vars == <<calling, calls, sock, client, given, up, pc, i, rset, allset, maxfd, maxi>>

TypeOK ==
    /\ WorldOK
    /\ pc \in {"select", "accept", "scan"}
    /\ i \in 0 .. MaxConns + NALLOC
    /\ rset \subseteq allset \cup Fds /\ allset \subseteq {listenfd} \cup Fds
    /\ maxfd \in 0 .. MaxConns
    /\ maxi \in -1 .. MaxConns - 1

Init ==
    /\ WorldInit
    /\ pc = "select" /\ i = 0
    /\ rset = {} /\ allset = {listenfd}
    /\ maxfd = listenfd /\ maxi = -1

\* select returns when a descriptor is ready.
Select ==
    /\ up /\ pc = "select"
    /\ rset' = {fd \in allset : fd <= maxfd /\ Readable(fd)}
    /\ rset' # {}
    /\ pc' = IF listenfd \in rset' THEN "accept" ELSE "scan"
    /\ i' = 0
    /\ UNCHANGED <<world, allset, maxfd, maxi>>

\* (mutant) The largest index is not kept.
AcceptShort ==
    /\ up /\ pc = "accept"
    /\ \E u \in Uids, fd \in Fds :
        /\ Accepted(u, fd)
        /\ allset' = allset \cup {fd}
        /\ maxfd' = Max({maxfd, fd})
        /\ maxi' = Max({maxi, 0})
    /\ pc' = "select"
    /\ UNCHANGED <<i, rset>>

\* A new client, and back to select, whoever else is ready.
Accept ==
    /\ up /\ pc = "accept"
    /\ \E u \in Uids, fd \in Fds :
        /\ Accepted(u, fd)
        /\ allset' = allset \cup {fd}
        /\ maxfd' = Max({maxfd, fd})
        /\ maxi' = Max({maxi, Entry(client', fd) - 1})
    /\ pc' = "select"
    /\ UNCHANGED <<i, rset>>

clifd == client[i + 1].fd

\* (mutant) The descriptor stays in the set.
ReadEofWatched ==
    /\ ~sock[clifd].asks
    /\ Closed(clifd)
    /\ UNCHANGED allset

ReadEof ==
    /\ ~sock[clifd].asks
    /\ Closed(clifd)
    /\ allset' = allset \ {clifd}

\* (mutant) The user of the entry before it.
ReadRequestOff ==
    /\ sock[clifd].asks
    /\ handle_request(clifd, client[IF i = 0 THEN 1 ELSE i].uid)
    /\ UNCHANGED allset

ReadRequest ==
    /\ sock[clifd].asks
    /\ handle_request(clifd, client[i + 1].uid)
    /\ UNCHANGED allset

\* The loop over client[].
Scan ==
    /\ up /\ pc = "scan"
    /\ IF i > maxi THEN pc' = "select" /\ UNCHANGED <<i, allset, world>>
       ELSE /\ i' = i + 1
            /\ IF clifd >= 0 /\ clifd \in rset THEN ReadEof \/ ReadRequest
               ELSE UNCHANGED <<allset, world>>
            /\ UNCHANGED pc
    /\ UNCHANGED <<rset, maxfd, maxi>>

\* No client can be accepted, or one that has gone cannot be read from.
Fails ==
    /\ up
    /\ \/ pc = "accept"
       \/ pc = "scan" /\ i <= maxi /\ clifd \in rset /\ clifd # listenfd /\ sock[clifd].gone
    /\ log_sys
    /\ UNCHANGED loopvars

loop == Select \/ Accept \/ Scan \/ Fails

Next == loop \/ (ClientStep /\ UNCHANGED loopvars)

Spec == Init /\ [][Next]_vars
FairSpec == Spec /\ WF_vars(loop)

\* select and the loop see every client: its descriptor is in allset and not
\* beyond maxfd, its entry not beyond maxi; and nothing else is watched.
EveryClientWatched ==
    /\ allset = {listenfd} \cup Connected
    /\ \A fd \in Connected : fd <= maxfd /\ Entry(client, fd) - 1 <= maxi

\* The table of clients and what select is called with agree with the
\* connections (client_add, client_del, loop).
TablesExact == TypeOK /\ OneClientPerConnection /\ EveryClientWatched

\* A client that asks gets its answer although the loop starts again at
\* every new connection; as long as nobody ends the server.
EveryoneAnswered ==
    \A fd \in Fds : sock[fd].asks ~> ~sock[fd].asks \/ ~up
=============================================================================
