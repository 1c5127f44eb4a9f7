----------------------------- MODULE OpendPoll ------------------------------
(***************************************************************************)
(* The loop of ipc2/opend/loop.poll.c.  Besides the table of clients it    *)
(* keeps an array for poll, the first numfd entries of which are in use.   *)
(***************************************************************************)
EXTENDS Opend

VARIABLES
    pc, i,          \* the loop, and its index into pollfd[]
    pollfd, numfd   \* pollfd[i + 1] is pollfd[i] of the code

loopvars == <<pc, i, pollfd, numfd>>
vars == <<calling, calls, sock, client, given, up, pc, i, pollfd, numfd>>

Unused == [fd |-> -1, revents |-> "0"]
Revents == {"0", "POLLIN", "POLLHUP"}

TypeOK ==
    /\ WorldOK
    /\ pc \in {"poll", "accept", "scan"}
    /\ i \in 0 .. MaxConns + 1
    /\ pollfd \in Seq([fd : {-1, listenfd} \cup Fds, revents : Revents])
    /\ numfd \in 1 .. Len(pollfd)

\* The listening descriptor has the entry 0 of both tables.
Init ==
    /\ calling = {} /\ calls = 0
    /\ sock = [fd \in Fds |-> NoSock]
    /\ client = client_add(<< >>, listenfd, "root")
    /\ given = [uid |-> "none", of |-> "none"]
    /\ up = TRUE
    /\ pc = "poll" /\ i = 1
    /\ pollfd = [n \in 1 .. NALLOC |-> IF n = 1 THEN [Unused EXCEPT !.fd = listenfd]
                                       ELSE Unused]
    /\ numfd = 1

\* A peer that has gone makes POLLHUP, with or without something to read.
Revent(fd) == IF fd # listenfd /\ sock[fd].gone THEN "POLLHUP"
              ELSE IF Readable(fd) THEN "POLLIN" ELSE "0"

\* poll returns when one of the first numfd entries is ready.
Poll ==
    /\ up /\ pc = "poll"
    /\ pollfd' = [n \in DOMAIN pollfd |->
                    IF n <= numfd THEN [pollfd[n] EXCEPT !.revents = Revent(pollfd[n].fd)]
                    ELSE pollfd[n]]
    /\ \E n \in 1 .. numfd : pollfd'[n].revents # "0"
    /\ pc' = IF pollfd'[1].revents = "POLLIN" THEN "accept" ELSE "scan"
    /\ i' = 1
    /\ UNCHANGED <<world, numfd>>

grow_pollfd(table) == table \o [n \in 1 .. NALLOC |-> Unused]

\* A new client gets the entry numfd; the loop goes on with the others.
Accept ==
    /\ up /\ pc = "accept"
    /\ \E u \in Uids, fd \in Fds :
        /\ Accepted(u, fd)
        /\ LET t == IF numfd = Len(pollfd) THEN grow_pollfd(pollfd) ELSE pollfd
           IN  pollfd' = [t EXCEPT ![numfd + 1] = [fd |-> fd, revents |-> "0"]]
    /\ numfd' = numfd + 1
    /\ pc' = "scan"
    /\ UNCHANGED i

this == pollfd[i + 1]

\* (mutant) The entry moved here is not looked at again.
HungupNext ==
    /\ Closed(this.fd)
    /\ pollfd' = IF i < numfd - 1 THEN [pollfd EXCEPT ![i + 1] = pollfd[numfd]] ELSE pollfd
    /\ i' = i + 1
    /\ numfd' = numfd - 1

\* (mutant) The array is not packed.
HungupUnpacked ==
    /\ Closed(this.fd)
    /\ i' = i + 1
    /\ numfd' = numfd - 1
    /\ UNCHANGED pollfd

\* The last entry takes the place of the one that is closed, and is looked
\* at next, with what poll said of it.
Hungup ==
    /\ Closed(this.fd)
    /\ pollfd' = IF i < numfd - 1 THEN [pollfd EXCEPT ![i + 1] = pollfd[numfd]] ELSE pollfd
    /\ i' = IF i < numfd - 1 THEN i ELSE i + 1
    /\ numfd' = numfd - 1

\* The uid is taken from client[i], whatever client that is.
Request ==
    /\ handle_request(this.fd, client[i + 1].uid)
    /\ i' = i + 1
    /\ UNCHANGED <<pollfd, numfd>>

\* The loop over pollfd[].  A client closes both directions at once, so that
\* POLLIN means that there is a request.
Scan ==
    /\ up /\ pc = "scan"
    /\ IF i >= numfd THEN pc' = "poll" /\ UNCHANGED <<i, pollfd, numfd, world>>
       ELSE /\ CASE this.revents = "POLLHUP" -> Hungup
                 [] this.revents = "POLLIN" -> Request
                 [] this.revents = "0" -> i' = i + 1 /\ UNCHANGED <<pollfd, numfd, world>>
            /\ UNCHANGED pc

\* No client can be accepted, or one that has gone since poll returned
\* cannot be read from.
Fails ==
    /\ up
    /\ \/ pc = "accept"
       \/ pc = "scan" /\ i < numfd /\ this.revents = "POLLIN" /\ sock[this.fd].gone
    /\ log_sys
    /\ UNCHANGED loopvars

loop == Poll \/ Accept \/ Scan \/ Fails

Next == loop \/ (ClientStep /\ UNCHANGED loopvars)

Spec == Init /\ [][Next]_vars
FairSpec == Spec /\ WF_vars(loop)

\* The first numfd entries are the connections, each once.
EveryClientPolled ==
    /\ pollfd[1].fd = listenfd
    /\ {pollfd[n].fd : n \in 2 .. numfd} = Connected
    /\ Cardinality(Connected) = numfd - 1

\* Both tables, which grow and are packed at different times, hold the
\* connections and nothing else (client_add, grow_pollfd, loop).
TablesExact == TypeOK /\ OneClientPerConnection /\ EveryClientPolled

\* What poll has said of a connection is acted on before poll is called
\* again, although the entries move while the loop goes over them: an entry
\* before the index is not one that was found ready and is still open unread.
NoneSkipped ==
    pc = "scan" => \A n \in 2 .. numfd :
        n <= i /\ pollfd[n].revents = "POLLHUP" => ~sock[pollfd[n].fd].gone

\* A client that asks gets its answer, or the end of its connection.
EveryoneAnswered ==
    \A fd \in Fds : sock[fd].asks ~> ~sock[fd].asks \/ ~up
=============================================================================
