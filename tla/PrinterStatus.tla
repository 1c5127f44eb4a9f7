--------------------------- MODULE PrinterStatus ----------------------------
(***************************************************************************)
(* printer_status of printer/printd.c, with readmore and tread: how the    *)
(* print spooler judges the reply of the printer, which arrives in pieces. *)
(*                                                                         *)
(* A reply is a sequence of units, none of which is cut: a status line, a  *)
(* header field and the field Content-Length, each with its "\r"; "lf" and *)
(* "cr"; the IPP header; the attributes behind it.  Offsets count units.   *)
(***************************************************************************)
EXTENDS Integers, Sequences, SequencesExt, FiniteSetsExt

VARIABLES
    reply,     \* what the printer sends
    rest,      \* what of it has not been read
    buf,       \* what malloc gave, as far as something was read into it
    datsz, i,  \* the end of the data in it, and the offset of cp
    pc, then,  \* where the call is, and where it goes on after readmore
    success,
    late       \* the printer kept the rest back for longer than a read waits

vars == <<reply, rest, buf, datsz, i, pc, then, success, late>>

\* What printers answer: perhaps an HTTP_INFO reply first, then an HTTP
\* error, or a header, in which the length may come last, and an IPP reply
\* that accepts this job, refuses it or is about another one.
Continue == <<"http 100", "lf", "cr", "lf">>
Headers == {<<"http 200", "lf", "length", "lf", "cr", "lf">>,
            <<"http 200", "lf", "length", "lf", "field", "lf", "cr", "lf">>,
            <<"http 200", "lf", "field", "lf", "length", "lf", "cr", "lf">>}
IppHeaders == {"accepted", "refused", "other job"}
Finals == {<<"http 500", "lf", "cr", "lf">>} \cup {h \o <<ipp, "attributes">> : h \in Headers, ipp \in IppHeaders}
len == 2                                      \* the value of Content-Length

At(k) == IF k < Len(buf) THEN buf[k + 1] ELSE "junk"

Init ==
    /\ reply \in Finals \cup {Continue \o f : f \in Finals}
    /\ rest = reply /\ buf = <<>> /\ datsz = 0 /\ i = 0
    /\ pc = "read" /\ then = "read" /\ success = FALSE /\ late = FALSE

-----------------------------------------------------------------------------

\* tread into &bp[off]: the next piece, however long.
Arrives(off, n) ==
    /\ n \in 1 .. Len(rest)
    /\ rest' = SubSeq(rest, n + 1, Len(rest))
    /\ buf' = [k \in 1 .. Max({Len(buf), off + n}) |-> IF k > off /\ k <= off + n THEN rest[k - off] ELSE At(k - 1)]

Read ==
    /\ pc = "read"
    /\ \E n \in 1 .. Len(rest) : Arrives(0, n) /\ datsz' = n
    /\ pc' = "status"
    /\ UNCHANGED <<reply, i, then, success, late>>

\* readmore returns off + nr, which is added to datsz.
ReadMore ==
    /\ pc = "readmore"
    /\ \E n \in 1 .. Len(rest) : Arrives(i, n) /\ datsz' = datsz + i + n
    /\ pc' = then
    /\ UNCHANGED <<reply, i, then, success, late>>

\* Nothing in time, or the printer has closed the connection.
NoMore ==
    /\ pc \in {"read", "readmore"}
    /\ late' = (rest # <<>>)
    /\ pc' = "returned"
    /\ UNCHANGED <<reply, rest, buf, datsz, i, then, success>>

GoOn(next) == pc' = next /\ UNCHANGED then
GoOnReading(next) == pc' = "readmore" /\ then' = next

\* The code of the status line; what is in its place in another piece of the
\* reply may be digits, of some other code.
StatusLine ==
    /\ pc = "status"
    /\ \/ At(0) = "http 200" /\ GoOn("length") /\ i' = 1
       \/ At(0) = "http 500" /\ GoOn("returned") /\ UNCHANGED i
       \/ At(0) = "http 100" /\ GoOn("read") /\ UNCHANGED i
       \/ At(0) \notin {"http 100", "http 200", "http 500"} /\ UNCHANGED i
          /\ (GoOn("read") \/ GoOn("returned"))
    /\ UNCHANGED <<reply, rest, buf, datsz, success, late>>

\* The search for Content-Length; at the end of the data, more is read.
Search ==
    /\ pc = "length"
    /\ LET here == {k \in i .. datsz - 1 : At(k) = "length"}
       IN  \/ here = {} /\ i' = datsz /\ GoOnReading("length")
           \/ here # {} /\ i' = Min(here) + 1
              /\ IF i' >= datsz THEN GoOnReading("end") ELSE GoOn("end")
    /\ UNCHANGED <<reply, rest, buf, datsz, success, late>>

\* The search for the empty line; where it is not found i stops before datsz.
EndOfHeader ==
    /\ pc = "end"
    /\ LET here == {k \in i .. datsz - 3 : At(k) = "lf" /\ At(k + 1) = "cr" /\ At(k + 2) = "lf"}
           found == here # {}
       IN  /\ i' = IF found THEN Min(here) + 3 ELSE Max({i, datsz - 2})
           /\ IF i' >= datsz THEN GoOnReading(IF found THEN "body" ELSE "end")
                             ELSE GoOn(IF found THEN "body" ELSE "end")
    /\ UNCHANGED <<reply, rest, buf, datsz, success, late>>

Body ==
    /\ pc = "body"
    /\ IF datsz - i < len THEN GoOnReading("judge") ELSE GoOn("judge")
    /\ UNCHANGED <<reply, rest, buf, datsz, i, success, late>>

\* Memory that is no IPP header may read as any.
Judge ==
    /\ pc = "judge"
    /\ success' \in IF At(i) \in IppHeaders THEN {At(i) = "accepted"} ELSE BOOLEAN
    /\ GoOn("returned")
    /\ UNCHANGED <<reply, rest, buf, datsz, i, late>>

Returned == pc = "returned" /\ UNCHANGED vars

Next == Read \/ ReadMore \/ NoMore \/ StatusLine \/ Search \/ EndOfHeader \/ Body \/ Judge \/ Returned

\* A read waits at most five seconds.
Spec == Init /\ [][Next]_vars /\ WF_vars(Next)

-----------------------------------------------------------------------------

\* printer_status returns, and what it returns is what the printer says of
\* the job, in however many pieces it says it (883-887).
ReplyJudged ==
    <>(pc = "returned" /\ (late \/ (success <=> \E k \in DOMAIN reply : reply[k] = "accepted")))
=============================================================================
