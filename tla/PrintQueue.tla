----------------------------- MODULE PrintQueue -----------------------------
(***************************************************************************)
(* What the spooler promises while it runs: jobs are printed in the order  *)
(* in which they were queued, none is lost and none is printed twice by    *)
(* one daemon, except that a job may be canceled (printd.c 717-729).  The  *)
(* list is gone when the daemon ends, and is built anew when it starts.    *)
(***************************************************************************)
EXTENDS Naturals, Sequences, Functions

CONSTANT Clients
VARIABLES up, waiting, done,
          before     \* how many of done were printed by earlier daemons

Init == up = FALSE /\ waiting = << >> /\ done = << >> /\ before = 0

Start == ~up /\ up' = TRUE /\ before' = Len(done) /\ UNCHANGED <<waiting, done>>

Stop == up /\ up' = FALSE /\ waiting' = << >> /\ UNCHANGED <<done, before>>

Submit(c) == /\ up
             /\ c \notin Range(waiting \o SubSeq(done, before + 1, Len(done)))
             /\ waiting' = Append(waiting, c)
             /\ UNCHANGED <<up, done, before>>

Deliver == /\ waiting # << >>
           /\ done' = Append(done, Head(waiting))
           /\ waiting' = Tail(waiting)
           /\ UNCHANGED <<up, before>>

Cancel == waiting # << >> /\ waiting' = Tail(waiting) /\ UNCHANGED <<up, done, before>>

Next == Start \/ Stop \/ (\E c \in Clients : Submit(c)) \/ Deliver \/ Cancel

Spec == Init /\ [][Next]_<<up, waiting, done, before>>
=============================================================================
