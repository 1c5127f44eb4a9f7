-------------------------- MODULE CountedSemaphore --------------------------
(***************************************************************************)
(* What lib/semaph.c delivers: a semaphore that is initialised once, is    *)
(* given back by a process that ends, and is removed when nobody uses it.  *)
(* A server may remove it under its users; else only who comes while the   *)
(* last one that left is about to remove it can lose it.                   *)
(***************************************************************************)
EXTENDS Naturals

CONSTANTS Procs, Servers, InitVal
VARIABLES
    exists, value, users, held,
    closing     \* somebody has left, has found nobody else, and will remove it

Init ==
    exists = FALSE /\ value = 0 /\ users = {} /\ held = {} /\ closing = FALSE

Create ==
    /\ ~exists
    /\ exists' = TRUE /\ value' = InitVal
    /\ UNCHANGED <<users, held, closing>>

Enter(p) ==
    /\ exists /\ p \notin users
    /\ users' = users \cup {p}
    /\ UNCHANGED <<exists, value, held, closing>>

Wait(p) ==
    /\ p \in users \ held /\ value > 0
    /\ value' = value - 1
    /\ held' = held \cup {p}
    /\ UNCHANGED <<exists, users, closing>>

\* The value goes up whether p signals or ends while it holds the semaphore.
Signal(p) ==
    /\ p \in held
    /\ value' = value + 1
    /\ held' = held \ {p}
    /\ UNCHANGED <<exists, users, closing>>

Leave(p) ==
    /\ p \in users
    /\ users' = users \ {p}
    /\ held' = held \ {p}
    /\ value' = IF p \in held THEN value + 1 ELSE value
    /\ UNCHANGED <<exists, closing>>

\* The last one has left: it is to be removed.
Decide ==
    /\ exists /\ users = {}
    /\ closing' = TRUE
    /\ UNCHANGED <<exists, value, users, held>>

\* Whoever has come since then loses it.
Remove ==
    /\ closing
    /\ exists' = FALSE /\ value' = 0
    /\ users' = {} /\ held' = {} /\ closing' = FALSE

\* The one that would have removed it has ended.
Spare ==
    /\ closing
    /\ closing' = FALSE
    /\ UNCHANGED <<exists, value, users, held>>

\* sem_rm
Destroy(p) ==
    /\ p \in (Servers \cap users) \ held
    /\ exists' = FALSE /\ value' = 0
    /\ users' = {} /\ held' = {} /\ closing' = FALSE

Next ==
    \/ Create \/ Decide \/ Remove \/ Spare \/ \E p \in Procs : Destroy(p)
    \/ \E p \in Procs : Enter(p) \/ Wait(p) \/ Signal(p) \/ Leave(p)

Spec == Init /\ [][Next]_<<exists, value, users, held, closing>>
=============================================================================
