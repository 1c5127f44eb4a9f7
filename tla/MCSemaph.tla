------------------------------ MODULE MCSemaph ------------------------------
(***************************************************************************)
(* A small instance of Semaph.                                             *)
(***************************************************************************)
EXTENDS Semaph

CONSTANTS p1, p2

Once == [p \in Procs |-> 1]
=============================================================================
