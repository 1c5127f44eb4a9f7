------------------------------ MODULE MCPrintd ------------------------------
(***************************************************************************)
(* Small instances of Printd: the file of c1 is empty, that of c2 takes    *)
(* one buffer.                                                             *)
(***************************************************************************)
EXTENDS Printd

CONSTANTS c1, c2

Sizes == [c \in Clients |-> IF c = c1 THEN 0 ELSE 1]
=============================================================================
