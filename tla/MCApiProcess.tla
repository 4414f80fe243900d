---------------------------- MODULE MCApiProcess ----------------------------
(***************************************************************************)
(* A small instance of ApiProcess.                                          *)
(***************************************************************************)
EXTENDS ApiProcess

CONSTANTS u1, c1

OneUser == [c \in {c1} |-> u1]
=============================================================================
