---------------------------- MODULE MCJobSchedule ----------------------------
(***************************************************************************)
(* A small instance of JobSchedule.                                        *)
(***************************************************************************)
EXTENDS JobSchedule

CONSTANTS j1, q1, q2
=============================================================================
