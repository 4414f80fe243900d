---------------------------- MODULE MCRankHistory ----------------------------
(***************************************************************************)
(* A small instance of RankHistory: one pair, which the job may lose.  One *)
(* domain rises from the twelfth place to the second, the other has two    *)
(* hosts, and each is gone from some page.                                 *)
(***************************************************************************)
EXTENDS RankHistory, TLC

CONSTANTS p1, t, u, wt

One == p1 :> 1

WithoutWww == t :> t @@ u :> u @@ wt :> t

SomePlaces == {(2 :> t @@ 12 :> u), (2 :> u @@ 12 :> None), (2 :> u @@ 12 :> wt)}
=============================================================================
