----------------------------- MODULE MCAccounts -----------------------------
(***************************************************************************)
(* A small instance of Accounts: the seeded administrator and one address, *)
(* registered locally or through one of two Google accounts.               *)
(***************************************************************************)
EXTENDS Accounts, TLC

CONSTANTS root, alice, g1, g2, s1, s2, q1, q2

ToAlice == [g \in GoogleAccounts |-> alice]
DefaultPolicies == {<<"user", "profile">>, <<"admin", "profile">>, <<"admin", "policies">>,
                    <<"admin", "sessions">>, <<"admin", "users">>}
Symmetric == Permutations(Slots)
=============================================================================
