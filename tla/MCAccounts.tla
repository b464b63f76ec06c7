----------------------------- MODULE MCAccounts -----------------------------
(* Model-checking instances of Accounts: two people, one of whom may sign up *)
(* while invited; one invite opened twice, and one with a role that no team  *)
(* knows.                                                                   *)
EXTENDS Accounts, TLC

CONSTANTS ann, bob, s1, i1, i2, a1, a2, a3

SignsUp  == s1 :> ann
Invited  == (i1 :> ann) @@ (i2 :> bob)
Opens    == (a1 :> i1) @@ (a2 :> i1) @@ (a3 :> i2)
Symmetry == Permutations({a1, a2}) \cup Permutations(NewTeam)
=============================================================================
