----------------------------- MODULE MCSessions -----------------------------
(* Model-checking instance of Sessions: an admin, an inactive user and a     *)
(* member who signs in both ways, loses a team and gets it back; three reset  *)
(* links, two of them the member's, and one of those is used twice.          *)
EXTENDS Sessions, TLC

CONSTANTS ann, bob, t1, t2, l1, l2, l3, cyd, c1, a1, x1, x2, f1, f2, f3, r1, r2, r3

Holds    == (l1 :> bob) @@ (l2 :> ann) @@ (l3 :> cyd) @@ (c1 :> bob)
Changes  == (a1 :> <<bob, t1>>) @@ (x1 :> <<bob, t1>>) @@ (x2 :> <<bob, t1>>)
Links    == (f1 :> bob) @@ (f2 :> bob) @@ (f3 :> ann)
Uses     == (r1 :> f1) @@ (r2 :> f1) @@ (r3 :> f2)
Members  == {<<bob, t1>>, <<ann, t2>>}
Symmetry == Permutations({x1, x2}) \cup Permutations({r1, r2})
=============================================================================
