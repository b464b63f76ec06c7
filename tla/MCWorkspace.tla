----------------------------- MODULE MCWorkspace -----------------------------
(* Model-checking instance of Workspace: an owner, a member of two teams with *)
(* a default, a member of one, and an admin of another company.  Two updates  *)
(* and two deletions of one topic, uploads into it and elsewhere, removals by *)
(* the uploader and by that other admin, and two questions.                   *)
EXTENDS Workspace, TLC

CONSTANTS own, bob, cyd, out, t1, t2, g1, c1, e1, e2, x1, x2,
          d1, d2, d3, m1, m2, q1, q2

Claims   == (own :> {t1}) @@ (bob :> {t1, t2}) @@ (cyd :> {t2})
            @@ (out :> {})
Defaults == (own :> None) @@ (bob :> t2) @@ (cyd :> None)
            @@ (out :> None)
Homes    == g1 :> t1
Users    == (c1 :> bob) @@ (e1 :> own) @@ (e2 :> own) @@ (x1 :> own) @@ (x2 :> own)
            @@ (d1 :> bob) @@ (d2 :> bob) @@ (d3 :> cyd)
            @@ (m1 :> bob) @@ (m2 :> out)
            @@ (q1 :> bob) @@ (q2 :> cyd)
Topics   == (e1 :> g1) @@ (e2 :> g1) @@ (x1 :> g1) @@ (x2 :> g1)
            @@ (d1 :> g1) @@ (d2 :> None) @@ (d3 :> c1) @@ (q1 :> g1) @@ (q2 :> None)
Teams    == (c1 :> t2) @@ (d1 :> t2) @@ (d2 :> None) @@ (d3 :> None)
            @@ (q1 :> None) @@ (q2 :> t2)
Removed  == (m1 :> d1) @@ (m2 :> d1)
Fields   == (e1 :> {"name"}) @@ (e2 :> {"description"})
Sizes    == (d1 :> 2) @@ (d2 :> 1) @@ (d3 :> 2)
Removals == Permutations(TopicRemoval)
=============================================================================
