---------------------------- MODULE MCAnswerCache ----------------------------
(* Model-checking instances of AnswerCache: in company c1 a member of both   *)
(* its teams, a member of none and an admin who belongs to the first; in c2  *)
(* a member of no team; a document in each team of c1, the second one's      *)
(* visible to the whole company.                                             *)
EXTENDS AnswerCache, TLC

CONSTANTS c1, c2, u2, loner, stray, boss, t1, t2, d1, d2

Employers   == (u2 :> c1) @@ (loner :> c1) @@ (stray :> c2) @@ (boss :> c1)
Memberships == (u2 :> {t1, t2}) @@ (loner :> {}) @@ (stray :> {}) @@ (boss :> {t1})
Owners      == (t1 :> c1) @@ (t2 :> c1)
Ownership   == (d1 :> t1) @@ (d2 :> t2)
NoTopics    == [p \in {} |-> t1]
Untopical   == [d \in {d1, d2} |-> Unfiltered]
Question(u, t) == [user |-> u, team |-> t, topic |-> Unfiltered]
ByTeam      == {Question(u2, Unfiltered), Question(u2, t2), Question(boss, t2)}
Teamless2   == {Question(loner, Unfiltered), Question(stray, Unfiltered)}
ByAll       == ByTeam \cup Teamless2
Symmetry    == Permutations(Request)
=============================================================================
