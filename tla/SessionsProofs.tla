--------------------------- MODULE SessionsProofs ---------------------------
(***************************************************************************)
(* Proofs about Sessions: type correctness, the end of stale access, that  *)
(* a link is spent once, that open links overlapped and that the latest    *)
(* reset wins, for any number of users, teams, sessions and requests.      *)
(***************************************************************************)
EXTENDS Sessions, TLAPS

(* What the token of a session may claim: a team lost since it was read was *)
(* lost just now while the token is signed, and a token's life after exp - *)
(* TokenLife once it is.                                                   *)
Claims ==
    \A s \in Session :
        /\ pc[s] \in {"new", "link", "teams", "issue"} => exp[s] = -1
        /\ exp[s] = -1 \/ exp[s] <= now + TokenLife
        /\ \A t \in teams[s] :
              <<Holder[s], t>> \notin members =>
                 /\ pc[s] = "issue" => lost[<<Holder[s], t>>] = now
                 /\ exp[s] # -1 => exp[s] <= lost[<<Holder[s], t>>] + TokenLife

(* A link is inserted after its request invalidated the others, and one    *)
(* whose request has yet to insert saw the open ones being inserted.       *)
Issued ==
    /\ \A f \in Link : pc[f] \in {"new", "insert", "done", "cut"}
    /\ \A f \in Link : pc[f] \in {"new", "insert", "cut"} => link[f] = "none"
    /\ \A f, g \in Link :
          LinkOf[f] = LinkOf[g] /\ pc[f] = "insert" /\ link[g] = "open"
              => f \in beside[g]

(* A reset that got its link left it used, and one at its second statement *)
(* is the latest of its user or was overtaken.                             *)
Spent ==
    /\ \A r \in Reset : pc[r] \in {"new", "write", "done", "refused", "cut"}
    /\ \A r \in Reset : pc[r] \in {"write", "done", "cut"} => link[Through[r]] = "used"
    /\ \A r \in Reset :
          pc[r] = "write" =>
             latest[LinkOf[Through[r]]] = r \/ LinkOf[Through[r]] \in overtaken
    /\ \A u \in User :
          latest[u] # NoReset =>
             /\ LinkOf[Through[latest[u]]] = u
             /\ pc[latest[u]] \in {"write", "done", "cut"}

IInv ==
    /\ TypeOK
    /\ Claims
    /\ Issued
    /\ Spent
    /\ LinkSpentOnce
    /\ OpenLinksOverlapped
    /\ LatestResetWins

-----------------------------------------------------------------------------
LEMMA InitIInv == Init => IInv
<1> SUFFICES ASSUME Init PROVE IInv
  OBVIOUS
<1> USE SessionsAssumption DEF Init
<1>1. TypeOK
  BY DEF TypeOK, Places
<1>2. Claims
  BY DEF Claims, Request, Session
<1>3. Issued
  BY DEF Issued, Request
<1>4. Spent
  BY DEF Spent, Request
<1>5. LinkSpentOnce
  BY DEF LinkSpentOnce, Request
<1>6. OpenLinksOverlapped
  BY DEF OpenLinksOverlapped
<1>7. LatestResetWins
  BY DEF LatestResetWins
<1> QED
  BY <1>1, <1>2, <1>3, <1>4, <1>5, <1>6, <1>7 DEF IInv

-----------------------------------------------------------------------------
LEMMA TypeStep == TypeOK /\ [Next]_vars => TypeOK'
<1> SUFFICES ASSUME TypeOK, [Next]_vars PROVE TypeOK'
  OBVIOUS
<1> USE SessionsAssumption DEF TypeOK, Places, Begin, Goto, people, links, tokens, Request
<1>1. ASSUME NEW s \in Login, Authenticate(s) PROVE TypeOK'
  BY <1>1 DEF Authenticate
<1>2. ASSUME NEW s \in Callback, FindGoogleUser(s) PROVE TypeOK'
  BY <1>2 DEF FindGoogleUser
<1>3. ASSUME NEW s \in Callback, LinkGoogle(s) PROVE TypeOK'
  BY <1>3 DEF LinkGoogle, Session
<1>4. ASSUME NEW s \in Session, ReadTeams(s) PROVE TypeOK'
  BY <1>4 DEF ReadTeams, TeamIds
<1>5. ASSUME NEW s \in Session, IssueToken(s) PROVE TypeOK'
  BY <1>5 DEF IssueToken
<1>6. ASSUME NEW r \in Addition \cup Removal, AddMember(r) PROVE TypeOK'
  BY <1>6 DEF AddMember
<1>7. ASSUME NEW r \in Addition \cup Removal, RemoveMember(r) PROVE TypeOK'
  BY <1>7 DEF RemoveMember, DeleteMember
<1>8. ASSUME NEW f \in Link, Invalidate(f) PROVE TypeOK'
  BY <1>8 DEF Invalidate
<1>9. ASSUME NEW f \in Link, InsertLink(f) PROVE TypeOK'
  BY <1>9 DEF InsertLink
<1>10. ASSUME NEW r \in Reset, TakeLink(r) PROVE TypeOK'
  <2>1. /\ latest' \in [User -> Reset \cup {NoReset}]
        /\ overtaken' \subseteq User
    <3>1. CASE TakenBy(r)
      <4> DEFINE u == LinkOf[Through[r]]
      <4>1. u \in User /\ latest' = [latest EXCEPT ![u] = r]
        BY <3>1 DEF TakenBy
      <4>2. overtaken' = overtaken \cup {u} \/ overtaken' = overtaken \ {u}
        BY <3>1 DEF TakenBy
      <4> QED
        BY <4>1, <4>2
    <3>2. CASE UNCHANGED <<latest, overtaken>>
      BY <3>2
    <3> QED
      BY <1>10, <3>1, <3>2 DEF TakeLink
  <2>2. link' \in [Link -> {"none", "open", "used"}]
    BY <1>10 DEF TakeLink
  <2>3. pc' \in [Request -> Places] /\ asked' \in Nat
    BY <1>10 DEF TakeLink
  <2> QED
    BY <1>10, <2>1, <2>2, <2>3 DEF TakeLink
<1>11. ASSUME NEW r \in Reset, WritePassword(r) PROVE TypeOK'
  BY <1>11 DEF WritePassword
<1>12. ASSUME NEW r \in Request, CutOff(r) PROVE TypeOK'
  BY <1>12 DEF CutOff
<1>13. CASE Tick
  BY <1>13 DEF Tick
<1>14. CASE UNCHANGED vars
  BY <1>14 DEF vars
<1> QED
  BY <1>1, <1>2, <1>3, <1>4, <1>5, <1>6, <1>7, <1>8, <1>9, <1>10, <1>11, <1>12,
     <1>13, <1>14
  DEF Next, PasswordLogin, GoogleCallback, ForgotPassword, ResetPassword, Session

-----------------------------------------------------------------------------
(* One lemma per part of the invariant; the requests of different kinds do *)
(* not disturb each other.                                                 *)

LEMMA ClaimsStep == TypeOK /\ Claims /\ [Next]_vars => Claims'
<1> SUFFICES ASSUME TypeOK, Claims, [Next]_vars PROVE Claims'
  OBVIOUS
<1> USE SessionsAssumption DEF TypeOK, Claims, Begin, Goto, people, links, tokens,
        Request, Session
<1>1. ASSUME NEW s \in Login, Authenticate(s) PROVE Claims'
  BY <1>1 DEF Authenticate
<1>2. ASSUME NEW s \in Callback, FindGoogleUser(s) PROVE Claims'
  BY <1>2 DEF FindGoogleUser
<1>3. ASSUME NEW s \in Callback, LinkGoogle(s) PROVE Claims'
  BY <1>3 DEF LinkGoogle
<1>4. ASSUME NEW s \in Session, ReadTeams(s) PROVE Claims'
  BY <1>4 DEF ReadTeams, TeamIds
<1>5. ASSUME NEW s \in Session, IssueToken(s) PROVE Claims'
  BY <1>5 DEF IssueToken
<1>6. ASSUME NEW r \in Addition \cup Removal, AddMember(r) PROVE Claims'
  BY <1>6 DEF AddMember
<1>7. ASSUME NEW r \in Addition \cup Removal, RemoveMember(r) PROVE Claims'
  <2>1. UNCHANGED <<now, tokens>> /\ r \in Removal
    BY <1>7 DEF RemoveMember, DeleteMember
  <2>2. \A s \in Session : pc'[s] = pc[s]
    BY <1>7 DEF RemoveMember, DeleteMember
  <2>3. ASSUME NEW s \in Session, NEW t \in teams[s], <<Holder[s], t>> \notin members'
        PROVE  \/ <<Holder[s], t>> \notin members
                  /\ lost'[<<Holder[s], t>>] = lost[<<Holder[s], t>>]
               \/ lost'[<<Holder[s], t>>] = now
    <3> <<Holder[s], t>> \in User \X Team
      BY <2>3
    <3> QED
      BY <1>7, <2>3 DEF RemoveMember, DeleteMember
  <2> QED
    BY <2>1, <2>2, <2>3
<1>8. ASSUME NEW f \in Link, Invalidate(f) \/ InsertLink(f) PROVE Claims'
  BY <1>8 DEF Invalidate, InsertLink
<1>9. ASSUME NEW r \in Reset, TakeLink(r) \/ WritePassword(r) PROVE Claims'
  BY <1>9 DEF TakeLink, WritePassword
<1>10. ASSUME NEW r \in Request, CutOff(r) PROVE Claims'
  BY <1>10 DEF CutOff
<1>11. CASE Tick
  BY <1>11 DEF Tick
<1>12. CASE UNCHANGED vars
  BY <1>12 DEF vars
<1> QED
  BY <1>1, <1>2, <1>3, <1>4, <1>5, <1>6, <1>7, <1>8, <1>9, <1>10, <1>11, <1>12
  DEF Next, PasswordLogin, GoogleCallback, ForgotPassword, ResetPassword

(* What the requests about links and passwords see of the other steps.     *)
LEMMA OtherSteps ==
  ASSUME TypeOK, [Next]_vars,
         ~\E f \in Link : Invalidate(f) \/ InsertLink(f),
         ~\E r \in Reset : TakeLink(r) \/ WritePassword(r)
  PROVE  /\ UNCHANGED <<password, link, beside, latest, overtaken>>
         /\ \/ \A r \in Link \cup Reset : pc'[r] = pc[r]
            \/ \E q \in Link \cup Reset :
                  /\ pc[q] \in {"insert", "write", "link", "teams", "issue"}
                  /\ pc' = [pc EXCEPT ![q] = "cut"]
<1> USE SessionsAssumption
      DEF TypeOK, Begin, Goto, people, links, tokens, Request, Session
<1>1. ASSUME NEW s \in Login, Authenticate(s)
      PROVE  UNCHANGED links /\ \A r \in Link \cup Reset : pc'[r] = pc[r]
  BY <1>1 DEF Authenticate
<1>2. ASSUME NEW s \in Callback, FindGoogleUser(s) \/ LinkGoogle(s)
      PROVE  UNCHANGED links /\ \A r \in Link \cup Reset : pc'[r] = pc[r]
  BY <1>2 DEF FindGoogleUser, LinkGoogle
<1>3. ASSUME NEW s \in Session, ReadTeams(s) \/ IssueToken(s)
      PROVE  UNCHANGED links /\ \A r \in Link \cup Reset : pc'[r] = pc[r]
  BY <1>3 DEF ReadTeams, IssueToken
<1>4. ASSUME NEW s \in Addition \cup Removal, AddMember(s) \/ RemoveMember(s)
      PROVE  UNCHANGED links /\ \A r \in Link \cup Reset : pc'[r] = pc[r]
  BY <1>4 DEF AddMember, RemoveMember, DeleteMember
<1>5. ASSUME NEW q \in Request, CutOff(q)
      PROVE  /\ UNCHANGED links
             /\ \/ \A r \in Link \cup Reset : pc'[r] = pc[r]
                \/ /\ q \in Link \cup Reset
                   /\ pc[q] \in {"insert", "write", "link", "teams", "issue"}
                   /\ pc' = [pc EXCEPT ![q] = "cut"]
  BY <1>5 DEF CutOff
<1>6. CASE Tick \/ UNCHANGED vars
  BY <1>6 DEF Tick, vars
<1> QED
  BY <1>1, <1>2, <1>3, <1>4, <1>5, <1>6 DEF Next, links, PasswordLogin, GoogleCallback,
      ForgotPassword, ResetPassword

LEMMA IssuedStep ==
  TypeOK /\ Issued /\ Spent /\ OpenLinksOverlapped /\ [Next]_vars
      => Issued' /\ OpenLinksOverlapped'
<1> SUFFICES ASSUME TypeOK, Issued, Spent, OpenLinksOverlapped, [Next]_vars
             PROVE  Issued' /\ OpenLinksOverlapped'
  OBVIOUS
<1> USE SessionsAssumption DEF TypeOK, Issued, OpenLinksOverlapped, Begin, Goto, Request
<1>1. ASSUME NEW f \in Link, Invalidate(f) PROVE Issued' /\ OpenLinksOverlapped'
  BY <1>1 DEF Invalidate
<1>2. ASSUME NEW f \in Link, InsertLink(f) PROVE Issued' /\ OpenLinksOverlapped'
  <2>1. /\ \A g \in Link \ {f} : link'[g] = link[g] /\ pc'[g] = pc[g] /\ beside'[g] = beside[g]
        /\ link'[f] = "open" /\ pc[f] = "insert" /\ pc'[f] = "done"
        /\ beside'[f] = {g \in Link \ {f} : LinkOf[g] = LinkOf[f] /\ pc[g] = "insert"}
    BY <1>2 DEF InsertLink
  <2>2. \A g, h \in Link :
           LinkOf[g] = LinkOf[h] /\ pc'[g] = "insert" /\ link'[h] = "open"
               => g \in beside'[h]
    BY <2>1
  <2>3. Issued'
    BY <2>1, <2>2
  <2>4. OpenLinksOverlapped'
    <3> SUFFICES ASSUME NEW g \in Link, NEW h \in Link, g # h, LinkOf[g] = LinkOf[h],
                        link'[g] = "open", link'[h] = "open"
                 PROVE  g \in beside'[h] \/ h \in beside'[g]
      OBVIOUS
    <3>1. CASE g = f
      BY <2>1, <3>1
    <3>2. CASE h = f
      BY <2>1, <3>2
    <3>3. CASE g # f /\ h # f
      BY <2>1, <3>3
    <3> QED
      BY <3>1, <3>2, <3>3
  <2> QED
    BY <2>3, <2>4
<1>3. ASSUME NEW r \in Reset, TakeLink(r) PROVE Issued' /\ OpenLinksOverlapped'
  <2>1. /\ UNCHANGED beside
        /\ \A f \in Link : pc'[f] = pc[f]
        /\ \A f \in Link : link'[f] = link[f] \/ (link[f] # "none" /\ link'[f] = "used")
    BY <1>3 DEF TakeLink
  <2> QED
    BY <2>1
<1>4. ASSUME NEW r \in Reset, WritePassword(r) PROVE Issued' /\ OpenLinksOverlapped'
  BY <1>4 DEF WritePassword
<1>5. CASE /\ ~\E f \in Link : Invalidate(f) \/ InsertLink(f)
           /\ ~\E r \in Reset : TakeLink(r) \/ WritePassword(r)
  <2>1. UNCHANGED <<link, beside>>
    BY <1>5, OtherSteps
  <2>2. \A f \in Link : pc'[f] = pc[f] \/ (pc[f] = "insert" /\ pc'[f] = "cut")
    BY <1>5, OtherSteps
  <2> QED
    BY <2>1, <2>2
<1> QED
  BY <1>1, <1>2, <1>3, <1>4, <1>5

LEMMA SpentStep ==
  TypeOK /\ Issued /\ Spent /\ LinkSpentOnce /\ LatestResetWins /\ [Next]_vars
      => Spent' /\ LinkSpentOnce' /\ LatestResetWins'
<1> SUFFICES ASSUME TypeOK, Issued, Spent, LinkSpentOnce, LatestResetWins, [Next]_vars
             PROVE  Spent' /\ LinkSpentOnce' /\ LatestResetWins'
  OBVIOUS
<1> USE SessionsAssumption DEF TypeOK, Spent, LinkSpentOnce, LatestResetWins, Request
<1>1. ASSUME NEW f \in Link, Invalidate(f) \/ InsertLink(f)
      PROVE  Spent' /\ LinkSpentOnce' /\ LatestResetWins'
  <2>1. UNCHANGED <<password, latest, overtaken>> /\ \A r \in Reset : pc'[r] = pc[r]
    BY <1>1 DEF Invalidate, InsertLink, Begin, Goto
  <2>2. \A g \in Link : link[g] = "used" => link'[g] = "used"
    BY <1>1 DEF Invalidate, InsertLink, Begin, Goto, Issued
  <2> QED
    BY <2>1, <2>2
<1>2. ASSUME NEW r \in Reset, TakeLink(r)
      PROVE  Spent' /\ LinkSpentOnce' /\ LatestResetWins'
  <2> DEFINE u == LinkOf[Through[r]]
  <2>0. /\ \A q \in Reset \ {r} : pc'[q] = pc[q]
        /\ pc[r] = "new" /\ pc'[r] \in {"write", "refused"}
        /\ UNCHANGED password
    BY <1>2 DEF TakeLink, Begin, Goto
  <2>1. CASE UNCHANGED <<link, latest, overtaken>> /\ pc'[r] = "refused"
    BY <2>0, <2>1
  <2>2. CASE Usable(Through[r]) /\ TakenBy(r) /\ pc'[r] = "write"
             /\ link' = [link EXCEPT ![Through[r]] = "used"]
    <3>1. \A q \in Reset \ {r} : Through[q] = Through[r] => pc[q] \notin {"write", "done", "cut"}
      BY <2>2 DEF Usable
    <3>2. /\ u \in User
          /\ latest'[u] = r
          /\ \A v \in User \ {u} : latest'[v] = latest[v] /\ (v \in overtaken' <=> v \in overtaken)
      BY <2>2 DEF TakenBy
    <3>3. (\E q \in Reset : LinkOf[Through[q]] = u /\ pc[q] = "write") => u \in overtaken'
      BY <2>2 DEF TakenBy
    <3>4. Spent'
      <4>1. \A q \in Reset : pc'[q] \in {"write", "done", "cut"} => link'[Through[q]] = "used"
        BY <2>0, <2>2
      <4>2. \A q \in Reset : pc'[q] = "write" =>
                latest'[LinkOf[Through[q]]] = q \/ LinkOf[Through[q]] \in overtaken'
        BY <2>0, <3>2, <3>3
      <4>3. \A v \in User : latest'[v] # NoReset =>
                /\ LinkOf[Through[latest'[v]]] = v
                /\ pc'[latest'[v]] \in {"write", "done", "cut"}
        BY <2>0, <2>2, <3>2
      <4> QED
        BY <2>0, <2>2, <4>1, <4>2, <4>3
    <3>5. LinkSpentOnce'
      BY <2>0, <2>2, <3>1
    <3>6. LatestResetWins'
      BY <2>0, <2>2, <3>2
    <3> QED
      BY <3>4, <3>5, <3>6
  <2> QED
    BY <1>2, <2>1, <2>2 DEF TakeLink, Begin, Goto
<1>3. ASSUME NEW r \in Reset, WritePassword(r)
      PROVE  Spent' /\ LinkSpentOnce' /\ LatestResetWins'
  <2> DEFINE u == LinkOf[Through[r]]
  <2>1. /\ UNCHANGED <<link, latest, overtaken>>
        /\ \A q \in Reset \ {r} : pc'[q] = pc[q]
        /\ pc[r] = "write" /\ pc'[r] = "done"
        /\ password' = [password EXCEPT ![u] = r]
    BY <1>3 DEF WritePassword, Goto
  <2>2. latest[u] = r \/ u \in overtaken
    BY <2>1
  <2>3. Spent'
    <3>1. \A q \in Reset : pc'[q] \in {"write", "done", "cut"} => link'[Through[q]] = "used"
      BY <2>1
    <3>2. \A q \in Reset : pc'[q] = "write" =>
              latest'[LinkOf[Through[q]]] = q \/ LinkOf[Through[q]] \in overtaken'
      BY <2>1
    <3>3. ASSUME NEW v \in User, latest[v] # NoReset
          PROVE  /\ LinkOf[Through[latest[v]]] = v
                 /\ pc'[latest[v]] \in {"write", "done", "cut"}
      <4>1. latest[v] \in Reset /\ pc[latest[v]] \in {"write", "done", "cut"}
        BY <3>3
      <4> QED
        BY <2>1, <3>3, <4>1
    <3>4. \A q \in Reset : pc'[q] \in {"new", "write", "done", "refused", "cut"}
      BY <2>1
    <3> QED
      BY <2>1, <3>1, <3>2, <3>3, <3>4
  <2>4. LinkSpentOnce'
    BY <2>1
  <2>5. LatestResetWins'
    <3> SUFFICES ASSUME NEW v \in User, latest[v] # NoReset, v \notin overtaken,
                        pc'[latest[v]] \notin {"write", "cut"}
                 PROVE  password'[v] = latest[v]
      BY <2>1
    <3>1. /\ latest[v] \in Reset
          /\ LinkOf[Through[latest[v]]] = v
          /\ password[v] = latest[v] \/ pc[latest[v]] \in {"write", "cut"}
      OBVIOUS
    <3>2. CASE latest[v] = r
      BY <2>1, <3>1, <3>2
    <3>3. CASE latest[v] # r
      <4>1. v # u
        BY <2>2, <3>1, <3>3
      <4>2. password'[v] = password[v] /\ pc'[latest[v]] = pc[latest[v]]
        BY <2>1, <3>1, <3>3, <4>1
      <4> QED
        BY <3>1, <4>2
    <3> QED
      BY <3>2, <3>3
  <2> QED
    BY <2>3, <2>4, <2>5
<1>4. CASE /\ ~\E f \in Link : Invalidate(f) \/ InsertLink(f)
           /\ ~\E r \in Reset : TakeLink(r) \/ WritePassword(r)
  <2>1. UNCHANGED <<password, link, latest, overtaken>>
    BY <1>4, OtherSteps
  <2>2. \A r \in Reset : pc'[r] = pc[r] \/ (pc[r] = "write" /\ pc'[r] = "cut")
    <3>1. CASE \A r \in Link \cup Reset : pc'[r] = pc[r]
      BY <3>1
    <3>2. ASSUME NEW q \in Link \cup Reset,
                 pc[q] \in {"insert", "write", "link", "teams", "issue"},
                 pc' = [pc EXCEPT ![q] = "cut"]
          PROVE  \A r \in Reset : pc'[r] = pc[r] \/ (pc[r] = "write" /\ pc'[r] = "cut")
      BY <3>2
    <3> QED
      BY <1>4, <3>1, <3>2, OtherSteps
  <2>3. Spent'
    <3>1. \A q \in Reset : pc'[q] \in {"write", "done", "cut"} => link'[Through[q]] = "used"
      BY <2>1, <2>2
    <3>2. \A q \in Reset : pc'[q] = "write" =>
              latest'[LinkOf[Through[q]]] = q \/ LinkOf[Through[q]] \in overtaken'
      BY <2>1, <2>2
    <3>3. ASSUME NEW v \in User, latest[v] # NoReset
          PROVE  /\ LinkOf[Through[latest[v]]] = v
                 /\ pc'[latest[v]] \in {"write", "done", "cut"}
      <4>1. latest[v] \in Reset /\ pc[latest[v]] \in {"write", "done", "cut"}
        BY <3>3
      <4> QED
        BY <2>2, <3>3, <4>1
    <3>4. \A q \in Reset : pc'[q] \in {"new", "write", "done", "refused", "cut"}
      BY <2>2
    <3> QED
      BY <2>1, <3>1, <3>2, <3>3, <3>4
  <2>4. LinkSpentOnce'
    BY <2>1, <2>2
  <2>5. LatestResetWins'
    <3> SUFFICES ASSUME NEW v \in User, latest[v] # NoReset
                 PROVE  \/ password[v] = latest[v]
                        \/ pc'[latest[v]] \in {"write", "cut"}
                        \/ v \in overtaken
      BY <2>1
    <3>1. latest[v] \in Reset
      OBVIOUS
    <3>2. pc[latest[v]] \in {"write", "cut"} => pc'[latest[v]] \in {"write", "cut"}
      BY <2>2, <3>1
    <3> QED
      BY <3>2
  <2> QED
    BY <2>3, <2>4, <2>5
<1> QED
  BY <1>1, <1>2, <1>3, <1>4

-----------------------------------------------------------------------------
\* The inductive invariant: what tokens may claim, what links were seen open
\* when one was inserted, and which reset was the last to take one.
THEOREM SessionsInvariant == Spec => []IInv
<1>1. IInv /\ [Next]_vars => IInv'
  BY TypeStep, ClaimsStep, IssuedStep, SpentStep DEF IInv
<1> QED
  BY <1>1, InitIInv, PTL DEF Spec

\* Type correctness of the tables, tokens and requests.
THEOREM SessionsTyped == Spec => []TypeOK
<1>1. IInv => TypeOK
  BY DEF IInv
<1> QED
  BY <1>1, SessionsInvariant, PTL

\* A removed member's tokens open the team for a token's life at most,
\* however many logins race the removal.
THEOREM RemovalTakesEffect == Spec => []StaleAccessEnds
<1>1. IInv => StaleAccessEnds
  <2> SUFFICES ASSUME IInv, NEW s \in Session, NEW t \in Team,
                      Opens(s, t), Holder[s] \notin Admins,
                      <<Holder[s], t>> \notin members
               PROVE  now <= lost[<<Holder[s], t>>] + TokenLife
    BY DEF StaleAccessEnds
  <2>1. t \in teams[s] /\ now <= exp[s]
    BY DEF Opens, Valid, CanAccessTeam, VisibleTeams, ClaimedTeams, MayListMembers
  <2>2. exp[s] # -1
    BY <2>1 DEF IInv, TypeOK
  <2>3. exp[s] <= lost[<<Holder[s], t>>] + TokenLife
    BY <2>1, <2>2 DEF IInv, Claims
  <2>4. <<Holder[s], t>> \in User \X Team
    BY SessionsAssumption
  <2>5. lost[<<Holder[s], t>>] \in Int /\ exp[s] \in Int /\ now \in Int
    BY <2>4 DEF IInv, TypeOK
  <2> QED
    BY <2>1, <2>3, <2>5, SessionsAssumption
<1> QED
  BY <1>1, SessionsInvariant, PTL

\* A reset link changes a password at most once, for any number of uses at
\* once.
THEOREM LinksAreSpentOnce == Spec => []LinkSpentOnce
<1>1. IInv => LinkSpentOnce
  BY DEF IInv
<1> QED
  BY <1>1, SessionsInvariant, PTL

\* Two open links of one user come from overlapping requests only.
THEOREM OpenLinksAreExplained == Spec => []OpenLinksOverlapped
<1>1. IInv => OpenLinksOverlapped
  BY DEF IInv
<1> QED
  BY <1>1, SessionsInvariant, PTL

\* The password is that of the latest reset that was neither cut off nor
\* began during another.
THEOREM LatestResetIsKept == Spec => []LatestResetWins
<1>1. IInv => LatestResetWins
  BY DEF IInv
<1> QED
  BY <1>1, SessionsInvariant, PTL
=============================================================================
