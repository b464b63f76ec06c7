---------------------------- MODULE AccountsProofs ----------------------------
(***************************************************************************)
(* Machine-checked proofs about Accounts, for any number of sign-ups,      *)
(* invites, requests, failures and any plan.                               *)
(***************************************************************************)
EXTENDS Accounts, FiniteSetTheorems, TLAPS

\* The points of a request that come after its INSERT of a user.
Past == {"team", "owner", "prefer", "subscribe", "announce", "join", "mark", "done"}

(* Two requests for one email are never both past their INSERT.            *)
OnePast ==
    /\ \A r \in SignUp \cup Accept : pc[r] \in Past => account[EmailOf(r)] # NoOne
    /\ \A q, r \in SignUp \cup Accept :
           pc[q] \in Past /\ pc[r] \in Past /\ EmailOf(q) = EmailOf(r) => q = r

(* What a sign-up has built by the time it reaches each point.             *)
Built(s) ==
    /\ pc[s] \in Past \cup {"user"} => s \in companies
    /\ pc[s] \in Past => account[SignUpEmail[s]] = s
    /\ pc[s] \in Past \ {"team"} => s \in generals
    /\ pc[s] \in Past \ {"team", "owner"} => SignUpEmail[s] \in member \cup removed
    /\ pc[s] \in Past \ {"team", "owner", "prefer"} => SignUpEmail[s] \in preferred
    /\ pc[s] \in {"announce", "done"} => s \in subscribed

AllBuilt ==
    /\ \A s \in SignUp : Built(s)
    /\ AnnouncedCompanyIsWhole

(* A request that passed its limit check did so on a count below the limit, *)
(* and no request is counted as late before its INSERT.                    *)
Checked ==
    /\ \A a \in Accept :
           /\ pc[a] = "user" => counted[a] < MaxUsers
           /\ a \in late => pc[a] \notin {"new", "email", "count", "limit", "user"}
    /\ \A n \in NewTeam :
           /\ pc[n] = "insert" => counted[n] < MaxTeams
           /\ n \in late => pc[n] \notin {"new", "limit", "insert"}

AccountsInv ==
    /\ TypeOK
    /\ OnePast
    /\ AllBuilt
    /\ TeamlessOnlyIfStranded
    /\ Checked
    /\ UsersAccounted
    /\ TeamsAccounted

-----------------------------------------------------------------------------

\* Every sign-up and every accepted invite is for one of the emails.
LEMMA EmailOfTyped == \A r \in SignUp \cup Accept : EmailOf(r) \in Email
  BY AccountsAssumption DEF EmailOf, Invitee

\* The users of the tenant can be counted.
LEMMA UsersCounted ==
    /\ IsFiniteSet(Users)
    /\ UserCount \in Nat
  <1>1. IsFiniteSet(Users)
    BY AccountsAssumption, FS_Subset DEF Users
  <1> QED
    BY <1>1, FS_CardinalityType DEF UserCount

\* So can the late requests of either kind.
LEMMA LateCounted ==
    /\ IsFiniteSet(late \cap Accept) /\ Cardinality(late \cap Accept) \in Nat
    /\ IsFiniteSet(late \cap NewTeam) /\ Cardinality(late \cap NewTeam) \in Nat
  <1>1. IsFiniteSet(late \cap Accept) /\ IsFiniteSet(late \cap NewTeam)
    BY AccountsAssumption, FS_Subset
  <1> QED
    BY <1>1, FS_CardinalityType

\* Every step keeps the state well typed; the counts are numbers because the
\* sets counted are finite.
LEMMA TypePreserved ==
    ASSUME TypeOK, AllBuilt, [Next]_vars
    PROVE  TypeOK'
  <1> USE AccountsAssumption, EmailOfTyped
      DEF TypeOK, Ended, Request, At, signedUp, people, ghosts, AllBuilt, Built, Past
  <1>1. ASSUME NEW s \in SignUp, CheckEmail(s) PROVE TypeOK'
    BY <1>1 DEF CheckEmail
  <1>2. ASSUME NEW s \in SignUp, CreateCompany(s) PROVE TypeOK'
    BY <1>2 DEF CreateCompany
  <1>3. ASSUME NEW s \in SignUp, CreateOwner(s) PROVE TypeOK'
    BY <1>3 DEF CreateOwner, InsertUser
  <1>4. ASSUME NEW s \in SignUp, CreateGeneral(s) PROVE TypeOK'
    BY <1>4 DEF CreateGeneral
  <1>5. ASSUME NEW s \in SignUp, JoinAsOwner(s) PROVE TypeOK'
    BY <1>5 DEF JoinAsOwner, JoinTeam
  <1>6. ASSUME NEW s \in SignUp, PreferGeneral(s) PROVE TypeOK'
    BY <1>6 DEF PreferGeneral, SetDefault
  <1>7. ASSUME NEW s \in SignUp, OpenSubscription(s) PROVE TypeOK'
    BY <1>7 DEF OpenSubscription
  <1>8. ASSUME NEW s \in SignUp, Announce(s) PROVE TypeOK'
    BY <1>8 DEF Announce, Fail
  <1>9. ASSUME NEW i \in Invite, SendInvite(i) PROVE TypeOK'
    BY <1>9 DEF SendInvite
  <1>10. ASSUME NEW i \in Invite, Expire(i) PROVE TypeOK'
    BY <1>10 DEF Expire
  <1>11. ASSUME NEW a \in Accept, FindInvite(a) PROVE TypeOK'
    BY <1>11 DEF FindInvite
  <1>12. ASSUME NEW a \in Accept, CheckInvitee(a) PROVE TypeOK'
    BY <1>12 DEF CheckInvitee
  <1>13. ASSUME NEW a \in Accept, CountUsers(a) PROVE TypeOK'
    BY <1>13, UsersCounted DEF CountUsers
  <1>14. ASSUME NEW a \in Accept, CheckUserLimit(a) PROVE TypeOK'
    BY <1>14 DEF CheckUserLimit
  <1>15. ASSUME NEW a \in Accept, CreateMember(a) PROVE TypeOK'
    BY <1>15 DEF CreateMember, InsertUser
  <1>16. ASSUME NEW a \in Accept, UsernameTaken(a) PROVE TypeOK'
    BY <1>16 DEF UsernameTaken
  <1>17. ASSUME NEW a \in Accept, JoinAsInvited(a) PROVE TypeOK'
    BY <1>17 DEF JoinAsInvited, JoinTeam, Invitee
  <1>18. ASSUME NEW a \in Accept, PreferTeam(a) PROVE TypeOK'
    BY <1>18 DEF PreferTeam, SetDefault, Invitee
  <1>19. ASSUME NEW a \in Accept, MarkAccepted(a) PROVE TypeOK'
    BY <1>19 DEF MarkAccepted
  <1>20. ASSUME NEW n \in NewTeam, CountTeams(n) PROVE TypeOK'
    BY <1>20 DEF CountTeams
  <1>21. ASSUME NEW n \in NewTeam, CheckTeamLimit(n) PROVE TypeOK'
    BY <1>21 DEF CheckTeamLimit
  <1>22. ASSUME NEW n \in NewTeam, CreateTeam(n) PROVE TypeOK'
    BY <1>22 DEF CreateTeam
  <1>23. ASSUME NEW r \in Request, CutOff(r) PROVE TypeOK'
    BY <1>23 DEF CutOff, Fail
  <1>24. ASSUME NEW e \in Managed, AddMember(e) PROVE TypeOK'
    BY <1>24 DEF AddMember, JoinTeam
  <1>25. ASSUME NEW e \in Managed, RemoveMember(e) PROVE TypeOK'
    BY <1>25 DEF RemoveMember
  <1>26. CASE UNCHANGED vars
    BY <1>26 DEF vars
  <1> QED
    BY <1>1, <1>2, <1>3, <1>4, <1>5, <1>6, <1>7, <1>8, <1>9, <1>10, <1>11, <1>12, <1>13,
        <1>14, <1>15, <1>16, <1>17, <1>18, <1>19, <1>20, <1>21, <1>22, <1>23,
        <1>24, <1>25, <1>26 DEF Next

\* The INSERT of a user fails on an email that is taken, so the second of two
\* requests never gets past it.
LEMMA OnePastPreserved ==
    ASSUME TypeOK, OnePast, [Next]_vars
    PROVE  OnePast'
  <1> USE AccountsAssumption, EmailOfTyped
      DEF TypeOK, Ended, Request, At, signedUp, people, ghosts, OnePast, Past
  <1>1. ASSUME NEW s \in SignUp, CheckEmail(s) PROVE OnePast'
    BY <1>1 DEF CheckEmail
  <1>2. ASSUME NEW s \in SignUp, CreateCompany(s) PROVE OnePast'
    BY <1>2 DEF CreateCompany
  <1>3. ASSUME NEW s \in SignUp, CreateOwner(s) PROVE OnePast'
    BY <1>3 DEF CreateOwner, InsertUser, EmailOf
  <1>4. ASSUME NEW s \in SignUp, CreateGeneral(s) PROVE OnePast'
    BY <1>4 DEF CreateGeneral
  <1>5. ASSUME NEW s \in SignUp, JoinAsOwner(s) PROVE OnePast'
    BY <1>5 DEF JoinAsOwner, JoinTeam
  <1>6. ASSUME NEW s \in SignUp, PreferGeneral(s) PROVE OnePast'
    BY <1>6 DEF PreferGeneral, SetDefault
  <1>7. ASSUME NEW s \in SignUp, OpenSubscription(s) PROVE OnePast'
    BY <1>7 DEF OpenSubscription
  <1>8. ASSUME NEW s \in SignUp, Announce(s) PROVE OnePast'
    BY <1>8 DEF Announce, Fail
  <1>9. ASSUME NEW i \in Invite, SendInvite(i) PROVE OnePast'
    BY <1>9 DEF SendInvite
  <1>10. ASSUME NEW i \in Invite, Expire(i) PROVE OnePast'
    BY <1>10 DEF Expire
  <1>11. ASSUME NEW a \in Accept, FindInvite(a) PROVE OnePast'
    BY <1>11 DEF FindInvite
  <1>12. ASSUME NEW a \in Accept, CheckInvitee(a) PROVE OnePast'
    BY <1>12 DEF CheckInvitee
  <1>13. ASSUME NEW a \in Accept, CountUsers(a) PROVE OnePast'
    BY <1>13 DEF CountUsers
  <1>14. ASSUME NEW a \in Accept, CheckUserLimit(a) PROVE OnePast'
    BY <1>14 DEF CheckUserLimit
  <1>15. ASSUME NEW a \in Accept, CreateMember(a) PROVE OnePast'
    BY <1>15 DEF CreateMember, InsertUser, EmailOf
  <1>16. ASSUME NEW a \in Accept, UsernameTaken(a) PROVE OnePast'
    BY <1>16 DEF UsernameTaken
  <1>17. ASSUME NEW a \in Accept, JoinAsInvited(a) PROVE OnePast'
    BY <1>17 DEF JoinAsInvited, JoinTeam
  <1>18. ASSUME NEW a \in Accept, PreferTeam(a) PROVE OnePast'
    BY <1>18 DEF PreferTeam, SetDefault
  <1>19. ASSUME NEW a \in Accept, MarkAccepted(a) PROVE OnePast'
    BY <1>19 DEF MarkAccepted
  <1>20. ASSUME NEW n \in NewTeam, CountTeams(n) PROVE OnePast'
    BY <1>20 DEF CountTeams
  <1>21. ASSUME NEW n \in NewTeam, CheckTeamLimit(n) PROVE OnePast'
    BY <1>21 DEF CheckTeamLimit
  <1>22. ASSUME NEW n \in NewTeam, CreateTeam(n) PROVE OnePast'
    BY <1>22 DEF CreateTeam
  <1>23. ASSUME NEW r \in Request, CutOff(r) PROVE OnePast'
    BY <1>23 DEF CutOff, Fail
  <1>24. ASSUME NEW e \in Managed, AddMember(e) PROVE OnePast'
    BY <1>24 DEF AddMember, JoinTeam
  <1>25. ASSUME NEW e \in Managed, RemoveMember(e) PROVE OnePast'
    BY <1>25 DEF RemoveMember
  <1>26. CASE UNCHANGED vars
    BY <1>26 DEF vars
  <1> QED
    BY <1>1, <1>2, <1>3, <1>4, <1>5, <1>6, <1>7, <1>8, <1>9, <1>10, <1>11, <1>12, <1>13,
        <1>14, <1>15, <1>16, <1>17, <1>18, <1>19, <1>20, <1>21, <1>22, <1>23,
        <1>24, <1>25, <1>26 DEF Next

\* Adding a member takes nobody off the record.
LEMMA AddingKeepsBuilt ==
    ASSUME AllBuilt, NEW e, AddMember(e)
    PROVE  AllBuilt'
  <1>1. \A x : x \in member \cup removed => x \in member' \cup removed'
    BY DEF AddMember, JoinTeam
  <1>2. UNCHANGED <<companies, generals, subscribed, topics, account, preferred, pc>>
    BY DEF AddMember, signedUp
  <1>3. ASSUME NEW s \in SignUp PROVE Built(s)'
    BY <1>1, <1>2, <1>3 DEF AllBuilt, Built
  <1>4. AnnouncedCompanyIsWhole'
    BY <1>1, <1>2 DEF AllBuilt, AnnouncedCompanyIsWhole
  <1> QED
    BY <1>3, <1>4 DEF AllBuilt

\* A sign-up announces its company last, and nothing it built is taken
\* away but its owner's membership, by an admin.
LEMMA BuiltPreserved ==
    ASSUME TypeOK, AllBuilt, [Next]_vars
    PROVE  AllBuilt'
  <1> USE AccountsAssumption, EmailOfTyped
      DEF TypeOK, Ended, Request, At, signedUp, people, ghosts,
          AllBuilt, Built, Past, AnnouncedCompanyIsWhole
  <1>1. ASSUME NEW s \in SignUp, CheckEmail(s) PROVE AllBuilt'
    BY <1>1 DEF CheckEmail
  <1>2. ASSUME NEW s \in SignUp, CreateCompany(s) PROVE AllBuilt'
    BY <1>2 DEF CreateCompany
  <1>3. ASSUME NEW s \in SignUp, CreateOwner(s) PROVE AllBuilt'
    BY <1>3 DEF CreateOwner, InsertUser
  <1>4. ASSUME NEW s \in SignUp, CreateGeneral(s) PROVE AllBuilt'
    BY <1>4 DEF CreateGeneral
  <1>5. ASSUME NEW s \in SignUp, JoinAsOwner(s) PROVE AllBuilt'
    BY <1>5 DEF JoinAsOwner, JoinTeam
  <1>6. ASSUME NEW s \in SignUp, PreferGeneral(s) PROVE AllBuilt'
    BY <1>6 DEF PreferGeneral, SetDefault
  <1>7. ASSUME NEW s \in SignUp, OpenSubscription(s) PROVE AllBuilt'
    BY <1>7 DEF OpenSubscription
  <1>8. ASSUME NEW s \in SignUp, Announce(s) PROVE AllBuilt'
    BY <1>8 DEF Announce, Fail
  <1>9. ASSUME NEW i \in Invite, SendInvite(i) PROVE AllBuilt'
    BY <1>9 DEF SendInvite
  <1>10. ASSUME NEW i \in Invite, Expire(i) PROVE AllBuilt'
    BY <1>10 DEF Expire
  <1>11. ASSUME NEW a \in Accept, FindInvite(a) PROVE AllBuilt'
    BY <1>11 DEF FindInvite
  <1>12. ASSUME NEW a \in Accept, CheckInvitee(a) PROVE AllBuilt'
    BY <1>12 DEF CheckInvitee
  <1>13. ASSUME NEW a \in Accept, CountUsers(a) PROVE AllBuilt'
    BY <1>13 DEF CountUsers
  <1>14. ASSUME NEW a \in Accept, CheckUserLimit(a) PROVE AllBuilt'
    BY <1>14 DEF CheckUserLimit
  <1>15. ASSUME NEW a \in Accept, CreateMember(a) PROVE AllBuilt'
    BY <1>15 DEF CreateMember, InsertUser
  <1>16. ASSUME NEW a \in Accept, UsernameTaken(a) PROVE AllBuilt'
    BY <1>16 DEF UsernameTaken
  <1>17. ASSUME NEW a \in Accept, JoinAsInvited(a) PROVE AllBuilt'
    BY <1>17 DEF JoinAsInvited, JoinTeam
  <1>18. ASSUME NEW a \in Accept, PreferTeam(a) PROVE AllBuilt'
    BY <1>18 DEF PreferTeam, SetDefault
  <1>19. ASSUME NEW a \in Accept, MarkAccepted(a) PROVE AllBuilt'
    BY <1>19 DEF MarkAccepted
  <1>20. ASSUME NEW n \in NewTeam, CountTeams(n) PROVE AllBuilt'
    BY <1>20 DEF CountTeams
  <1>21. ASSUME NEW n \in NewTeam, CheckTeamLimit(n) PROVE AllBuilt'
    BY <1>21 DEF CheckTeamLimit
  <1>22. ASSUME NEW n \in NewTeam, CreateTeam(n) PROVE AllBuilt'
    BY <1>22 DEF CreateTeam
  <1>23. ASSUME NEW r \in Request, CutOff(r) PROVE AllBuilt'
    BY <1>23 DEF CutOff, Fail
  <1>24. ASSUME NEW e \in Managed, AddMember(e) PROVE AllBuilt'
    BY <1>24, AddingKeepsBuilt DEF AllBuilt
  <1>25. ASSUME NEW e \in Managed, RemoveMember(e) PROVE AllBuilt'
    BY <1>25 DEF RemoveMember
  <1>26. CASE UNCHANGED vars
    BY <1>26 DEF vars
  <1> QED
    BY <1>1, <1>2, <1>3, <1>4, <1>5, <1>6, <1>7, <1>8, <1>9, <1>10, <1>11, <1>12, <1>13,
        <1>14, <1>15, <1>16, <1>17, <1>18, <1>19, <1>20, <1>21, <1>22, <1>23,
        <1>24, <1>25, <1>26 DEF Next

\* Whoever leaves a new user without a team is on record.
LEMMA TeamlessPreserved ==
    ASSUME TypeOK, TeamlessOnlyIfStranded, [Next]_vars
    PROVE  TeamlessOnlyIfStranded'
  <1> USE AccountsAssumption, EmailOfTyped
      DEF TypeOK, Ended, Request, At, signedUp, people, ghosts,
          TeamlessOnlyIfStranded, EmailOf, Invitee
  <1>1. ASSUME NEW s \in SignUp, CheckEmail(s) PROVE TeamlessOnlyIfStranded'
    BY <1>1 DEF CheckEmail
  <1>2. ASSUME NEW s \in SignUp, CreateCompany(s) PROVE TeamlessOnlyIfStranded'
    BY <1>2 DEF CreateCompany
  <1>3. ASSUME NEW s \in SignUp, CreateOwner(s) PROVE TeamlessOnlyIfStranded'
    BY <1>3 DEF CreateOwner, InsertUser
  <1>4. ASSUME NEW s \in SignUp, CreateGeneral(s) PROVE TeamlessOnlyIfStranded'
    BY <1>4 DEF CreateGeneral
  <1>5. ASSUME NEW s \in SignUp, JoinAsOwner(s) PROVE TeamlessOnlyIfStranded'
    BY <1>5 DEF JoinAsOwner, JoinTeam
  <1>6. ASSUME NEW s \in SignUp, PreferGeneral(s) PROVE TeamlessOnlyIfStranded'
    BY <1>6 DEF PreferGeneral, SetDefault
  <1>7. ASSUME NEW s \in SignUp, OpenSubscription(s) PROVE TeamlessOnlyIfStranded'
    BY <1>7 DEF OpenSubscription
  <1>8. ASSUME NEW s \in SignUp, Announce(s) PROVE TeamlessOnlyIfStranded'
    BY <1>8 DEF Announce, Fail
  <1>9. ASSUME NEW i \in Invite, SendInvite(i) PROVE TeamlessOnlyIfStranded'
    BY <1>9 DEF SendInvite
  <1>10. ASSUME NEW i \in Invite, Expire(i) PROVE TeamlessOnlyIfStranded'
    BY <1>10 DEF Expire
  <1>11. ASSUME NEW a \in Accept, FindInvite(a) PROVE TeamlessOnlyIfStranded'
    BY <1>11 DEF FindInvite
  <1>12. ASSUME NEW a \in Accept, CheckInvitee(a) PROVE TeamlessOnlyIfStranded'
    BY <1>12 DEF CheckInvitee
  <1>13. ASSUME NEW a \in Accept, CountUsers(a) PROVE TeamlessOnlyIfStranded'
    BY <1>13 DEF CountUsers
  <1>14. ASSUME NEW a \in Accept, CheckUserLimit(a) PROVE TeamlessOnlyIfStranded'
    BY <1>14 DEF CheckUserLimit
  <1>15. ASSUME NEW a \in Accept, CreateMember(a) PROVE TeamlessOnlyIfStranded'
    BY <1>15 DEF CreateMember, InsertUser
  <1>16. ASSUME NEW a \in Accept, UsernameTaken(a) PROVE TeamlessOnlyIfStranded'
    BY <1>16 DEF UsernameTaken
  <1>17. ASSUME NEW a \in Accept, JoinAsInvited(a) PROVE TeamlessOnlyIfStranded'
    BY <1>17 DEF JoinAsInvited, JoinTeam
  <1>18. ASSUME NEW a \in Accept, PreferTeam(a) PROVE TeamlessOnlyIfStranded'
    BY <1>18 DEF PreferTeam, SetDefault
  <1>19. ASSUME NEW a \in Accept, MarkAccepted(a) PROVE TeamlessOnlyIfStranded'
    BY <1>19 DEF MarkAccepted
  <1>20. ASSUME NEW n \in NewTeam, CountTeams(n) PROVE TeamlessOnlyIfStranded'
    BY <1>20 DEF CountTeams
  <1>21. ASSUME NEW n \in NewTeam, CheckTeamLimit(n) PROVE TeamlessOnlyIfStranded'
    BY <1>21 DEF CheckTeamLimit
  <1>22. ASSUME NEW n \in NewTeam, CreateTeam(n) PROVE TeamlessOnlyIfStranded'
    BY <1>22 DEF CreateTeam
  <1>23. ASSUME NEW r \in Request, CutOff(r) PROVE TeamlessOnlyIfStranded'
    BY <1>23 DEF CutOff, Fail
  <1>24. ASSUME NEW e \in Managed, AddMember(e) PROVE TeamlessOnlyIfStranded'
    BY <1>24 DEF AddMember, JoinTeam
  <1>25. ASSUME NEW e \in Managed, RemoveMember(e) PROVE TeamlessOnlyIfStranded'
    BY <1>25 DEF RemoveMember
  <1>26. CASE UNCHANGED vars
    BY <1>26 DEF vars
  <1> QED
    BY <1>1, <1>2, <1>3, <1>4, <1>5, <1>6, <1>7, <1>8, <1>9, <1>10, <1>11, <1>12, <1>13,
        <1>14, <1>15, <1>16, <1>17, <1>18, <1>19, <1>20, <1>21, <1>22, <1>23,
        <1>24, <1>25, <1>26 DEF Next

\* A request inserts only after a check it passed.
LEMMA CheckedPreserved ==
    ASSUME TypeOK, Checked, [Next]_vars
    PROVE  Checked'
  <1> USE AccountsAssumption, EmailOfTyped
      DEF TypeOK, Ended, Request, At, signedUp, people, ghosts, Checked
  <1>1. ASSUME NEW s \in SignUp, CheckEmail(s) PROVE Checked'
    BY <1>1 DEF CheckEmail
  <1>2. ASSUME NEW s \in SignUp, CreateCompany(s) PROVE Checked'
    BY <1>2 DEF CreateCompany
  <1>3. ASSUME NEW s \in SignUp, CreateOwner(s) PROVE Checked'
    BY <1>3 DEF CreateOwner, InsertUser
  <1>4. ASSUME NEW s \in SignUp, CreateGeneral(s) PROVE Checked'
    BY <1>4 DEF CreateGeneral
  <1>5. ASSUME NEW s \in SignUp, JoinAsOwner(s) PROVE Checked'
    BY <1>5 DEF JoinAsOwner, JoinTeam
  <1>6. ASSUME NEW s \in SignUp, PreferGeneral(s) PROVE Checked'
    BY <1>6 DEF PreferGeneral, SetDefault
  <1>7. ASSUME NEW s \in SignUp, OpenSubscription(s) PROVE Checked'
    BY <1>7 DEF OpenSubscription
  <1>8. ASSUME NEW s \in SignUp, Announce(s) PROVE Checked'
    BY <1>8 DEF Announce, Fail
  <1>9. ASSUME NEW i \in Invite, SendInvite(i) PROVE Checked'
    BY <1>9 DEF SendInvite
  <1>10. ASSUME NEW i \in Invite, Expire(i) PROVE Checked'
    BY <1>10 DEF Expire
  <1>11. ASSUME NEW a \in Accept, FindInvite(a) PROVE Checked'
    BY <1>11 DEF FindInvite
  <1>12. ASSUME NEW a \in Accept, CheckInvitee(a) PROVE Checked'
    BY <1>12 DEF CheckInvitee
  <1>13. ASSUME NEW a \in Accept, CountUsers(a) PROVE Checked'
    BY <1>13, UsersCounted DEF CountUsers
  <1>14. ASSUME NEW a \in Accept, CheckUserLimit(a) PROVE Checked'
    BY <1>14 DEF CheckUserLimit
  <1>15. ASSUME NEW a \in Accept, CreateMember(a) PROVE Checked'
    BY <1>15 DEF CreateMember, InsertUser
  <1>16. ASSUME NEW a \in Accept, UsernameTaken(a) PROVE Checked'
    BY <1>16 DEF UsernameTaken
  <1>17. ASSUME NEW a \in Accept, JoinAsInvited(a) PROVE Checked'
    BY <1>17 DEF JoinAsInvited, JoinTeam
  <1>18. ASSUME NEW a \in Accept, PreferTeam(a) PROVE Checked'
    BY <1>18 DEF PreferTeam, SetDefault
  <1>19. ASSUME NEW a \in Accept, MarkAccepted(a) PROVE Checked'
    BY <1>19 DEF MarkAccepted
  <1>20. ASSUME NEW n \in NewTeam, CountTeams(n) PROVE Checked'
    BY <1>20 DEF CountTeams
  <1>21. ASSUME NEW n \in NewTeam, CheckTeamLimit(n) PROVE Checked'
    BY <1>21 DEF CheckTeamLimit
  <1>22. ASSUME NEW n \in NewTeam, CreateTeam(n) PROVE Checked'
    BY <1>22 DEF CreateTeam
  <1>23. ASSUME NEW r \in Request, CutOff(r) PROVE Checked'
    BY <1>23 DEF CutOff, Fail
  <1>24. ASSUME NEW e \in Managed, AddMember(e) PROVE Checked'
    BY <1>24 DEF AddMember, JoinTeam
  <1>25. ASSUME NEW e \in Managed, RemoveMember(e) PROVE Checked'
    BY <1>25 DEF RemoveMember
  <1>26. CASE UNCHANGED vars
    BY <1>26 DEF vars
  <1> QED
    BY <1>1, <1>2, <1>3, <1>4, <1>5, <1>6, <1>7, <1>8, <1>9, <1>10, <1>11, <1>12, <1>13,
        <1>14, <1>15, <1>16, <1>17, <1>18, <1>19, <1>20, <1>21, <1>22, <1>23,
        <1>24, <1>25, <1>26 DEF Next

\* Only the INSERT of a member adds to the tenant's users, and it adds a request
\* to the late ones unless the count it was checked with still stands.
LEMMA UsersPreserved ==
    ASSUME TypeOK, Checked, UsersAccounted, [Next]_vars
    PROVE  UsersAccounted'
  <1> USE AccountsAssumption DEF UsersAccounted
  <1>1. ASSUME NEW a \in Accept, CreateMember(a), account[Invitee(a)] = NoOne
        PROVE  UsersAccounted'
    <2>1. Users' = Users \cup {Invitee(a)} /\ Invitee(a) \notin Users
      BY <1>1, EmailOfTyped DEF CreateMember, InsertUser, Users, TypeOK, EmailOf, Invitee
    <2>2. UserCount' = UserCount + 1
      BY <2>1, UsersCounted, FS_AddElement DEF UserCount
    <2>3. counted[a] < MaxUsers /\ counted[a] \in Nat /\ a \notin late
      BY <1>1 DEF CreateMember, InsertUser, At, Checked, TypeOK, Request
    <2>4. CASE UserCount > counted[a]
      <3>1. (late \cap Accept)' = (late \cap Accept) \cup {a}
        BY <1>1, <2>4 DEF CreateMember
      <3>2. Cardinality((late \cap Accept)') = Cardinality(late \cap Accept) + 1
        BY <3>1, <2>3, LateCounted, FS_AddElement
      <3> QED
        BY <3>2, <2>2, UsersCounted, LateCounted
    <2>5. CASE ~(UserCount > counted[a])
      <3>1. late' = late
        BY <1>1, <2>5 DEF CreateMember
      <3> QED
        BY <3>1, <2>2, <2>3, <2>5, UsersCounted, LateCounted
    <2> QED
      BY <2>4, <2>5
  <1>2. ASSUME account' = account, (late \cap Accept)' = late \cap Accept
        PROVE  UsersAccounted'
    BY <1>2 DEF UserCount, Users
  <1>3. ASSUME NEW s \in SignUp, CreateOwner(s) PROVE UsersAccounted'
    <2>1. Users' = Users
      BY <1>3 DEF CreateOwner, InsertUser, Users, TypeOK
    <2> QED
      BY <2>1, <1>3 DEF CreateOwner, ghosts, UserCount
  <1>4. ASSUME NEW a \in Accept, CreateMember(a), account[Invitee(a)] # NoOne
        PROVE  UsersAccounted'
    BY <1>4, <1>2, EmailOfTyped DEF CreateMember, InsertUser, TypeOK, EmailOf, Invitee
  <1>5. ASSUME NEW n \in NewTeam, CreateTeam(n) PROVE UsersAccounted'
    <2>1. (late \cap Accept)' = late \cap Accept /\ account' = account
      BY <1>5 DEF CreateTeam, people
    <2> QED
      BY <2>1, <1>2
  <1>6. CASE \/ \E s \in SignUp :
                   \/ CheckEmail(s) \/ CreateCompany(s) \/ CreateGeneral(s) \/ JoinAsOwner(s)
                   \/ PreferGeneral(s) \/ OpenSubscription(s) \/ Announce(s)
             \/ \E i \in Invite : SendInvite(i) \/ Expire(i)
             \/ \E e \in Managed : AddMember(e) \/ RemoveMember(e)
             \/ \E n \in NewTeam : CountTeams(n) \/ CheckTeamLimit(n)
    <2>1. account' = account /\ late' = late
      BY <1>6 DEF CheckEmail, CreateCompany, CreateGeneral, JoinAsOwner, PreferGeneral,
                  OpenSubscription, Announce, SendInvite, Expire,
                  AddMember, RemoveMember, CountTeams, CheckTeamLimit, people, ghosts
    <2> QED
      BY <2>1, <1>2
  <1>7. CASE \/ \E a \in Accept :
                   \/ FindInvite(a) \/ CheckInvitee(a) \/ CountUsers(a) \/ CheckUserLimit(a)
                   \/ UsernameTaken(a) \/ JoinAsInvited(a) \/ PreferTeam(a) \/ MarkAccepted(a)
             \/ \E r \in Request : CutOff(r)
             \/ UNCHANGED vars
    <2>1. account' = account /\ late' = late
      BY <1>7 DEF FindInvite, CheckInvitee, CountUsers, CheckUserLimit, UsernameTaken,
                  JoinAsInvited, PreferTeam, MarkAccepted, CutOff, people, ghosts, vars
    <2> QED
      BY <2>1, <1>2
  <1> QED
    BY <1>1, <1>3, <1>4, <1>5, <1>6, <1>7 DEF Next

\* The same of the tenant's teams and the INSERT of a team.
LEMMA TeamsPreserved ==
    ASSUME TypeOK, Checked, TeamsAccounted, [Next]_vars
    PROVE  TeamsAccounted'
  <1> USE AccountsAssumption DEF TeamsAccounted
  <1>1. ASSUME teams' = teams, (late \cap NewTeam)' = late \cap NewTeam
        PROVE  TeamsAccounted'
    BY <1>1
  <1>2. ASSUME NEW n \in NewTeam, CreateTeam(n), teams' = teams + 1
        PROVE  TeamsAccounted'
    <2>1. pc[n] = "insert" /\ counted[n] < MaxTeams /\ counted[n] \in Nat /\ n \notin late
      BY <1>2 DEF CreateTeam, At, Checked, TypeOK, Request
    <2>2. CASE teams > counted[n]
      <3>1. (late \cap NewTeam)' = (late \cap NewTeam) \cup {n}
        BY <1>2, <2>2 DEF CreateTeam, TypeOK
      <3>2. Cardinality((late \cap NewTeam)') = Cardinality(late \cap NewTeam) + 1
        BY <3>1, <2>1, LateCounted, FS_AddElement
      <3> QED
        BY <3>2, <1>2, LateCounted DEF TypeOK
    <2>3. CASE ~(teams > counted[n])
      <3>1. late' = late
        BY <1>2, <2>3 DEF CreateTeam, TypeOK
      <3> QED
        BY <3>1, <1>2, <2>1, <2>3, LateCounted DEF TypeOK
    <2> QED
      BY <2>2, <2>3
  <1>3. ASSUME NEW n \in NewTeam, CreateTeam(n), teams' # teams + 1
        PROVE  TeamsAccounted'
    BY <1>3, <1>1 DEF CreateTeam
  <1>4. ASSUME NEW a \in Accept, CreateMember(a) PROVE TeamsAccounted'
    BY <1>4, <1>1 DEF CreateMember
  <1>5. CASE \/ \E s \in SignUp :
                   \/ CheckEmail(s) \/ CreateCompany(s) \/ CreateOwner(s) \/ CreateGeneral(s)
                   \/ JoinAsOwner(s) \/ PreferGeneral(s) \/ OpenSubscription(s) \/ Announce(s)
             \/ \E i \in Invite : SendInvite(i) \/ Expire(i)
             \/ \E e \in Managed : AddMember(e) \/ RemoveMember(e)
             \/ \E n \in NewTeam : CountTeams(n) \/ CheckTeamLimit(n)
    <2>1. teams' = teams /\ late' = late
      BY <1>5 DEF CheckEmail, CreateCompany, CreateOwner, CreateGeneral, JoinAsOwner,
                  PreferGeneral, OpenSubscription, Announce, SendInvite, Expire,
                  AddMember, RemoveMember, CountTeams, CheckTeamLimit, ghosts
    <2> QED
      BY <2>1, <1>1
  <1>6. CASE \/ \E a \in Accept :
                   \/ FindInvite(a) \/ CheckInvitee(a) \/ CountUsers(a) \/ CheckUserLimit(a)
                   \/ UsernameTaken(a) \/ JoinAsInvited(a) \/ PreferTeam(a) \/ MarkAccepted(a)
             \/ \E r \in Request : CutOff(r)
             \/ UNCHANGED vars
    <2>1. teams' = teams /\ late' = late
      BY <1>6 DEF FindInvite, CheckInvitee, CountUsers, CheckUserLimit, UsernameTaken,
                  JoinAsInvited, PreferTeam, MarkAccepted, CutOff, ghosts, vars
    <2> QED
      BY <2>1, <1>1
  <1> QED
    BY <1>2, <1>3, <1>4, <1>5, <1>6 DEF Next

-----------------------------------------------------------------------------

\* The inductive invariant holds in every reachable state.
THEOREM AccountsInvariant == Spec => []AccountsInv
  <1>1. Init => AccountsInv
    <2> SUFFICES ASSUME Init PROVE AccountsInv
      OBVIOUS
    <2> USE AccountsAssumption DEF Init
    <2>1. TypeOK
      BY DEF TypeOK, Ended, Request
    <2>2. OnePast /\ AllBuilt /\ Checked
      BY DEF OnePast, AllBuilt, Built, Past, AnnouncedCompanyIsWhole, Checked, Request
    <2>3. TeamlessOnlyIfStranded
      BY DEF TeamlessOnlyIfStranded
    <2>4. UsersAccounted
      <3>1. Users = {} /\ late \cap Accept = {}
        BY DEF Users
      <3> QED
        BY <3>1, FS_EmptySet DEF UsersAccounted, UserCount
    <2>5. TeamsAccounted
      <3>1. late \cap NewTeam = {}
        OBVIOUS
      <3> QED
        BY <3>1, FS_EmptySet DEF TeamsAccounted
    <2> QED
      BY <2>1, <2>2, <2>3, <2>4, <2>5 DEF AccountsInv
  <1>2. AccountsInv /\ [Next]_vars => AccountsInv'
    BY TypePreserved, OnePastPreserved, BuiltPreserved, TeamlessPreserved,
       CheckedPreserved, UsersPreserved, TeamsPreserved DEF AccountsInv
  <1> QED
    BY <1>1, <1>2, PTL DEF Spec

\* Every state is well typed; companies own what belongs to them.
THEOREM AccountsTyped == Spec => []TypeOK
  <1>1. AccountsInv => TypeOK
    BY DEF AccountsInv
  <1> QED
    BY <1>1, AccountsInvariant, PTL

\* Of the requests that compete for one email, one at most succeeds.
THEOREM EmailsAreUnique == Spec => []OneAccountPerEmail
  <1>1. AccountsInv => OneAccountPerEmail
    BY DEF AccountsInv, OnePast, Past, OneAccountPerEmail
  <1> QED
    BY <1>1, AccountsInvariant, PTL

\* The tenant passes its user limit only by the users let in on a stale count.
THEOREM UsersAreAccounted == Spec => []UsersAccounted
  <1>1. AccountsInv => UsersAccounted
    BY DEF AccountsInv
  <1> QED
    BY <1>1, AccountsInvariant, PTL

\* The tenant passes its team limit only by the teams made on a stale count.
THEOREM TeamsAreAccounted == Spec => []TeamsAccounted
  <1>1. AccountsInv => TeamsAccounted
    BY DEF AccountsInv
  <1> QED
    BY <1>1, AccountsInvariant, PTL

\* A company is announced when its owner, first team and subscription exist.
THEOREM AnnouncementsAreTrue == Spec => []AnnouncedCompanyIsWhole
  <1>1. AccountsInv => AnnouncedCompanyIsWhole
    BY DEF AccountsInv, AllBuilt
  <1> QED
    BY <1>1, AccountsInvariant, PTL

\* A user is without a team only while being created, when an admin took it off
\* its last one, or when a request was cut off or mis-invited.
THEOREM TeamlessAreOnRecord == Spec => []TeamlessOnlyIfStranded
  <1>1. AccountsInv => TeamlessOnlyIfStranded
    BY DEF AccountsInv
  <1> QED
    BY <1>1, AccountsInvariant, PTL
=============================================================================
