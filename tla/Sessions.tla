------------------------------ MODULE Sessions ------------------------------
(***************************************************************************)
(* Who is signed in, and for how long (app/identity/router.py, tokens.py,  *)
(* oauth.py, service.py, app/shared/security.py).  A login puts the teams  *)
(* of its user into a token, which nothing revokes: an admin who removes   *)
(* the user changes team_members and not the token.  A reset link is two   *)
(* statements to issue and two to use, and no handler has a transaction.   *)
(*                                                                         *)
(* A session is one login or one Google callback with the token it got, a  *)
(* link one request for a password reset.  Roles, company and is_active    *)
(* are never changed by any handler, so they are constants.                *)
(***************************************************************************)
EXTENDS Integers, FiniteSets

CONSTANTS
    User, Team,
    Admins,         \* users whose role is admin or owner
    Active,         \* users.is_active
    Googlers,       \* users who signed up with Google: their password is NULL
    InitialMembers, \* team_members at the start
    Login,          \* logins by password
    Callback,       \* returns from Google's consent page
    Holder,         \* the user each session is for
    Addition, Removal,
    Membership,     \* <<user, team>> of each addition and removal
    Link,           \* requests for a password reset
    LinkOf,         \* the user each is for
    Reset,          \* uses of a link
    Through,        \* the link each uses
    Original, NoPassword, NoReset,
    TokenLife, LinkLife,
    MaxTime,        \* bound: the clock
    MaxRequests,    \* bound: requests made
    MaxFaults       \* bound: requests cut off

Session == Login \cup Callback
Request == Session \cup Addition \cup Removal \cup Link \cup Reset

ASSUME SessionsAssumption ==
    /\ Admins \subseteq User /\ Active \subseteq User /\ Googlers \subseteq User
    /\ InitialMembers \subseteq User \X Team
    /\ Login \cap Callback = {}
    /\ Holder \in [Session -> User]
    /\ Membership \in [Addition \cup Removal -> User \X Team]
    /\ LinkOf \in [Link -> User]
    /\ Through \in [Reset -> Link]
    /\ Session \cap (Link \cup Reset \cup Addition \cup Removal) = {}
    /\ Link \cap (Reset \cup Addition \cup Removal) = {}
    /\ Reset \cap (Addition \cup Removal) = {}
    /\ Addition \cap Removal = {}
    /\ NoReset \notin Reset
    /\ TokenLife \in Nat /\ LinkLife \in Nat
    /\ MaxTime \in Nat /\ MaxRequests \in Nat /\ MaxFaults \in Nat

VARIABLES
    now,
    members,   \* team_members
    google,    \* users with a google_id
    password,  \* users.password: the reset that set it
    link,      \* password_reset_tokens: "none", "open" or "used"
    expires,   \* expires_at of each
    pc,        \* where each request is
    teams,     \* the team_ids claim of each session
    exp,       \* the exp claim of its token; -1 without one
    asked,     \* requests made so far
    faults,
    lost,      \* history: when a membership was last taken away
    beside,    \* history: requests about to insert a link when this one did
    latest,    \* history: the reset that last used a link of this user
    overtaken  \* history: users whose latest reset began during another

vars == <<now, members, google, password, link, expires, pc, teams, exp, asked,
          faults, lost, beside, latest, overtaken>>

people == <<members, google, lost>>
links  == <<password, link, expires, beside, latest, overtaken>>
tokens == <<teams, exp>>

Init ==
    /\ now = 0
    /\ members = InitialMembers
    /\ google = Googlers
    /\ password = [u \in User |-> IF u \in Googlers THEN NoPassword ELSE Original]
    /\ link = [f \in Link |-> "none"]
    /\ expires = [f \in Link |-> 0]
    /\ pc = [r \in Request |-> "new"]
    /\ teams = [s \in Session |-> {}]
    /\ exp = [s \in Session |-> -1]
    /\ asked = 0 /\ faults = 0
    /\ lost = [m \in User \X Team |-> -(TokenLife + 1)]
    /\ beside = [f \in Link |-> {}]
    /\ latest = [u \in User |-> NoReset]
    /\ overtaken = {}

Goto(r, from, to) ==
    /\ pc[r] = from
    /\ pc' = [pc EXCEPT ![r] = to]

\* The first step of a request.
Begin(r, to) ==
    /\ Goto(r, "new", to)
    /\ asked < MaxRequests
    /\ asked' = asked + 1

-----------------------------------------------------------------------------
(* Signing in.                                                             *)

\* The password given may be right or wrong.  An account without one makes
\* verify_password raise: a 500 instead of a 401.
Authenticate(s) ==
    /\ LET u == Holder[s] IN
       \/ u \notin Active /\ Begin(s, "refused")
       \/ u \in Active /\ password[u] = NoPassword /\ Begin(s, "crashed")
       \/ u \in Active /\ password[u] # NoPassword /\ Begin(s, "teams")
       \/ u \in Active /\ password[u] # NoPassword /\ Begin(s, "refused")
    /\ UNCHANGED <<now, people, links, tokens, faults>>

\* Found by google_id, or else by email, to be linked next.
FindGoogleUser(s) ==
    /\ LET u == Holder[s] IN
       \/ u \notin google /\ Begin(s, "link")
       \/ u \in google /\ Begin(s, IF u \in Active THEN "teams" ELSE "refused")
    /\ UNCHANGED <<now, people, links, tokens, faults>>

LinkGoogle(s) ==
    /\ Goto(s, "link", IF Holder[s] \in Active THEN "teams" ELSE "refused")
    /\ google' = google \cup {Holder[s]}
    /\ UNCHANGED <<now, members, lost, links, tokens, asked, faults>>

TeamIds(u) == {t \in Team : <<u, t>> \in members}

ReadTeams(s) ==
    /\ Goto(s, "teams", "issue")
    /\ teams' = [teams EXCEPT ![s] = TeamIds(Holder[s])]
    /\ UNCHANGED <<now, people, links, exp, asked, faults>>

IssueToken(s) ==
    /\ Goto(s, "issue", "done")
    /\ exp' = [exp EXCEPT ![s] = now + TokenLife]
    /\ UNCHANGED <<now, people, links, teams, asked, faults>>

PasswordLogin(s)  == Authenticate(s) \/ ReadTeams(s) \/ IssueToken(s)
GoogleCallback(s) == FindGoogleUser(s) \/ LinkGoogle(s) \/ ReadTeams(s) \/ IssueToken(s)

-----------------------------------------------------------------------------
(* What a token opens: the library refuses one once exp is past.           *)

\* Mutant: the library is told not to verify exp.
ValidForEver(s) == exp[s] # -1

Valid(s) == now <= exp[s]

CanAccessTeam(s, t)  == Holder[s] \in Admins \/ t \in teams[s]
VisibleTeams(s)      == IF Holder[s] \in Admins THEN Team ELSE Team \cap teams[s]
MayListMembers(s, t) == Holder[s] \in Admins \/ t \in teams[s]
ClaimedTeams(s)      == teams[s]

Opens(s, t) ==
    /\ Valid(s)
    /\ \/ CanAccessTeam(s, t)
       \/ t \in VisibleTeams(s) \cup ClaimedTeams(s)
       \/ MayListMembers(s, t)

-----------------------------------------------------------------------------
(* Team membership, changed by admins.                                     *)

AddMember(r) ==
    /\ r \in Addition
    /\ Begin(r, "done")
    /\ members' = members \cup {Membership[r]}
    /\ UNCHANGED <<now, google, lost, links, tokens, faults>>

DeleteMember(m) ==
    /\ members' = members \ {m}
    /\ lost' = IF m \in members THEN [lost EXCEPT ![m] = now] ELSE lost

RemoveMember(r) ==
    /\ r \in Removal
    /\ Begin(r, IF Membership[r] \in members THEN "done" ELSE "refused")
    /\ DeleteMember(Membership[r])
    /\ UNCHANGED <<now, google, links, tokens, faults>>

-----------------------------------------------------------------------------
(* Password reset.                                                         *)

\* Mutant: only links that have expired are marked used.
InvalidateExpired(f) ==
    /\ Begin(f, "insert")
    /\ expires' = [expires EXCEPT ![f] = now + LinkLife]
    /\ link' = [g \in Link |-> IF LinkOf[g] = LinkOf[f] /\ link[g] = "open" /\ expires[g] < now
                              THEN "used" ELSE link[g]]
    /\ UNCHANGED <<now, people, password, beside, latest, overtaken, tokens, faults>>

\* expires_at is computed, then the user's unused links are marked used.
Invalidate(f) ==
    /\ Begin(f, "insert")
    /\ expires' = [expires EXCEPT ![f] = now + LinkLife]
    /\ link' = [g \in Link |-> IF LinkOf[g] = LinkOf[f] /\ link[g] = "open"
                              THEN "used" ELSE link[g]]
    /\ UNCHANGED <<now, people, password, beside, latest, overtaken, tokens, faults>>

\* The row, and the mail, whose failure is only logged.
InsertLink(f) ==
    /\ Goto(f, "insert", "done")
    /\ link' = [link EXCEPT ![f] = "open"]
    /\ beside' = [beside EXCEPT ![f] =
                     {g \in Link \ {f} : LinkOf[g] = LinkOf[f] /\ pc[g] = "insert"}]
    /\ UNCHANGED <<now, people, password, expires, latest, overtaken, tokens, asked,
                   faults>>

ForgotPassword(f) == Invalidate(f) \/ InsertLink(f)

Usable(f) == link[f] = "open" /\ now < expires[f]

\* The users whose latest reset r is, and whether another had not finished.
TakenBy(r) ==
    LET u == LinkOf[Through[r]] IN
    /\ latest' = [latest EXCEPT ![u] = r]
    /\ overtaken' = IF \E q \in Reset : LinkOf[Through[q]] = u /\ pc[q] = "write"
                    THEN overtaken \cup {u} ELSE overtaken \ {u}

\* Mutant: the link is looked up first and marked used by its id alone.
TakeLooked(r) ==
    /\ link[Through[r]] # "none"
    /\ \/ link[Through[r]] = "open" /\ Begin(r, "write") /\ UNCHANGED link /\ TakenBy(r)
       \/ ~Usable(Through[r]) /\ Begin(r, "refused")
          /\ UNCHANGED <<link, latest, overtaken>>
    /\ UNCHANGED <<now, people, password, expires, beside, tokens, faults>>

\* One statement finds the link, checks it and marks it used.  The user must
\* have got a link to use it; a new password that is too short is refused.
TakeLink(r) ==
    /\ link[Through[r]] # "none"
    /\ \/ /\ Usable(Through[r])
          /\ Begin(r, "write")
          /\ link' = [link EXCEPT ![Through[r]] = "used"]
          /\ TakenBy(r)
       \/ /\ ~Usable(Through[r])
          /\ Begin(r, "refused")
          /\ UNCHANGED <<link, latest, overtaken>>
    /\ UNCHANGED <<now, people, password, expires, beside, tokens, faults>>

\* Mutant: the new password is written only where the old one is still there.
WriteIfOriginal(r) ==
    /\ Goto(r, "write", "done")
    /\ LET u == LinkOf[Through[r]] IN
       password' = [password EXCEPT ![u] = IF @ \in Reset THEN @ ELSE r]
    /\ UNCHANGED <<now, people, link, expires, beside, latest, overtaken, tokens,
                   asked, faults>>

WritePassword(r) ==
    /\ Goto(r, "write", "done")
    /\ password' = [password EXCEPT ![LinkOf[Through[r]]] = r]
    /\ UNCHANGED <<now, people, link, expires, beside, latest, overtaken, tokens,
                   asked, faults>>

ResetPassword(r) == TakeLink(r) \/ WritePassword(r)

-----------------------------------------------------------------------------
(* A request may end between two statements; time passes, but not between  *)
(* the last read of a login and the signing that follows it.               *)

CutOff(r) ==
    /\ pc[r] \in {"link", "teams", "issue", "insert", "write"}
    /\ faults < MaxFaults
    /\ faults' = faults + 1
    /\ pc' = [pc EXCEPT ![r] = "cut"]
    /\ UNCHANGED <<now, people, links, tokens, asked>>

Tick ==
    /\ now < MaxTime
    /\ \A s \in Session : pc[s] # "issue"
    /\ now' = now + 1
    /\ UNCHANGED <<people, links, tokens, pc, asked, faults>>

Next ==
    \/ \E s \in Login : PasswordLogin(s)
    \/ \E s \in Callback : GoogleCallback(s)
    \/ \E r \in Addition \cup Removal : AddMember(r) \/ RemoveMember(r)
    \/ \E f \in Link : ForgotPassword(f)
    \/ \E r \in Reset : ResetPassword(r)
    \/ \E r \in Request : CutOff(r)
    \/ Tick

Spec == Init /\ [][Next]_vars

-----------------------------------------------------------------------------
Places == {"new", "link", "teams", "issue", "insert", "write", "done", "refused",
           "crashed", "cut"}

\* Every variable has the type its column, claim or local variable has.
TypeOK ==
    /\ now \in Nat
    /\ members \subseteq User \X Team
    /\ google \subseteq User
    /\ password \in [User -> Reset \cup {Original, NoPassword}]
    /\ link \in [Link -> {"none", "open", "used"}]
    /\ expires \in [Link -> Nat]
    /\ pc \in [Request -> Places]
    /\ teams \in [Session -> SUBSET Team]
    /\ exp \in [Session -> Int]
    /\ asked \in Nat /\ faults \in Nat
    /\ lost \in [User \X Team -> Int]
    /\ beside \in [Link -> SUBSET Link]
    /\ latest \in [User -> Reset \cup {NoReset}]
    /\ overtaken \subseteq User

\* What a token still opens to someone who is not in the team any more was
\* lost less than a token's life ago: no endpoint adds to the stale claim,
\* and logins that read after the removal do not renew it.
StaleAccessEnds ==
    \A s \in Session, t \in Team :
        Opens(s, t) /\ Holder[s] \notin Admins /\ <<Holder[s], t>> \notin members
            => now <= lost[<<Holder[s], t>>] + TokenLife

\* Of all the requests made with one link, opened twice or at once, one at
\* most gets to change the password.
LinkSpentOnce ==
    \A q, r \in Reset :
        q # r /\ Through[q] = Through[r]
            => ~({pc[q], pc[r]} \subseteq {"write", "done", "cut"})

\* A user has two open links only where the two requests overlapped: one was
\* inserted after the other had invalidated the older ones.
OpenLinksOverlapped ==
    \A f, g \in Link :
        f # g /\ LinkOf[f] = LinkOf[g] /\ link[f] = "open" /\ link[g] = "open"
            => f \in beside[g] \/ g \in beside[f]

\* The password is the one of the reset that last used a link, unless that
\* reset is still at it, was cut off, or began while another was under way.
LatestResetWins ==
    \A u \in User :
        \/ latest[u] = NoReset
        \/ password[u] = latest[u]
        \/ pc[latest[u]] \in {"write", "cut"}
        \/ u \in overtaken
=============================================================================
