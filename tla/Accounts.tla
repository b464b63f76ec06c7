------------------------------ MODULE Accounts ------------------------------
(***************************************************************************)
(* How accounts come into being (app/identity/router.py, oauth.py and      *)
(* service.py): sign-ups, each of which creates a company of its own, and  *)
(* invitations into one existing company, the tenant, whose plan limits    *)
(* its users and teams (app/metering/service.py).                          *)
(*                                                                         *)
(* No handler uses a transaction: a step is one SQL statement, and every   *)
(* request may be cut off between two of them.  A request is one run of a  *)
(* handler; several may concern one email or one invite.                   *)
(***************************************************************************)
EXTENDS Integers, FiniteSets

CONSTANTS
    Email,
    SignUp,       \* sign-up requests, by password or Google
    SignUpEmail,  \* the email of each
    Invite,       \* invitations into the tenant
    InviteEmail,
    Welcome,      \* invites whose free-text role is one team_members allows
    Accept,       \* accept-invite requests
    InviteOf,     \* the invite of each
    Managed,      \* bound: emails whose users' memberships admins change
    NewTeam,      \* create-team requests of the tenant's admins
    Tenant, NoOne,
    MaxUsers,     \* plan_limits.max_users of the tenant
    MaxTeams,     \* plan_limits.max_teams of the tenant
    Failures,     \* "cutoff": a request ends early, "topic": the event handler
    MaxFaults     \* bound: how many failures

ASSUME AccountsAssumption ==
    /\ IsFiniteSet(Email) /\ IsFiniteSet(Accept) /\ IsFiniteSet(NewTeam)
    /\ SignUpEmail \in [SignUp -> Email]
    /\ InviteEmail \in [Invite -> Email]
    /\ Welcome \subseteq Invite
    /\ Managed \subseteq Email
    /\ InviteOf \in [Accept -> Invite]
    /\ Tenant \notin SignUp /\ NoOne \notin SignUp \cup {Tenant}
    /\ SignUp \cap Accept = {} /\ (SignUp \cup Accept) \cap NewTeam = {}
    /\ MaxUsers \in Nat \ {0}
    /\ MaxTeams \in Nat \ {0}
    /\ Failures \subseteq {"cutoff", "topic"}
    /\ MaxFaults \in Nat

Request == SignUp \cup Accept \cup NewTeam

VARIABLES
    companies,   \* sign-ups whose company row exists
    account,     \* users: the company of each email's user
    generals,    \* sign-ups whose company has its General team
    member,      \* emails whose user is in a team
    preferred,   \* emails whose user has a default team
    subscribed,  \* sign-ups whose company has a subscription
    topics,      \* sign-ups whose company has its default topic
    invites,     \* the state of each invite
    teams,       \* how many teams the tenant has
    pc,          \* where each request is
    counted,     \* the COUNT(*) a request got
    faults,      \* failures so far
    late,        \* history: requests that inserted after their count was stale
    removed,     \* history: emails taken off their last team and not added since
    stranded     \* history: emails whose request ended before the account was whole

vars == <<companies, account, generals, member, preferred, subscribed, topics,
          invites, teams, pc, counted, faults, late, removed, stranded>>

signedUp == <<companies, generals, subscribed, topics>>
people   == <<account, member, removed, preferred>>
ghosts   == <<late, stranded>>

Users == {e \in Email : account[e] = Tenant}

\* The tenant has an owner, who is not one of the emails, and a team.
UserCount == Cardinality(Users) + 1

Init ==
    /\ companies = {} /\ generals = {} /\ subscribed = {} /\ topics = {}
    /\ account = [e \in Email |-> NoOne]
    /\ member = {} /\ preferred = {}
    /\ invites = [i \in Invite |-> "none"]
    /\ teams = 1
    /\ pc = [r \in Request |-> "new"]
    /\ counted = [r \in Request |-> 0]
    /\ faults = 0
    /\ late = {} /\ removed = {} /\ stranded = {}

At(r, from, to) ==
    /\ pc[r] = from
    /\ pc' = [pc EXCEPT ![r] = to]

Fail(what) ==
    /\ what \in Failures
    /\ faults < MaxFaults
    /\ faults' = faults + 1

-----------------------------------------------------------------------------
(* The users table.  email is UNIQUE.                                      *)

\* Mutant: the UNIQUE constraint on email is missing.
InsertAnyUser(r, e, company, next) ==
    /\ At(r, "user", next)
    /\ account' = [account EXCEPT ![e] = company]

InsertUser(r, e, company, next) ==
    /\ At(r, "user", IF account[e] = NoOne THEN next ELSE "failed")
    /\ account' = [account EXCEPT ![e] = IF @ = NoOne THEN company ELSE @]

\* ON CONFLICT, joining again changes the role only.
JoinTeam(e) ==
    /\ member' = member \cup {e}
    /\ removed' = removed \ {e}

SetDefault(e) == preferred' = preferred \cup {e}

-----------------------------------------------------------------------------
(* A sign-up: register, or complete_oauth with the same steps.             *)

CheckEmail(s) ==
    /\ At(s, "new", IF account[SignUpEmail[s]] = NoOne THEN "company" ELSE "refused")
    /\ UNCHANGED <<signedUp, people, invites, teams, counted, faults, ghosts>>

CreateCompany(s) ==
    /\ At(s, "company", "user")
    /\ companies' = companies \cup {s}
    /\ UNCHANGED <<generals, subscribed, topics, people, invites, teams, counted,
                   faults, ghosts>>

\* A sign-up that loses the race for its email leaves its company behind.
CreateOwner(s) ==
    /\ s \in SignUp
    /\ InsertUser(s, SignUpEmail[s], s, "team")
    /\ UNCHANGED <<signedUp, member, removed, preferred, invites, teams, counted,
                   faults, ghosts>>

CreateGeneral(s) ==
    /\ At(s, "team", "owner")
    /\ generals' = generals \cup {s}
    /\ UNCHANGED <<companies, subscribed, topics, people, invites, teams, counted,
                   faults, ghosts>>

JoinAsOwner(s) ==
    /\ At(s, "owner", "prefer")
    /\ JoinTeam(SignUpEmail[s])
    /\ UNCHANGED <<signedUp, account, preferred, invites, teams, counted, faults,
                   ghosts>>

PreferGeneral(s) ==
    /\ At(s, "prefer", "subscribe")
    /\ SetDefault(SignUpEmail[s])
    /\ UNCHANGED <<signedUp, account, member, removed, invites, teams, counted,
                   faults, ghosts>>

\* Mutant: the company is announced before its subscription is opened.
AnnounceFirst(s) ==
    /\ At(s, "subscribe", "announce")
    /\ topics' = topics \cup {s}
    /\ UNCHANGED <<companies, generals, subscribed, people, invites, teams,
                   counted, faults, ghosts>>

OpenSubscription(s) ==
    /\ At(s, "subscribe", "announce")
    /\ subscribed' = subscribed \cup {s}
    /\ UNCHANGED <<companies, generals, topics, people, invites, teams, counted,
                   faults, ghosts>>

\* CompanyRegistered: the workspace adds the default topic; publish swallows
\* its failure.
Announce(s) ==
    /\ At(s, "announce", "done")
    /\ \/ topics' = topics \cup {s} /\ UNCHANGED faults
       \/ Fail("topic") /\ UNCHANGED topics
    /\ UNCHANGED <<companies, generals, subscribed, people, invites, teams,
                   counted, ghosts>>

-----------------------------------------------------------------------------
(* Invitations.                                                            *)

SendInvite(i) ==
    /\ invites[i] = "none"
    /\ invites' = [invites EXCEPT ![i] = "open"]
    /\ UNCHANGED <<signedUp, people, teams, pc, counted, faults, ghosts>>

Expire(i) ==
    /\ invites[i] = "open"
    /\ invites' = [invites EXCEPT ![i] = "expired"]
    /\ UNCHANGED <<signedUp, people, teams, pc, counted, faults, ghosts>>

Invitee(a) == InviteEmail[InviteOf[a]]

\* The token is looked up, then the email.
FindInvite(a) ==
    /\ invites[InviteOf[a]] # "none"
    /\ At(a, "new", IF invites[InviteOf[a]] = "open" THEN "email" ELSE "refused")
    /\ UNCHANGED <<signedUp, people, invites, teams, counted, faults, ghosts>>

CheckInvitee(a) ==
    /\ At(a, "email", IF account[Invitee(a)] = NoOne THEN "count" ELSE "refused")
    /\ UNCHANGED <<signedUp, people, invites, teams, counted, faults, ghosts>>

\* count_users, then check_user_limit, which reads the plan but not the count.
CountUsers(a) ==
    /\ a \in Accept
    /\ At(a, "count", "limit")
    /\ counted' = [counted EXCEPT ![a] = UserCount]
    /\ UNCHANGED <<signedUp, people, invites, teams, faults, ghosts>>

\* Mutant: an off-by-one.
AllowsOneMoreUser(a) ==
    /\ a \in Accept
    /\ At(a, "limit", IF counted[a] > MaxUsers THEN "refused" ELSE "user")
    /\ UNCHANGED <<signedUp, people, invites, teams, counted, faults, ghosts>>

CheckUserLimit(a) ==
    /\ a \in Accept
    /\ At(a, "limit", IF counted[a] >= MaxUsers THEN "refused" ELSE "user")
    /\ UNCHANGED <<signedUp, people, invites, teams, counted, faults, ghosts>>

\* The user's username is UNIQUE within the company too.
CreateMember(a) ==
    /\ a \in Accept
    /\ InsertUser(a, Invitee(a), Tenant, "join")
    /\ late' = IF account[Invitee(a)] = NoOne /\ UserCount > counted[a]
               THEN late \cup {a} ELSE late
    /\ UNCHANGED <<signedUp, member, removed, preferred, invites, teams, counted,
                   faults, stranded>>

UsernameTaken(a) ==
    /\ a \in Accept
    /\ At(a, "user", "failed")
    /\ UNCHANGED <<signedUp, people, invites, teams, counted, faults, ghosts>>

\* Mutant: the failed membership is ignored.
JoinAnyway(a) ==
    /\ At(a, "join", "prefer")
    /\ IF InviteOf[a] \in Welcome THEN JoinTeam(Invitee(a))
       ELSE UNCHANGED <<member, removed>>
    /\ UNCHANGED <<signedUp, account, preferred, invites, teams, counted, faults,
                   ghosts>>

\* team_members.role has a CHECK; the invite's role has not.
JoinAsInvited(a) ==
    /\ IF InviteOf[a] \in Welcome
       THEN At(a, "join", "prefer") /\ JoinTeam(Invitee(a)) /\ UNCHANGED stranded
       ELSE /\ At(a, "join", "failed")
            /\ stranded' = stranded \cup {Invitee(a)}
            /\ UNCHANGED <<member, removed>>
    /\ UNCHANGED <<signedUp, account, preferred, invites, teams, counted, faults,
                   late>>

PreferTeam(a) ==
    /\ a \in Accept
    /\ At(a, "prefer", "mark")
    /\ SetDefault(Invitee(a))
    /\ UNCHANGED <<signedUp, account, member, removed, invites, teams, counted,
                   faults, ghosts>>

\* The UPDATE does not ask what became of the invite in the meantime.
MarkAccepted(a) ==
    /\ At(a, "mark", "done")
    /\ invites' = [invites EXCEPT ![InviteOf[a]] = "accepted"]
    /\ UNCHANGED <<signedUp, people, teams, counted, faults, ghosts>>

-----------------------------------------------------------------------------
(* Memberships, which the admins of a user's company add and remove at any *)
(* time, the owner's included.                                             *)

AddMember(e) ==
    /\ account[e] # NoOne
    /\ JoinTeam(e)
    /\ UNCHANGED <<signedUp, account, preferred, invites, teams, pc, counted,
                   faults, ghosts>>

\* The user's last team.  users.default_team_id keeps naming it.
RemoveMember(e) ==
    /\ e \in member
    /\ member' = member \ {e}
    /\ removed' = removed \cup {e}
    /\ UNCHANGED <<signedUp, account, preferred, invites, teams, pc, counted,
                   faults, ghosts>>

-----------------------------------------------------------------------------
(* A new team of the tenant.                                               *)

CountTeams(n) ==
    /\ At(n, "new", "limit")
    /\ counted' = [counted EXCEPT ![n] = teams]
    /\ UNCHANGED <<signedUp, people, invites, teams, faults, ghosts>>

\* Mutant: the count is not compared with the plan.
AllowsAnyTeam(n) ==
    /\ n \in NewTeam
    /\ At(n, "limit", "insert")
    /\ UNCHANGED <<signedUp, people, invites, teams, counted, faults, ghosts>>

CheckTeamLimit(n) ==
    /\ n \in NewTeam
    /\ At(n, "limit", IF counted[n] >= MaxTeams THEN "refused" ELSE "insert")
    /\ UNCHANGED <<signedUp, people, invites, teams, counted, faults, ghosts>>

\* Team names are UNIQUE within a company.
CreateTeam(n) ==
    /\ \/ /\ At(n, "insert", "done")
          /\ teams' = teams + 1
          /\ late' = IF teams > counted[n] THEN late \cup {n} ELSE late
       \/ At(n, "insert", "failed") /\ UNCHANGED <<teams, late>>
    /\ UNCHANGED <<signedUp, people, invites, counted, faults, stranded>>

-----------------------------------------------------------------------------
Ended == {"done", "refused", "failed", "gone"}

EmailOf(r) == IF r \in SignUp THEN SignUpEmail[r] ELSE Invitee(r)

\* A statement raises, or the API process dies: what was written stays.
CutOff(r) ==
    /\ pc[r] \notin Ended \cup {"new"}
    /\ Fail("cutoff")
    /\ pc' = [pc EXCEPT ![r] = "gone"]
    /\ stranded' = IF r \in SignUp \cup Accept /\ pc[r] \in {"team", "owner", "join", "prefer"}
                   THEN stranded \cup {EmailOf(r)} ELSE stranded
    /\ UNCHANGED <<signedUp, people, invites, teams, counted, late>>

Next ==
    \/ \E s \in SignUp :
          \/ CheckEmail(s) \/ CreateCompany(s) \/ CreateOwner(s) \/ CreateGeneral(s)
          \/ JoinAsOwner(s) \/ PreferGeneral(s) \/ OpenSubscription(s) \/ Announce(s)
    \/ \E i \in Invite : SendInvite(i) \/ Expire(i)
    \/ \E a \in Accept :
          \/ FindInvite(a) \/ CheckInvitee(a) \/ CountUsers(a) \/ CheckUserLimit(a)
          \/ CreateMember(a) \/ UsernameTaken(a) \/ JoinAsInvited(a)
          \/ PreferTeam(a) \/ MarkAccepted(a)
    \/ \E e \in Managed : AddMember(e) \/ RemoveMember(e)
    \/ \E n \in NewTeam : CountTeams(n) \/ CheckTeamLimit(n) \/ CreateTeam(n)
    \/ \E r \in Request : CutOff(r)

Spec == Init /\ [][Next]_vars

-----------------------------------------------------------------------------
(* Properties.                                                             *)

TypeOK ==
    /\ companies \subseteq SignUp
    /\ account \in [Email -> SignUp \cup {Tenant, NoOne}]
    /\ generals \subseteq companies
    /\ member \subseteq Email
    /\ preferred \subseteq Email
    /\ subscribed \subseteq companies
    /\ topics \subseteq companies
    /\ invites \in [Invite -> {"none", "open", "expired", "accepted"}]
    /\ teams \in Nat
    /\ pc \in [Request -> {"new", "company", "user", "team", "owner", "prefer",
                           "subscribe", "announce", "email", "count", "limit",
                           "join", "mark", "insert"} \cup Ended]
    /\ counted \in [Request -> Nat]
    /\ faults \in 0..MaxFaults
    /\ late \subseteq Accept \cup NewTeam
    /\ removed \subseteq Email \ member
    /\ stranded \subseteq Email

\* However many sign-ups and accepted invites compete for an email, the same
\* invite opened twice included, one of them at most succeeds.
OneAccountPerEmail ==
    \A q, r \in SignUp \cup Accept :
        pc[q] = "done" /\ pc[r] = "done" /\ EmailOf(q) = EmailOf(r) => q = r

\* The tenant has more users than its plan allows only by as many as were let
\* in on a count that was stale when they were inserted.
UsersAccounted ==
    UserCount <= MaxUsers + Cardinality(late \cap Accept)

\* The same of its teams.
TeamsAccounted ==
    teams <= MaxTeams + Cardinality(late \cap NewTeam)

\* CompanyRegistered says of a company that "Its first team and owner exist":
\* the owner is in that team by then, and stays in one until an admin takes it
\* off, and the company can be billed.
AnnouncedCompanyIsWhole ==
    \A s \in topics :
        /\ account[SignUpEmail[s]] = s
        /\ SignUpEmail[s] \in (member \cup removed) \cap preferred
        /\ s \in generals \cap subscribed

\* A user without a team is still being created, or was taken off its last one
\* by an admin and not added since, unless the request that was creating it was
\* cut off or the invite's role is none of a team's.
TeamlessOnlyIfStranded ==
    \A e \in Email \ (member \cup removed \cup stranded) :
        account[e] # NoOne =>
            \E r \in SignUp \cup Accept :
                EmailOf(r) = e /\ pc[r] \in {"team", "owner", "join"}
=============================================================================
