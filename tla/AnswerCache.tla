----------------------------- MODULE AnswerCache -----------------------------
(***************************************************************************)
(* The answer cache of all companies (app/retrieval/cache.py): requests    *)
(* that look an answer up, retrieve, and store what they generated, against *)
(* the invalidation that the retrieval context runs when a document becomes *)
(* searchable or is deleted (app/retrieval/handlers.py).                   *)
(*                                                                         *)
(* One question is asked throughout; an answer is the set of documents it  *)
(* was computed from, which is everything retrieval may use.  A step is    *)
(* one Redis command or MULTI/EXEC pipeline, or one SQL statement.         *)
(***************************************************************************)
EXTENDS Integers, FiniteSets

CONSTANTS
    Request,      \* chat requests, each made once
    Company,
    User,
    CompanyOf,    \* the company of each user
    Admins,       \* users whose role is admin or owner
    Team,
    TeamCompany,  \* the company of each team
    TeamsOf,      \* the teams of each user
    Topic,
    TopicTeam,    \* the team of each topic
    Doc,
    DocTeam,      \* documents.team_id
    DocTopic,     \* documents.topic_id
    Asked,        \* the users, teams and topics of the questions asked
    CompanyWide,  \* documents with visibility "company"
    Unfiltered,   \* no team, or topic, was asked for
    NoCompany,    \* a member's key names no company
    NoAnswer,     \* the cache has no such key
    Failures,     \* "redis": a command raises, "evict": LRU eviction
    MaxFaults     \* bound: how many failures

ASSUME CacheAssumption ==
    /\ Admins \subseteq User
    /\ CompanyOf \in [User -> Company]
    /\ TeamCompany \in [Team -> Company]
    /\ TeamsOf \in [User -> SUBSET Team]
    /\ \A u \in User : \A t \in TeamsOf[u] : TeamCompany[t] = CompanyOf[u]
    /\ TopicTeam \in [Topic -> Team]
    /\ DocTeam \in [Doc -> Team]
    /\ DocTopic \in [Doc -> Topic \cup {Unfiltered}]
    /\ Asked # {} /\ Asked \subseteq
          [user : User, team : Team \cup {Unfiltered}, topic : Topic \cup {Unfiltered}]
    /\ CompanyWide \subseteq Doc
    /\ Unfiltered \notin Team \cup Topic
    /\ NoCompany \notin Company
    /\ Failures \subseteq {"redis", "evict"}
    /\ MaxFaults \in Nat

VARIABLES
    searchable,    \* documents whose status is completed
    answer,        \* what each cache key holds
    teamIndex,     \* rag:team_keys:<team>
    companyIndex,  \* rag:company_keys:<company>
    rpc,           \* where each request is
    scope,         \* who asks it, of which team and topic
    docs,          \* the documents its answer draws on
    epc,           \* where each document event and its handler are
    dropping,      \* the keys the handler read from the index
    faults,        \* failures so far
    calm,          \* history: requests that retrieved with no change under way
    exposed        \* history: keys that a race, a failure or an eviction has put
                   \* out of invalidation's reach

vars == <<searchable, answer, teamIndex, companyIndex, rpc, scope, docs, epc,
          dropping, faults, calm, exposed>>

redis    == <<answer, teamIndex, companyIndex>>
requests == <<rpc, scope, docs>>
events   == <<epc, dropping>>

Event == Doc \X {"ingested", "deleted"}

\* documents.company_id is the company of the document's team.
DocCompany(d) == TeamCompany[DocTeam[d]]

\* Mutant: the team filter is not part of the key.
CacheKeyUnfiltered(s) ==
    [company |-> IF s.user \in Admins THEN CompanyOf[s.user] ELSE NoCompany,
     teams   |-> IF s.user \in Admins THEN {} ELSE TeamsOf[s.user],
     team    |-> Unfiltered]

\* _cache_key: an admin's company, or a member's teams alone, and the team
\* filter; neither the topic nor the source type.
CacheKey(s) ==
    [company |-> IF s.user \in Admins THEN CompanyOf[s.user] ELSE NoCompany,
     teams   |-> IF s.user \in Admins THEN {} ELSE TeamsOf[s.user],
     team    |-> s.team]

\* The keys that can ever be used.
Key == {CacheKey(s) : s \in Asked}

\* _check_scope: members ask of their own teams and those teams' topics, admins
\* of all their company's.
CanAsk(u, t) ==
    /\ TeamCompany[t] = CompanyOf[u]
    /\ u \in Admins \/ t \in TeamsOf[u]

Allowed(s) ==
    /\ s.team # Unfiltered => CanAsk(s.user, s.team)
    /\ s.topic # Unfiltered => CanAsk(s.user, TopicTeam[s.topic])

\* The retriever's access rule, and its optional filters.
MaySee(u, d) ==
    \/ DocTeam[d] \in TeamsOf[u]
    \/ DocCompany(d) = CompanyOf[u] /\ (u \in Admins \/ d \in CompanyWide)

Matching(s) ==
    {d \in searchable : /\ MaySee(s.user, d)
                        /\ s.team \in {Unfiltered, DocTeam[d]}
                        /\ s.topic \in {Unfiltered, DocTopic[d]}}

Cached == {k \in Key : answer[k] # NoAnswer}

Fail(what) ==
    /\ what \in Failures
    /\ faults < MaxFaults
    /\ faults' = faults + 1

Init ==
    /\ searchable = {}
    /\ answer = [k \in Key |-> NoAnswer]
    /\ teamIndex = [t \in Team |-> {}]
    /\ companyIndex = [c \in Company |-> {}]
    /\ rpc = [r \in Request |-> "ask"]
    /\ scope = [r \in Request |-> CHOOSE s \in Asked : TRUE]
    /\ docs = [r \in Request |-> {}]
    /\ epc = [e \in Event |-> "none"]
    /\ dropping = [e \in Event |-> {}]
    /\ faults = 0
    /\ calm = {}
    /\ exposed = {}

-----------------------------------------------------------------------------
(* A chat request.                                                         *)

RequestAt(r, from, to) ==
    /\ rpc[r] = from
    /\ rpc' = [rpc EXCEPT ![r] = to]

\* The scope check.
Ask(r, s, to) ==
    /\ Allowed(s)
    /\ RequestAt(r, "ask", to)
    /\ scope' = [scope EXCEPT ![r] = s]

\* get_cached: skip_cache and a failing Redis are a miss.
Hit(r) ==
    /\ \E s \in Asked :
          /\ answer[CacheKey(s)] # NoAnswer
          /\ Ask(r, s, "done")
          /\ docs' = [docs EXCEPT ![r] = answer[CacheKey(s)]]
    /\ UNCHANGED <<searchable, redis, events, faults, calm, exposed>>

Miss(r) ==
    /\ \E s \in Asked : Ask(r, s, "retrieve")
    /\ UNCHANGED <<searchable, redis, docs, events, faults, calm, exposed>>

\* A handler is between a document's change and its last Redis command.
Changing == \E e \in Event : epc[e] \in {"publish", "drop", "dropIndex"}

\* Nothing found is answered without the LLM and not cached.
Retrieve(r) ==
    LET found == Matching(scope[r])
    IN /\ RequestAt(r, "retrieve", IF found = {} THEN "done" ELSE "generate")
       /\ docs' = [docs EXCEPT ![r] = found]
       /\ calm' = IF Changing \/ found = {} THEN calm ELSE calm \cup {r}
       /\ UNCHANGED <<searchable, redis, scope, events, faults, exposed>>

\* Mutant: an answer about one team is indexed under that team only.
SetCachedNarrowly(r) ==
    LET key == CacheKey(scope[r])
    IN /\ RequestAt(r, "generate", "done")
       /\ answer' = [answer EXCEPT ![key] = docs[r]]
       /\ companyIndex' = [companyIndex EXCEPT ![CompanyOf[scope[r].user]] = @ \cup {key}]
       /\ teamIndex' = [t \in Team |-> IF t = key.team THEN teamIndex[t] \cup {key}
                                       ELSE teamIndex[t]]
       /\ exposed' = IF r \in calm THEN exposed \ {key} ELSE exposed \cup {key}
       /\ calm' = calm \ {r}
       /\ UNCHANGED <<searchable, scope, docs, events, faults>>

\* set_cached, one transaction: the key, the index of the user's company, and
\* that of each of the user's own teams.
SetCached(r) ==
    LET key == CacheKey(scope[r])
    IN /\ RequestAt(r, "generate", "done")
       /\ answer' = [answer EXCEPT ![key] = docs[r]]
       /\ companyIndex' = [companyIndex EXCEPT ![CompanyOf[scope[r].user]] = @ \cup {key}]
       /\ teamIndex' = [t \in Team |-> IF t \in TeamsOf[scope[r].user]
                                       THEN teamIndex[t] \cup {key}
                                       ELSE teamIndex[t]]
       /\ exposed' = IF r \in calm THEN exposed \ {key} ELSE exposed \cup {key}
       /\ calm' = calm \ {r}
       /\ UNCHANGED <<searchable, scope, docs, events, faults>>

\* Retrieval, the LLM or set_cached fails, or the stream's client has gone.
NotCached(r) ==
    /\ RequestAt(r, "retrieve", "done") \/ RequestAt(r, "generate", "done")
    /\ calm' = calm \ {r}
    /\ UNCHANGED <<searchable, redis, scope, docs, events, faults, exposed>>

-----------------------------------------------------------------------------
(* Redis on its own.                                                       *)

\* A key's TTL passes.  Every SADD renews the TTL of its index, so an index
\* outlives its keys.
Expire(k) ==
    /\ answer[k] # NoAnswer
    /\ answer' = [answer EXCEPT ![k] = NoAnswer]
    /\ UNCHANGED <<searchable, teamIndex, companyIndex, requests, events,
                   faults, calm, exposed>>

\* The cache runs with allkeys-lru: an index can go before its keys.
EvictIndex(t) ==
    /\ Fail("evict")
    /\ teamIndex' = [teamIndex EXCEPT ![t] = {}]
    /\ exposed' = exposed \cup Cached
    /\ UNCHANGED <<searchable, answer, companyIndex, requests, events, calm>>

-----------------------------------------------------------------------------
(* A document event.                                                       *)

EventAt(e, from, to) ==
    /\ epc[e] = from
    /\ epc' = [epc EXCEPT ![e] = to]

\* The worker marks the document completed, then publishes DocumentIngested.
Ingest(d) ==
    /\ EventAt(<<d, "ingested">>, "none", "publish")
    /\ searchable' = searchable \cup {d}
    /\ calm' = {}
    /\ UNCHANGED <<redis, requests, dropping, faults, exposed>>

\* The API deletes the row, then publishes DocumentDeleted.
DeleteDocument(d) ==
    /\ d \in searchable
    /\ EventAt(<<d, "deleted">>, "none", "publish")
    /\ searchable' = searchable \ {d}
    /\ calm' = {}
    /\ UNCHANGED <<redis, requests, dropping, faults, exposed>>

IsCompanyEvent(e) == e[1] \in CompanyWide

\* smembers of the index the event's visibility selects.
ReadIndex(e) ==
    LET keys == IF IsCompanyEvent(e) THEN companyIndex[DocCompany(e[1])]
                ELSE teamIndex[DocTeam[e[1]]]
    IN /\ EventAt(e, "publish", IF keys = {} THEN "done" ELSE "drop")
       /\ dropping' = [dropping EXCEPT ![e] = keys]
       /\ UNCHANGED <<searchable, redis, requests, faults, calm, exposed>>

DropAnswers(e) ==
    /\ EventAt(e, "drop", "dropIndex")
    /\ answer' = [k \in Key |-> IF k \in dropping[e] THEN NoAnswer ELSE answer[k]]
    /\ UNCHANGED <<searchable, teamIndex, companyIndex, requests, dropping,
                   faults, calm, exposed>>

DropIndex(e) ==
    /\ EventAt(e, "dropIndex", "done")
    /\ IF IsCompanyEvent(e)
       THEN /\ companyIndex' = [companyIndex EXCEPT ![DocCompany(e[1])] = {}]
            /\ UNCHANGED teamIndex
       ELSE /\ teamIndex' = [teamIndex EXCEPT ![DocTeam[e[1]]] = {}]
            /\ UNCHANGED companyIndex
    /\ dropping' = [dropping EXCEPT ![e] = {}]
    /\ UNCHANGED <<searchable, answer, requests, faults, calm, exposed>>

\* A Redis command raises: the handler logs it and gives the rest up.
InvalidationFails(e) ==
    /\ \E from \in {"publish", "drop", "dropIndex"} : EventAt(e, from, "done")
    /\ Fail("redis")
    /\ dropping' = [dropping EXCEPT ![e] = {}]
    /\ exposed' = exposed \cup Cached
    /\ UNCHANGED <<searchable, redis, requests, calm>>

-----------------------------------------------------------------------------
Next ==
    \/ \E r \in Request :
          Hit(r) \/ Miss(r) \/ Retrieve(r) \/ SetCached(r) \/ NotCached(r)
    \/ \E k \in Key : Expire(k)
    \/ \E t \in Team : EvictIndex(t)
    \/ \E d \in Doc : Ingest(d) \/ DeleteDocument(d)
    \/ \E e \in Event :
          ReadIndex(e) \/ DropAnswers(e) \/ DropIndex(e) \/ InvalidationFails(e)

Spec == Init /\ [][Next]_vars

-----------------------------------------------------------------------------
(* Properties.                                                             *)

TypeOK ==
    /\ searchable \subseteq Doc
    /\ answer \in [Key -> (SUBSET Doc) \cup {NoAnswer}]
    /\ teamIndex \in [Team -> SUBSET Key]
    /\ companyIndex \in [Company -> SUBSET Key]
    /\ rpc \in [Request -> {"ask", "retrieve", "generate", "done"}]
    /\ scope \in [Request -> Asked]
    /\ docs \in [Request -> SUBSET Doc]
    /\ epc \in [Event -> {"none", "publish", "drop", "dropIndex", "done"}]
    /\ dropping \in [Event -> SUBSET Key]
    /\ faults \in 0..MaxFaults
    /\ calm \subseteq Request
    /\ exposed \subseteq Key

\* Members in no team of any company share their keys.
Teamless(u) == u \notin Admins /\ TeamsOf[u] = {}

\* A request is answered from documents its user may see and, when it named a
\* team, from that team's: users who share a key share a view, but for members
\* in no team, who may be given the company-wide documents of any company.
AnsweredWithinScope ==
    \A r \in Request : \A d \in docs[r] :
        /\ \/ MaySee(scope[r].user, d)
           \/ Teamless(scope[r].user) /\ d \in CompanyWide
        /\ scope[r].team \in {Unfiltered, DocTeam[d]}

\* The keys of a company's members: their teams are of one company.
MemberKeys == {k \in Key : k.company = NoCompany /\ k.teams # {}}

\* What such a key's answer would be if it were computed now, over all topics.
Current(k) ==
    {d \in searchable : /\ \/ DocTeam[d] \in k.teams
                           \/ /\ d \in CompanyWide
                              /\ \E t \in k.teams : TeamCompany[t] = DocCompany(d)
                        /\ k.team \in {Unfiltered, DocTeam[d]}}

\* The cached answer of a member in some team is the one that would be computed
\* now, unless a document changed, or was being announced, while it was
\* generated, or Redis failed or evicted an index since: nothing else escapes
\* invalidation.
FreshUnlessExposed ==
    ~Changing => \A k \in (Cached \cap MemberKeys) \ exposed : answer[k] = Current(k)

\* "No cross-tenant data leakage is possible at the application layer", and
\* "Restrict to topic": a request is answered from documents its user may see,
\* of the team and the topic it named.
AnsweredAsAsked ==
    \A r \in Request : \A d \in docs[r] :
        /\ MaySee(scope[r].user, d)
        /\ scope[r].team \in {Unfiltered, DocTeam[d]}
        /\ scope[r].topic \in {Unfiltered, DocTopic[d]}
=============================================================================
