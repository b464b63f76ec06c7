-------------------------- MODULE AnswerCacheProofs --------------------------
(***************************************************************************)
(* Machine-checked proofs about AnswerCache, for any companies, users,     *)
(* teams, topics, documents and requests, and any number of failures and   *)
(* evictions.                                                              *)
(***************************************************************************)
EXTENDS AnswerCache, TLAPS

\* A document that an answer to s may draw on.
Readable(s, d) ==
    /\ MaySee(s.user, d) \/ (Teamless(s.user) /\ d \in CompanyWide)
    /\ s.team \in {Unfiltered, DocTeam[d]}

(* Whoever a cached answer may be given to may read what it draws on, or   *)
(* is in no team and gets a document visible to some whole company.        *)
CachedReadable ==
    \A s \in Asked : \A d \in Doc :
        /\ answer[CacheKey(s)] # NoAnswer
        /\ d \in answer[CacheKey(s)]
        => Readable(s, d)

(* A request that has not asked has no answer, so it may still choose what *)
(* it asks for.                                                            *)
Unanswered ==
    \A r \in Request : rpc[r] \in {"ask", "retrieve"} => docs[r] = {}

CacheInv ==
    /\ TypeOK
    /\ Unanswered
    /\ CachedReadable
    /\ AnsweredWithinScope

-----------------------------------------------------------------------------

\* Every question has a key of the right form.
LEMMA KeyTyped == \A s \in Asked : CacheKey(s) \in Key
  BY DEF Key

\* Its teams are teams.
LEMMA TeamsOfKey == \A k \in Key : k.teams \subseteq Team
  BY CacheAssumption DEF Key, CacheKey

\* An event is of a document, whose team has a company.
LEMMA EventTyped ==
    \A e \in Event : /\ e[1] \in Doc
                     /\ DocTeam[e[1]] \in Team
                     /\ DocCompany(e[1]) \in Company
  BY CacheAssumption DEF Event, DocCompany

\* A member's key names no company, an admin's names one.
LEMMA KeyOfAdmin ==
    \A s \in Asked : CacheKey(s).company = NoCompany <=> s.user \notin Admins
  BY CacheAssumption DEF CacheKey

\* Users who share a key share a view: what one of them may read, so may the
\* others.  Members of the same teams are in one company, unless the teams are
\* none.
LEMMA SameKeySameView ==
    ASSUME NEW s \in Asked, NEW q \in Asked, CacheKey(s) = CacheKey(q),
           NEW d \in Doc, Readable(s, d)
    PROVE  Readable(q, d)
  <1>1. s.team = q.team /\ (s.user \in Admins <=> q.user \in Admins)
    BY KeyOfAdmin DEF CacheKey
  <1>2. CASE s.user \in Admins
    <2>1. CompanyOf[s.user] = CompanyOf[q.user]
      BY <1>1, <1>2 DEF CacheKey
    <2>2. DocTeam[d] \in TeamsOf[s.user] => DocCompany(d) = CompanyOf[s.user]
      BY CacheAssumption DEF DocCompany
    <2> QED
      BY <1>1, <1>2, <2>1, <2>2 DEF Readable, MaySee, Teamless
  <1>3. CASE s.user \notin Admins
    <2>1. TeamsOf[s.user] = TeamsOf[q.user]
      BY <1>1, <1>3 DEF CacheKey
    <2>2. CASE TeamsOf[s.user] = {}
      BY <1>1, <1>3, <2>1, <2>2 DEF Readable, MaySee, Teamless
    <2>3. CASE TeamsOf[s.user] # {}
      <3>1. CompanyOf[s.user] = CompanyOf[q.user]
        BY <2>1, <2>3, CacheAssumption
      <3> QED
        BY <1>1, <1>3, <2>1, <2>3, <3>1 DEF Readable, MaySee, Teamless
    <2> QED
      BY <2>2, <2>3
  <1> QED
    BY <1>2, <1>3

\* Every state is well typed.
LEMMA TypePreserved ==
    ASSUME TypeOK, [Next]_vars
    PROVE  TypeOK'
  <1> USE CacheAssumption, KeyTyped
      DEF TypeOK, RequestAt, EventAt, Fail, redis, requests, events
  <1>1. ASSUME NEW r \in Request, Hit(r) PROVE TypeOK'
    BY <1>1 DEF Hit, Ask
  <1>2. ASSUME NEW r \in Request, Miss(r) PROVE TypeOK'
    BY <1>2 DEF Miss, Ask
  <1>3. ASSUME NEW r \in Request, Retrieve(r) PROVE TypeOK'
    BY <1>3 DEF Retrieve, Matching
  <1>4. ASSUME NEW r \in Request, SetCached(r) PROVE TypeOK'
    BY <1>4 DEF SetCached
  <1>5. ASSUME NEW r \in Request, NotCached(r) PROVE TypeOK'
    BY <1>5 DEF NotCached
  <1>6. ASSUME NEW k \in Key, Expire(k) PROVE TypeOK'
    BY <1>6 DEF Expire
  <1>7. ASSUME NEW t \in Team, EvictIndex(t) PROVE TypeOK'
    BY <1>7 DEF EvictIndex, Cached
  <1>8. ASSUME NEW d \in Doc, Ingest(d) PROVE TypeOK'
    BY <1>8 DEF Ingest
  <1>9. ASSUME NEW d \in Doc, DeleteDocument(d) PROVE TypeOK'
    BY <1>9 DEF DeleteDocument
  <1>10. ASSUME NEW e \in Event, ReadIndex(e) PROVE TypeOK'
    BY <1>10, EventTyped DEF ReadIndex
  <1>11. ASSUME NEW e \in Event, DropAnswers(e) PROVE TypeOK'
    BY <1>11 DEF DropAnswers
  <1>12. ASSUME NEW e \in Event, DropIndex(e) PROVE TypeOK'
    BY <1>12 DEF DropIndex
  <1>13. ASSUME NEW e \in Event, InvalidationFails(e) PROVE TypeOK'
    BY <1>13 DEF InvalidationFails, Cached
  <1>14. CASE UNCHANGED vars
    BY <1>14 DEF vars
  <1> QED
    BY <1>1, <1>2, <1>3, <1>4, <1>5, <1>6, <1>7, <1>8, <1>9, <1>10, <1>11, <1>12,
       <1>13, <1>14 DEF Next

\* A step that leaves requests and cached answers alone, or only removes
\* answers, keeps the rest of the invariant.
LEMMA FramePreserved ==
    ASSUME TypeOK, Unanswered, CachedReadable, AnsweredWithinScope,
           UNCHANGED requests,
           \A k \in Key : answer'[k] \in {answer[k], NoAnswer}
    PROVE  (Unanswered /\ CachedReadable /\ AnsweredWithinScope)'
  <1>1. Unanswered' /\ AnsweredWithinScope'
    BY DEF Unanswered, AnsweredWithinScope, requests
  <1>2. CachedReadable'
    BY KeyTyped DEF CachedReadable
  <1> QED
    BY <1>1, <1>2

\* The steps of a request that give it an answer.
LEMMA AnswerPreserved ==
    ASSUME TypeOK, Unanswered, CachedReadable, AnsweredWithinScope, [Next]_vars
    PROVE  (Unanswered /\ CachedReadable /\ AnsweredWithinScope)'
  <1> USE CacheAssumption, KeyTyped
  <1>1. ASSUME NEW r \in Request, Hit(r)
        PROVE  (Unanswered /\ CachedReadable /\ AnsweredWithinScope)'
    <2>1. PICK s \in Asked :
             /\ answer[CacheKey(s)] # NoAnswer
             /\ rpc' = [rpc EXCEPT ![r] = "done"]
             /\ scope' = [scope EXCEPT ![r] = s]
             /\ docs' = [docs EXCEPT ![r] = answer[CacheKey(s)]]
             /\ answer' = answer
      BY <1>1 DEF Hit, Ask, RequestAt, redis
    <2>2. \A d \in answer[CacheKey(s)] : d \in Doc /\ Readable(s, d)
      BY <2>1 DEF TypeOK, CachedReadable
    <2>3. AnsweredWithinScope'
      BY <2>1, <2>2 DEF AnsweredWithinScope, Readable, TypeOK
    <2> QED
      BY <2>1, <2>3 DEF Unanswered, CachedReadable, TypeOK
  <1>2. ASSUME NEW r \in Request, Miss(r)
        PROVE  (Unanswered /\ CachedReadable /\ AnsweredWithinScope)'
    BY <1>2 DEF Miss, Ask, RequestAt, redis, Unanswered, CachedReadable,
                AnsweredWithinScope, TypeOK
  <1>3. ASSUME NEW r \in Request, Retrieve(r)
        PROVE  (Unanswered /\ CachedReadable /\ AnsweredWithinScope)'
    BY <1>3 DEF Retrieve, RequestAt, redis, Matching, Unanswered, CachedReadable,
                AnsweredWithinScope, TypeOK
  <1>4. ASSUME NEW r \in Request, SetCached(r)
        PROVE  (Unanswered /\ CachedReadable /\ AnsweredWithinScope)'
    <2>1. /\ rpc[r] = "generate" /\ rpc' = [rpc EXCEPT ![r] = "done"]
          /\ answer' = [answer EXCEPT ![CacheKey(scope[r])] = docs[r]]
          /\ UNCHANGED <<scope, docs>>
      BY <1>4 DEF SetCached, RequestAt
    <2>2. scope[r] \in Asked /\ docs[r] \subseteq Doc
      BY DEF TypeOK
    <2>3. \A d \in docs[r] : Readable(scope[r], d)
      BY DEF AnsweredWithinScope, Readable
    <2>4. ASSUME NEW s \in Asked, NEW d \in Doc,
                 answer'[CacheKey(s)] # NoAnswer, d \in answer'[CacheKey(s)]
          PROVE  Readable(s, d)
      <3>1. CASE CacheKey(s) = CacheKey(scope[r])
        <4>1. d \in docs[r]
          BY <3>1, <2>1, <2>2, <2>4 DEF TypeOK
        <4> QED
          BY <4>1, <3>1, <2>2, <2>3, SameKeySameView
      <3>2. CASE CacheKey(s) # CacheKey(scope[r])
        BY <3>2, <2>1, <2>4 DEF TypeOK, CachedReadable
      <3> QED
        BY <3>1, <3>2
    <2>5. CachedReadable'
      BY <2>4 DEF CachedReadable
    <2> QED
      BY <2>1, <2>5 DEF Unanswered, AnsweredWithinScope, TypeOK
  <1>5. ASSUME NEW r \in Request, NotCached(r)
        PROVE  (Unanswered /\ CachedReadable /\ AnsweredWithinScope)'
    BY <1>5 DEF NotCached, RequestAt, redis, Unanswered, CachedReadable,
                AnsweredWithinScope, TypeOK
  <1>6. CASE \/ \E k \in Key : Expire(k)
             \/ \E t \in Team : EvictIndex(t)
             \/ \E d \in Doc : Ingest(d) \/ DeleteDocument(d)
    <2>1. UNCHANGED requests /\ \A k \in Key : answer'[k] \in {answer[k], NoAnswer}
      BY <1>6 DEF Expire, EvictIndex, Ingest, DeleteDocument, redis, TypeOK
    <2> QED
      BY <2>1, FramePreserved
  <1>7. CASE \/ \E e \in Event : \/ ReadIndex(e) \/ DropAnswers(e)
                                \/ DropIndex(e) \/ InvalidationFails(e)
             \/ UNCHANGED vars
    <2>1. UNCHANGED requests /\ \A k \in Key : answer'[k] \in {answer[k], NoAnswer}
      BY <1>7 DEF ReadIndex, DropAnswers, DropIndex, InvalidationFails, redis,
                  requests, vars
    <2> QED
      BY <2>1, FramePreserved
  <1> QED
    BY <1>1, <1>2, <1>3, <1>4, <1>5, <1>6, <1>7 DEF Next

-----------------------------------------------------------------------------

\* The inductive invariant holds in every reachable state.
THEOREM CacheInvariant == Spec => []CacheInv
  <1>1. Init => CacheInv
    <2> SUFFICES ASSUME Init PROVE CacheInv
      OBVIOUS
    <2> USE CacheAssumption DEF Init
    <2>1. TypeOK
      BY DEF TypeOK
    <2>2. Unanswered /\ AnsweredWithinScope
      BY DEF Unanswered, AnsweredWithinScope
    <2>3. CachedReadable
      BY KeyTyped DEF CachedReadable
    <2> QED
      BY <2>1, <2>2, <2>3 DEF CacheInv
  <1>2. CacheInv /\ [Next]_vars => CacheInv'
    BY TypePreserved, AnswerPreserved DEF CacheInv
  <1> QED
    BY <1>1, <1>2, PTL DEF Spec

\* Redis and the requests stay well typed.
THEOREM CacheTyped == Spec => []TypeOK
  <1>1. CacheInv => TypeOK
    BY DEF CacheInv
  <1> QED
    BY <1>1, CacheInvariant, PTL

\* Nobody is answered from a document outside what they may read and the team
\* they asked of, but for members in no team, who may get company-wide documents
\* of other companies.
THEOREM AnswersStayWithinScope == Spec => []AnsweredWithinScope
  <1>1. CacheInv => AnsweredWithinScope
    BY DEF CacheInv
  <1> QED
    BY <1>1, CacheInvariant, PTL

-----------------------------------------------------------------------------
(* Freshness, for questions that name no topic: the key leaves the topic   *)
(* out, so with topics an answer may stand for another question's.         *)
NoTopicAsked == \A s \in Asked : s.topic = Unfiltered

\* The company of a member's key is that of its teams.
IsOf(k, c) == \E t \in k.teams : TeamCompany[t] = c

(* An event is about a key when its document is one the key's members see. *)
About(e, k) ==
    \/ DocTeam[e[1]] \in k.teams
    \/ IsCompanyEvent(e) /\ IsOf(k, DocCompany(e[1]))

Announcing(e) == epc[e] \in {"publish", "drop"}

(* Invalidation reaches the key: every index that an event about it reads  *)
(* holds it, and an event past that read is going to drop it.              *)
Reached(k) ==
    /\ \A c \in Company : IsOf(k, c) => k \in companyIndex[c]
    /\ \A t \in k.teams : k \in teamIndex[t]
    /\ \A e \in Event : About(e, k) => /\ epc[e] # "dropIndex"
                                       /\ epc[e] = "drop" => k \in dropping[e]

(* Where its answer is out of date, an event about it is still under way.  *)
Excused(k) ==
    \A d \in Doc : \/ d \in answer[k] <=> d \in Current(k)
                   \/ \E e \in Event : e[1] = d /\ About(e, k) /\ Announcing(e)

(* What a calm request is about to store is current, and nothing changes.  *)
CalmIsCurrent ==
    \A r \in calm : /\ ~Changing
                    /\ rpc[r] = "generate"
                    /\ docs[r] = Matching(scope[r])

Watched == (Cached \cap MemberKeys) \ exposed

FreshInv ==
    /\ CalmIsCurrent
    /\ \A k \in Watched : Reached(k) /\ Excused(k)

\* A question without a topic retrieves what its key's answer should be.
LEMMA MatchingIsCurrent ==
    ASSUME NoTopicAsked, TypeOK, NEW s \in Asked, CacheKey(s) \in MemberKeys
    PROVE  Matching(s) = Current(CacheKey(s))
  <1>1. s.user \notin Admins /\ s.topic = Unfiltered
    BY KeyOfAdmin DEF MemberKeys, NoTopicAsked
  <1>2. CacheKey(s).teams = TeamsOf[s.user] /\ CacheKey(s).team = s.team
    BY <1>1 DEF CacheKey
  <1>3. \A c \in Company : IsOf(CacheKey(s), c) <=> CompanyOf[s.user] = c
    BY <1>2, CacheAssumption DEF IsOf, MemberKeys
  <1>4. \A d \in Doc : DocCompany(d) \in Company
    BY CacheAssumption DEF DocCompany
  <1> QED
    BY <1>1, <1>2, <1>3, <1>4 DEF Matching, Current, MaySee, IsOf, TypeOK

\* Storing an answer: a calm request's is current and indexed everywhere, any
\* other's is exposed, and the other keys only gain indexes.
LEMMA StoringKeepsFresh ==
    ASSUME NoTopicAsked, TypeOK, FreshInv, NEW r \in Request, SetCached(r)
    PROVE  FreshInv'
  <1> DEFINE key == CacheKey(scope[r])
  <1>1. /\ rpc' = [rpc EXCEPT ![r] = "done"]
        /\ answer' = [answer EXCEPT ![key] = docs[r]]
        /\ companyIndex' = [companyIndex EXCEPT ![CompanyOf[scope[r].user]] = @ \cup {key}]
        /\ teamIndex' = [t \in Team |-> IF t \in TeamsOf[scope[r].user]
                                        THEN teamIndex[t] \cup {key}
                                        ELSE teamIndex[t]]
        /\ exposed' = IF r \in calm THEN exposed \ {key} ELSE exposed \cup {key}
        /\ calm' = calm \ {r}
        /\ UNCHANGED <<searchable, scope, docs, epc, dropping>>
    BY DEF SetCached, RequestAt, events
  <1>2. scope[r] \in Asked /\ key \in Key
    BY KeyTyped DEF TypeOK
  <1>3. CalmIsCurrent'
    BY <1>1 DEF FreshInv, CalmIsCurrent, Changing, Matching, TypeOK
  <1>4. ASSUME NEW k \in Watched' PROVE Reached(k)' /\ Excused(k)'
    <2>1. CASE k = key
      <3>1. r \in calm
        BY <1>1, <1>4, <2>1 DEF Watched
      <3>2. ~Changing /\ docs[r] = Matching(scope[r])
        BY <3>1 DEF FreshInv, CalmIsCurrent
      <3>3. /\ key \in MemberKeys /\ key.teams = TeamsOf[scope[r].user]
            /\ \A c \in Company : IsOf(key, c) => c = CompanyOf[scope[r].user]
        <4>1. key \in MemberKeys
          BY <1>4, <2>1 DEF Watched
        <4>2. key.teams = TeamsOf[scope[r].user]
          BY <4>1, <1>2, KeyOfAdmin DEF MemberKeys, CacheKey
        <4> QED
          BY <4>1, <4>2, <1>2, CacheAssumption DEF IsOf
      <3>4. answer'[k] = Current(k) /\ Current(k)' = Current(k)
        BY <1>1, <1>2, <2>1, <3>2, <3>3, MatchingIsCurrent DEF TypeOK, Current
      <3>5. key.teams \subseteq Team
        BY <1>2, TeamsOfKey
      <3>6. Reached(k)'
        BY <1>1, <1>2, <2>1, <3>2, <3>3, <3>5
           DEF Reached, About, IsCompanyEvent, Changing, TypeOK
      <3> QED
        BY <3>4, <3>6 DEF Excused
    <2>2. CASE k # key
      <3>1. k \in Watched /\ answer'[k] = answer[k]
        BY <1>1, <1>4, <2>2 DEF Watched, Cached, TypeOK
      <3>2. Reached(k) /\ Excused(k) /\ k.teams \subseteq Team
        BY <3>1, TeamsOfKey DEF FreshInv, Watched, Cached
      <3>3. Reached(k)'
        BY <1>1, <3>2 DEF Reached, About, IsCompanyEvent, TypeOK
      <3>4. Excused(k)'
        BY <1>1, <3>1, <3>2 DEF Excused, Current, About, IsCompanyEvent, Announcing
      <3> QED
        BY <3>3, <3>4
    <2> QED
      BY <2>1, <2>2
  <1> QED
    BY <1>3, <1>4 DEF FreshInv

\* A document's change excuses the keys it is about until its event is over.
LEMMA ChangesAreAnnounced ==
    ASSUME TypeOK, FreshInv, NEW d \in Doc, Ingest(d) \/ DeleteDocument(d)
    PROVE  FreshInv'
  <1>1. PICK e \in Event :
          /\ e[1] = d
          /\ epc[e] = "none" /\ epc' = [epc EXCEPT ![e] = "publish"]
    BY DEF Ingest, DeleteDocument, EventAt, Event
  <1>2. /\ calm' = {}
        /\ UNCHANGED <<answer, teamIndex, companyIndex, dropping, exposed>>
        /\ \A c \in Doc \ {d} : c \in searchable' <=> c \in searchable
    BY DEF Ingest, DeleteDocument, redis
  <1>3. CalmIsCurrent'
    BY <1>2 DEF CalmIsCurrent
  <1>4. ASSUME NEW k \in Watched' PROVE Reached(k)' /\ Excused(k)'
    <2>1. k \in Watched /\ Reached(k) /\ Excused(k)
      BY <1>2, <1>4 DEF Watched, Cached, FreshInv
    <2>2. Reached(k)'
      BY <1>1, <1>2, <2>1 DEF Reached, About, IsCompanyEvent, TypeOK
    <2>3. Excused(k)'
      <3> SUFFICES ASSUME NEW c \in Doc, ~(c \in answer[k] <=> c \in Current(k)')
                   PROVE  \E f \in Event : f[1] = c /\ About(f, k) /\ Announcing(f)'
        BY <1>2 DEF Excused, About, IsCompanyEvent
      <3>1. CASE c \in answer[k] <=> c \in Current(k)
        <4>1. c = d
          BY <1>2, <3>1 DEF Current
        <4>2. c \in Current(k) \/ c \in Current(k)'
          BY <3>1
        <4>3. About(e, k)
          BY <1>1, <4>1, <4>2 DEF Current, About, IsCompanyEvent, IsOf
        <4> QED
          BY <1>1, <4>1, <4>3 DEF Announcing, TypeOK
      <3>2. CASE ~(c \in answer[k] <=> c \in Current(k))
        <4>1. PICK f \in Event : f[1] = c /\ About(f, k) /\ Announcing(f)
          BY <2>1, <3>2 DEF Excused
        <4> QED
          BY <1>1, <4>1 DEF Announcing, TypeOK
      <3> QED
        BY <3>1, <3>2
    <2> QED
      BY <2>2, <2>3
  <1> QED
    BY <1>3, <1>4 DEF FreshInv

\* The handler of an event drops every watched key the event is about.
LEMMA HandlerKeepsFresh ==
    ASSUME TypeOK, FreshInv, NEW e \in Event,
           ReadIndex(e) \/ DropAnswers(e) \/ DropIndex(e)
    PROVE  FreshInv'
  <1>1. epc[e] \in {"publish", "drop", "dropIndex"} /\ calm' = calm
    BY DEF ReadIndex, DropAnswers, DropIndex, EventAt
  <1>2. calm = {}
    BY <1>1 DEF FreshInv, CalmIsCurrent, Changing
  <1>3. CalmIsCurrent'
    BY <1>1, <1>2 DEF CalmIsCurrent
  <1>4. ASSUME NEW k \in Watched' PROVE k \in Watched /\ answer'[k] = answer[k]
    BY <1>4 DEF ReadIndex, DropAnswers, DropIndex, redis, Watched, Cached, TypeOK
  <1>5. ASSUME NEW k \in Watched' PROVE Reached(k)' /\ Excused(k)'
    <2>1. /\ Reached(k) /\ Excused(k)
          /\ k \in Key /\ k.teams \subseteq Team
          /\ answer'[k] = answer[k] /\ answer[k] # NoAnswer
      BY <1>4, <1>5, TeamsOfKey DEF FreshInv, Watched, Cached
    <2>2. IF IsCompanyEvent(e)
          THEN About(e, k) => IsOf(k, DocCompany(e[1])) /\ DocCompany(e[1]) \in Company
          ELSE About(e, k) <=> DocTeam[e[1]] \in k.teams
      BY EventTyped DEF About, IsOf, DocCompany
    <2>3. CASE ReadIndex(e)
      <3>1. /\ UNCHANGED <<searchable, answer, teamIndex, companyIndex, exposed>>
            /\ \E to \in {"done", "drop"} : epc' = [epc EXCEPT ![e] = to]
            /\ About(e, k) => epc'[e] = "drop" /\ k \in dropping'[e]
            /\ \A f \in Event \ {e} : dropping'[f] = dropping[f]
        BY <2>1, <2>2, <2>3 DEF ReadIndex, EventAt, redis, Reached, TypeOK
      <3>2. Reached(k)'
        BY <2>1, <3>1 DEF Reached, About, IsCompanyEvent, TypeOK
      <3>3. Excused(k)'
        BY <2>1, <3>1 DEF Excused, Current, About, IsCompanyEvent, Announcing, TypeOK
      <3> QED
        BY <3>2, <3>3
    <2>4. CASE DropAnswers(e)
      <3>1. /\ epc[e] = "drop" /\ epc' = [epc EXCEPT ![e] = "dropIndex"]
            /\ k \notin dropping[e]
            /\ UNCHANGED <<searchable, teamIndex, companyIndex, dropping>>
        BY <2>1, <2>4 DEF DropAnswers, EventAt
      <3>2. ~About(e, k)
        BY <2>1, <3>1 DEF Reached
      <3>3. Reached(k)'
        BY <2>1, <3>1, <3>2 DEF Reached, About, IsCompanyEvent, TypeOK
      <3>4. Excused(k)'
        BY <2>1, <3>1, <3>2 DEF Excused, Current, About, IsCompanyEvent,
                                Announcing, TypeOK
      <3> QED
        BY <3>3, <3>4
    <2>5. CASE DropIndex(e)
      <3>1. epc[e] = "dropIndex" /\ epc' = [epc EXCEPT ![e] = "done"]
        BY <2>5 DEF DropIndex, EventAt
      <3>2. ~About(e, k)
        BY <2>1, <3>1 DEF Reached
      <3>3. /\ \A c \in Company : IsOf(k, c) => k \in companyIndex'[c]
            /\ \A t \in k.teams : k \in teamIndex'[t]
            /\ searchable' = searchable
            /\ \A f \in Event \ {e} : dropping'[f] = dropping[f]
        BY <2>1, <2>5, <3>2, EventTyped DEF DropIndex, About, Reached, TypeOK
      <3>4. Reached(k)'
        BY <2>1, <3>1, <3>2, <3>3 DEF Reached, About, IsCompanyEvent, TypeOK
      <3>5. Excused(k)'
        BY <2>1, <3>1, <3>2, <3>3 DEF Excused, Current, About, IsCompanyEvent,
                                      Announcing, TypeOK
      <3> QED
        BY <3>4, <3>5
    <2> QED
      BY <2>3, <2>4, <2>5
  <1> QED
    BY <1>3, <1>5 DEF FreshInv

\* The other steps of requests store nothing, and only a retrieval while
\* nothing changes makes a request calm.
LEMMA RequestsKeepFresh ==
    ASSUME TypeOK, FreshInv, NEW r \in Request,
           Hit(r) \/ Miss(r) \/ Retrieve(r) \/ NotCached(r)
    PROVE  FreshInv'
  <1>1. UNCHANGED <<searchable, redis, events, exposed>>
    BY DEF Hit, Miss, Retrieve, NotCached
  <1>2. \A k \in Watched' : Reached(k)' /\ Excused(k)'
    BY <1>1 DEF redis, events, FreshInv, Watched, Cached, Reached, Excused, Current,
                About, IsCompanyEvent, Announcing
  <1>3. CalmIsCurrent'
    <2> USE <1>1 DEF CalmIsCurrent, FreshInv, Changing, Matching, RequestAt, TypeOK,
                     events
    <2>1. CASE Hit(r)
      BY <2>1 DEF Hit, Ask
    <2>2. CASE Miss(r)
      BY <2>2 DEF Miss, Ask
    <2>3. CASE Retrieve(r)
      BY <2>3 DEF Retrieve
    <2>4. CASE NotCached(r)
      BY <2>4 DEF NotCached
    <2> QED
      BY <2>1, <2>2, <2>3, <2>4
  <1> QED
    BY <1>2, <1>3 DEF FreshInv

\* Redis on its own, and a handler that gives up: a key goes, or is exposed.
LEMMA LossesKeepFresh ==
    ASSUME TypeOK, FreshInv,
           \/ \E k \in Key : Expire(k)
           \/ \E t \in Team : EvictIndex(t)
           \/ \E e \in Event : InvalidationFails(e)
    PROVE  FreshInv'
  <1>1. ASSUME NEW q \in Key, Expire(q) PROVE FreshInv'
    <2>1. /\ UNCHANGED <<searchable, teamIndex, companyIndex, requests, events,
                         calm, exposed>>
          /\ \A k \in Watched' : k \in Watched /\ answer'[k] = answer[k]
      BY <1>1 DEF Expire, Watched, Cached, TypeOK
    <2> QED
      BY <2>1 DEF requests, events, FreshInv, CalmIsCurrent, Changing, Matching,
                  Reached, Excused, Current, About, IsCompanyEvent, Announcing
  <1>2. ASSUME NEW t \in Team, EvictIndex(t) PROVE FreshInv'
    <2>1. UNCHANGED <<searchable, answer, requests, events, calm>> /\ Watched' = {}
      BY <1>2 DEF EvictIndex, Watched, Cached
    <2> QED
      BY <2>1 DEF requests, events, FreshInv, CalmIsCurrent, Changing, Matching
  <1>3. ASSUME NEW e \in Event, InvalidationFails(e) PROVE FreshInv'
    <2>1. UNCHANGED <<searchable, requests, calm>> /\ Watched' = {} /\ Changing
      BY <1>3 DEF InvalidationFails, redis, Watched, Cached, EventAt, Changing
    <2> QED
      BY <2>1 DEF FreshInv, CalmIsCurrent
  <1> QED
    BY <1>1, <1>2, <1>3

\* A member's cached answer that no race, failure or eviction has exposed is
\* the one that would be computed now, whenever no invalidation is under way.
THEOREM AnswersStayFresh ==
    ASSUME NoTopicAsked
    PROVE  Spec => []FreshUnlessExposed
  <1>1. Init => FreshInv
    BY DEF Init, FreshInv, CalmIsCurrent, Watched, Cached
  <1>2. CacheInv /\ FreshInv /\ [Next]_vars => FreshInv'
    <2> SUFFICES ASSUME TypeOK, FreshInv, [Next]_vars PROVE FreshInv'
      BY DEF CacheInv
    <2>1. CASE UNCHANGED vars
      BY <2>1 DEF vars, FreshInv, CalmIsCurrent, Changing, Matching, Watched, Cached,
                  Reached, Excused, Current, About, IsCompanyEvent, Announcing
    <2> QED
      BY <2>1, StoringKeepsFresh, ChangesAreAnnounced, HandlerKeepsFresh,
         RequestsKeepFresh, LossesKeepFresh DEF Next
  <1>3. CacheInv /\ FreshInv => FreshUnlessExposed
    <2> SUFFICES ASSUME TypeOK, FreshInv, ~Changing, NEW k \in Watched
                 PROVE  answer[k] = Current(k)
      BY DEF CacheInv, FreshUnlessExposed, Watched
    <2>1. \A d \in Doc : d \in answer[k] <=> d \in Current(k)
      BY DEF FreshInv, Excused, Announcing, Changing
    <2>2. answer[k] \subseteq Doc /\ Current(k) \subseteq Doc
      BY DEF Watched, Cached, Current, TypeOK
    <2> QED
      BY <2>1, <2>2
  <1> QED
    BY <1>1, <1>2, <1>3, CacheInvariant, PTL DEF Spec
=============================================================================
