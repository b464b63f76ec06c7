------------------------------ MODULE Workspace ------------------------------
(***************************************************************************)
(* Topics, and what hangs on them: documents, questions and the audit log  *)
(* (app/workspace, app/knowledge/router.py, app/retrieval/history.py,      *)
(* app/audit), of one company.  A handler reads the topic, decides who the *)
(* user is to it, and only then changes it, in another statement: between  *)
(* the two another request may have deleted it.                            *)
(*                                                                         *)
(* Who a user is comes from the token: role and team_ids are constants     *)
(* here (Sessions has how they age).  Users of other companies may ask for *)
(* what is this company's; what they do in their own is not here.  The     *)
(* worker has the steps that touch the document's row, the storage counter *)
(* and the file (Ingestion has the others); the graph and the cache have   *)
(* modules of their own.                                                   *)
(***************************************************************************)
EXTENDS Integers, FiniteSets

CONSTANTS
    User,
    Team,                 \* the company's
    Outsiders,            \* users of other companies
    Owners, Admins,       \* role; an owner is an admin here
    TeamIds,              \* of the team_ids claim of each user, those in Team
    DefaultTeam,          \* the default_team_id claim, or None
    Given,                \* topics at the start
    GivenHome,            \* the team of each; their creator is gone
    Creation, Update, TopicRemoval, Upload, DocRemoval, Question,
    By,                   \* the user of each request
    TopicArg,             \* topic_id of it, or None
    TeamArg,              \* team_id of it, or None
    DocArg,               \* document_id of each removal of a document
    Sets,                 \* the fields each update gives
    Wide,                 \* uploads with visibility 'company'
    Size, MaxStorage,
    None,
    MaxRequests,          \* bound: requests made
    MaxFaults             \* bound: requests cut off, INSERTs lost, attempts failed

Topic   == Given \cup Creation
Request == Creation \cup Update \cup TopicRemoval \cup Upload \cup DocRemoval \cup Question
Field   == {"name", "description"}

ASSUME WorkspaceAssumption ==
    /\ Owners \subseteq Admins /\ Admins \subseteq User
    /\ TeamIds \in [User -> SUBSET Team]
    /\ Outsiders \subseteq User /\ \A u \in Outsiders : TeamIds[u] = {}
    /\ DefaultTeam \in [User -> Team \cup {None}] /\ None \notin Team \cup Topic
    /\ GivenHome \in [Given -> Team]
    /\ By \in [Request -> User]
    /\ TopicArg \in [Update \cup TopicRemoval \cup Upload \cup Question -> Topic \cup {None}]
    /\ \A r \in Update \cup TopicRemoval : TopicArg[r] # None
    /\ TeamArg \in [Creation \cup Upload \cup Question -> Team \cup {None}]
    /\ \A r \in Creation : TeamArg[r] # None
    /\ \A r \in Question : By[r] \in Outsiders => TopicArg[r] # None \/ TeamArg[r] # None
    /\ DocArg \in [DocRemoval -> Upload]
    /\ Sets \in [Update -> SUBSET Field]
    /\ Wide \subseteq Upload
    /\ IsFiniteSet(Upload) /\ Size \in [Upload -> Nat] /\ MaxStorage \in Nat
    /\ MaxRequests \in Nat /\ MaxFaults \in Nat
    /\ Given \cap Creation = {}
    /\ Creation \cap (Update \cup TopicRemoval \cup Upload \cup DocRemoval \cup Question) = {}
    /\ Update \cap (TopicRemoval \cup Upload \cup DocRemoval \cup Question \cup {None}) = {}
    /\ TopicRemoval \cap (Upload \cup DocRemoval \cup Question) = {}
    /\ Upload \cap (DocRemoval \cup Question) = {}
    /\ DocRemoval \cap Question = {}

VARIABLES
    topics,    \* rows of topics
    edited,    \* by which update each field was set
    docs,      \* documents: "none", a status, or "deleted"
    docTeam,   \* team_id chosen for each upload
    docTopic,  \* topic_id of each document
    files,     \* files in the upload directory
    task,      \* where the ingestion of each document is
    used,      \* storage_used_bytes
    history,   \* query_history: the questions kept
    filed,     \* topic_id of each
    audit,     \* audit_log: the requests that are in it
    seen,      \* the status each removal of a document has read
    pc, made, faults,
    lost,      \* history: questions whose INSERT the database failed
    ahead,     \* history: uploads checked and not counted when this one was checked
    counted,   \* history: uploads whose size has been added to used
    again      \* history: the bytes of those added once more, by a later attempt

vars == <<topics, edited, docs, docTeam, docTopic, files, task, used, history, filed,
          audit, seen, pc, made, faults, lost, ahead, counted, again>>

Init ==
    /\ topics = Given
    /\ edited = [t \in Topic |-> [f \in Field |-> None]]
    /\ docs = [d \in Upload |-> "none"]
    /\ docTeam = [d \in Upload |-> None]
    /\ docTopic = [d \in Upload |-> None]
    /\ files = {} /\ task = [d \in Upload |-> "none"] /\ used = 0
    /\ history = {} /\ filed = [q \in Question |-> None]
    /\ audit = {}
    /\ seen = [r \in DocRemoval |-> "none"]
    /\ pc = [r \in Request |-> "new"]
    /\ made = 0 /\ faults = 0
    /\ lost = {}
    /\ ahead = [d \in Upload |-> {}] /\ counted = {} /\ again = 0

content   == <<topics, edited>>
documents == <<docs, docTopic, task, used, counted, again>>
uploads   == <<docTeam, files, ahead>>
questions == <<history, filed, lost>>

Goto(r, from, to) ==
    /\ pc[r] = from
    /\ pc' = [pc EXCEPT ![r] = to]
    /\ UNCHANGED <<made, faults>>

\* The first step of a request.
Begin(r, to) ==
    /\ pc[r] = "new" /\ made < MaxRequests
    /\ pc' = [pc EXCEPT ![r] = to]
    /\ made' = made + 1
    /\ UNCHANGED faults

-----------------------------------------------------------------------------
(* Who may do what.                                                        *)

Home(t)    == IF t \in Given THEN GivenHome[t] ELSE TeamArg[t]
Creator(t) == IF t \in Given THEN None ELSE By[t]

\* can_access_team, which passes the admins of every company.
CanAccess(u, team) == u \in Admins \/ team \in TeamIds[u]

\* Most handlers also look the team, or the topic, up in the user's company.
MayUse(u, team) == u \notin Outsiders /\ CanAccess(u, team)

\* Mutant: the topic is taken to exist.
FindsAnyTopic(u, t) == MayUse(u, Home(t))

\* The topic exists and the user may see its team, else 404 or 403.
Finds(u, t) == t \in topics /\ MayUse(u, Home(t))

-----------------------------------------------------------------------------
(* Topics.  A name is refused when blank.                                  *)

CreateTopic(r) ==
    /\ \/ MayUse(By[r], TeamArg[r]) /\ Begin(r, "log") /\ topics' = topics \cup {r}
       \/ Begin(r, "refused") /\ UNCHANGED topics
    /\ UNCHANGED <<edited, documents, uploads, questions, audit, seen>>

LoadToUpdate(r) ==
    /\ Begin(r, IF /\ Finds(By[r], TopicArg[r])
                   /\ By[r] \in Admins \cup {Creator(TopicArg[r])}
                THEN "update" ELSE "refused")
    /\ UNCHANGED <<content, documents, uploads, questions, audit, seen>>

\* Mutant: a field that is not given is set to NULL.
UpdateBoth(r) ==
    LET t == TopicArg[r] IN
    /\ Goto(r, "update", IF t \in topics THEN "log" ELSE "crashed")
    /\ edited' = IF t \in topics
                 THEN [edited EXCEPT ![t] = [f \in Field |-> IF f \in Sets[r] THEN r ELSE None]]
                 ELSE edited
    /\ UNCHANGED <<topics, documents, uploads, questions, audit, seen>>

\* The UPDATE returns no row for a topic deleted meanwhile, and the handler
\* subscripts it: a 500.
UpdateTopic(r) ==
    LET t == TopicArg[r] IN
    /\ Goto(r, "update", IF t \in topics THEN "log" ELSE "crashed")
    /\ edited' = IF t \in topics
                 THEN [edited EXCEPT ![t] = [f \in Field |-> IF f \in Sets[r] THEN r ELSE @[f]]]
                 ELSE edited
    /\ UNCHANGED <<topics, documents, uploads, questions, audit, seen>>

LoadToDelete(r) ==
    /\ Begin(r, IF Finds(By[r], TopicArg[r]) /\ By[r] \in Admins THEN "delete" ELSE "refused")
    /\ UNCHANGED <<content, documents, uploads, questions, audit, seen>>

\* Mutant: topic_id is a plain column, without a foreign key.
UnlinkNothing(t) ==
    /\ docTopic' = [d \in Upload |-> IF docTopic[d] = t THEN t ELSE docTopic[d]]
    /\ filed' = [q \in Question |-> IF filed[q] = t THEN None ELSE filed[q]]

\* ON DELETE SET NULL: documents and questions lose the topic.
Unlink(t) ==
    /\ docTopic' = [d \in Upload |-> IF docTopic[d] = t THEN None ELSE docTopic[d]]
    /\ filed' = [q \in Question |-> IF filed[q] = t THEN None ELSE filed[q]]

\* Of two, the second deletes nothing: a 404.
DeleteTopic(r) ==
    /\ Goto(r, "delete", IF TopicArg[r] \in topics THEN "log" ELSE "refused")
    /\ topics' = topics \ {TopicArg[r]}
    /\ Unlink(TopicArg[r])
    /\ UNCHANGED <<edited, docs, task, used, counted, again, uploads, history, lost,
                   audit, seen>>

-----------------------------------------------------------------------------
(* Uploads.                                                                *)

\* Mutant: the team asked for wins over the topic's.
ChosenAsAsked(r) ==
    LET claim == TeamIds[By[r]] IN
    IF TeamArg[r] # None THEN TeamArg[r]
    ELSE IF TopicArg[r] # None THEN Home(TopicArg[r])
    ELSE IF Cardinality(claim) = 1 THEN CHOOSE t \in claim : TRUE
    ELSE DefaultTeam[By[r]]

\* The topic's team, or the one asked for, or the only one, or the default.
Chosen(r) ==
    LET claim == TeamIds[By[r]] IN
    IF TopicArg[r] # None THEN Home(TopicArg[r])
    ELSE IF TeamArg[r] # None THEN TeamArg[r]
    ELSE IF Cardinality(claim) = 1 THEN CHOOSE t \in claim : TRUE
    ELSE DefaultTeam[By[r]]

\* A name or a type of file that is not accepted is refused too.
ChooseTeam(r) ==
    /\ \/ /\ TeamIds[By[r]] # {}
          /\ TopicArg[r] # None => Finds(By[r], TopicArg[r])
          /\ Chosen(r) # None /\ MayUse(By[r], Chosen(r))
          /\ Begin(r, "check")
          /\ docTeam' = [docTeam EXCEPT ![r] = Chosen(r)]
       \/ Begin(r, "refused") /\ UNCHANGED docTeam
    /\ UNCHANGED <<content, documents, files, ahead, questions, audit, seen>>

Exists(d) == docs[d] \notin {"none", "deleted"}

\* Past its check, and may be counted yet, be it that its row is deleted once the
\* worker has read it.
InFlight(d) ==
    /\ d \notin counted
    /\ \/ pc[d] \in {"write", "insert"}
       \/ Exists(d) /\ task[d] \notin {"done", "killed"}
       \/ task[d] = "count"

\* Mutant: the size of the new file is left out of the sum.
CheckWithoutSize(r) ==
    /\ Goto(r, "check", IF used > MaxStorage THEN "refused" ELSE "write")
    /\ ahead' = [ahead EXCEPT ![r] = {d \in Upload \ {r} : InFlight(d)}]
    /\ UNCHANGED <<content, documents, docTeam, files, questions, audit, seen>>

CheckStorage(r) ==
    /\ Goto(r, "check", IF used + Size[r] > MaxStorage THEN "refused" ELSE "write")
    /\ ahead' = [ahead EXCEPT ![r] = {d \in Upload \ {r} : InFlight(d)}]
    /\ UNCHANGED <<content, documents, docTeam, files, questions, audit, seen>>

WriteFile(r) ==
    /\ \/ Goto(r, "write", "insert") /\ files' = files \cup {r}
       \/ Goto(r, "write", "refused") /\ UNCHANGED files
    /\ UNCHANGED <<content, documents, docTeam, ahead, questions, audit, seen>>

\* The foreign key refuses a topic deleted meanwhile; the file stays.
InsertDocument(r) ==
    LET t == TopicArg[r] IN
    /\ \/ /\ t \in topics \cup {None}
          /\ Goto(r, "insert", "send")
          /\ docs' = [docs EXCEPT ![r] = "pending"]
          /\ docTopic' = [docTopic EXCEPT ![r] = t]
       \/ /\ t \notin topics \cup {None}
          /\ Goto(r, "insert", "crashed")
          /\ UNCHANGED <<docs, docTopic>>
    /\ UNCHANGED <<content, task, used, counted, again, uploads, questions, audit, seen>>

SendTask(r) ==
    /\ Goto(r, "send", "log")
    /\ task' = [task EXCEPT ![r] = "queued"]
    /\ UNCHANGED <<content, docs, docTopic, used, counted, again, uploads, questions,
                   audit, seen>>

-----------------------------------------------------------------------------
(* The worker, which has one task of a document at a time.                 *)

Started == {"load", "count", "complete", "announce", "failed"}

SetStatus(d, status) == docs' = [docs EXCEPT ![d] = IF Exists(d) THEN status ELSE @]

TaskAt(d, from, to) ==
    /\ task[d] = from
    /\ task' = [task EXCEPT ![d] = to]
    /\ UNCHANGED <<content, docTopic, docTeam, ahead, questions, audit, seen, pc, made>>

\* The status 'processing' is a pending one here.
StartAttempt(d) ==
    /\ TaskAt(d, "queued", "load")
    /\ SetStatus(d, "pending")
    /\ UNCHANGED <<files, used, counted, again, faults>>

\* The row is read after the chunks are written; deleted, it is not counted.
ReadRow(d) ==
    /\ TaskAt(d, "load", IF Exists(d) THEN "count" ELSE "complete")
    /\ UNCHANGED <<docs, files, used, counted, again, faults>>

\* Whatever an earlier attempt counted, and whether or not there still is a row.
CountStorage(d) ==
    /\ TaskAt(d, "count", "complete")
    /\ used' = used + Size[d]
    /\ counted' = counted \cup {d}
    /\ again' = again + IF d \in counted THEN Size[d] ELSE 0
    /\ UNCHANGED <<docs, files, faults>>

MarkCompleted(d) ==
    /\ TaskAt(d, "complete", "announce")
    /\ SetStatus(d, "completed")
    /\ UNCHANGED <<files, used, counted, again, faults>>

\* DocumentIngested and the graph task are out, or the document has failed.
RemoveFile(d) ==
    /\ \E from \in {"announce", "failed"} : TaskAt(d, from, "done")
    /\ files' = files \ {d}
    /\ UNCHANGED <<docs, used, counted, again, faults>>

\* An attempt raises, or the worker is lost: the task comes back, with the file.
Retry(d) ==
    /\ faults < MaxFaults /\ faults' = faults + 1
    /\ \E from \in Started : TaskAt(d, from, "queued")
    /\ UNCHANGED <<docs, files, used, counted, again>>

\* The last attempt raises.
GiveUp(d) ==
    /\ \E from \in Started \ {"failed"} : TaskAt(d, from, "failed")
    /\ SetStatus(d, "failed")
    /\ UNCHANGED <<files, used, counted, again, faults>>

\* The child process is killed, or _mark_failed raises: there is no more task,
\* and nobody to remove the file.
Kill(d) ==
    /\ faults < MaxFaults /\ faults' = faults + 1
    /\ \E from \in Started : TaskAt(d, from, "killed")
    /\ UNCHANGED <<docs, files, used, counted, again>>

-----------------------------------------------------------------------------
(* Removing a document.                                                    *)

\* Read by id alone: the admin may be another company's.
ReadDocument(r) ==
    LET d == DocArg[r] IN
    /\ Begin(r, IF /\ Exists(d)
                   /\ By[r] \in Admins \cup {By[d]}
                   /\ CanAccess(By[r], docTeam[d])
                THEN "drop" ELSE "refused")
    /\ seen' = [seen EXCEPT ![r] = docs[d]]
    /\ UNCHANGED <<content, documents, uploads, questions, audit>>

DropDocument(r) ==
    /\ Goto(r, "drop", IF seen[r] = "completed" THEN "uncount" ELSE "log")
    /\ docs' = [docs EXCEPT ![DocArg[r]] = "deleted"]
    /\ docTopic' = [docTopic EXCEPT ![DocArg[r]] = None]
    /\ UNCHANGED <<content, task, used, counted, again, uploads, questions, audit, seen>>

\* Mutant: without GREATEST(0, ...).
UncountPlainly(r) ==
    /\ Goto(r, "uncount", "log")
    /\ used' = used - Size[DocArg[r]]
    /\ UNCHANGED <<content, docs, docTopic, task, counted, again, uploads, questions,
                   audit, seen>>

UncountStorage(r) ==
    /\ Goto(r, "uncount", "log")
    /\ used' = IF used < Size[DocArg[r]] THEN 0 ELSE used - Size[DocArg[r]]
    /\ UNCHANGED <<content, docs, docTopic, task, counted, again, uploads, questions,
                   audit, seen>>

-----------------------------------------------------------------------------
(* Questions.                                                              *)

CheckScope(r) ==
    /\ Begin(r, IF /\ TeamArg[r] # None => MayUse(By[r], TeamArg[r])
                   /\ TopicArg[r] # None => Finds(By[r], TopicArg[r])
                THEN "answer" ELSE "refused")
    /\ UNCHANGED <<content, documents, uploads, questions, audit, seen>>

\* Answered from the cache, or not at all: nothing is kept.
AnswerUnsaved(r) ==
    /\ Goto(r, "answer", "unsaved")
    /\ UNCHANGED <<content, documents, uploads, questions, audit, seen>>

\* An INSERT that fails, as for a topic deleted meanwhile, is only logged.
SaveQuestion(r) ==
    LET t == TopicArg[r] IN
    /\ pc[r] = "answer"
    /\ pc' = [pc EXCEPT ![r] = "log"]
    /\ \/ /\ t \in topics \cup {None}
          /\ history' = history \cup {r}
          /\ filed' = [filed EXCEPT ![r] = t]
          /\ UNCHANGED <<faults, lost>>
       \/ t \notin topics \cup {None} /\ UNCHANGED <<faults, questions>>
       \/ /\ faults < MaxFaults /\ faults' = faults + 1
          /\ lost' = lost \cup {r} /\ UNCHANGED <<history, filed>>
    /\ UNCHANGED <<made, content, documents, uploads, audit, seen>>

-----------------------------------------------------------------------------
(* Every handler ends with its audit entry; one that cannot be written is  *)
(* forgotten.                                                              *)

LogEvent(r) ==
    /\ pc[r] = "log"
    /\ pc' = [pc EXCEPT ![r] = "done"]
    /\ \/ audit' = audit \cup {r} /\ UNCHANGED faults
       \/ faults < MaxFaults /\ faults' = faults + 1 /\ UNCHANGED audit
    /\ UNCHANGED <<made, content, documents, uploads, questions, seen>>

CutOff(r) ==
    /\ pc[r] \notin {"new", "log", "done", "refused", "crashed", "unsaved", "cut"}
    /\ faults < MaxFaults
    /\ faults' = faults + 1
    /\ pc' = [pc EXCEPT ![r] = "cut"]
    /\ UNCHANGED <<made, content, documents, uploads, questions, audit, seen>>

Next ==
    \/ \E r \in Creation : CreateTopic(r)
    \/ \E r \in Update : LoadToUpdate(r) \/ UpdateTopic(r)
    \/ \E r \in TopicRemoval : LoadToDelete(r) \/ DeleteTopic(r)
    \/ \E r \in Upload : \/ ChooseTeam(r) \/ CheckStorage(r) \/ WriteFile(r)
                         \/ InsertDocument(r) \/ SendTask(r)
    \/ \E d \in Upload : \/ StartAttempt(d) \/ ReadRow(d) \/ CountStorage(d)
                         \/ MarkCompleted(d) \/ RemoveFile(d)
                         \/ Retry(d) \/ GiveUp(d) \/ Kill(d)
    \/ \E r \in DocRemoval : ReadDocument(r) \/ DropDocument(r) \/ UncountStorage(r)
    \/ \E r \in Question : CheckScope(r) \/ AnswerUnsaved(r) \/ SaveQuestion(r)
    \/ \E r \in Request : LogEvent(r) \/ CutOff(r)

Spec == Init /\ [][Next]_vars

-----------------------------------------------------------------------------
(* What each endpoint shows.                                               *)

Docs == {d \in Upload : Exists(d)}

CompanyTopics      == topics
TeamTopics(team)   == {t \in topics : Home(t) = team}
UserTopics(u)      == {t \in topics : Home(t) \in TeamIds[u]}
ListTopics(u)      == IF u \in Admins \ Outsiders THEN CompanyTopics ELSE UserTopics(u)
OpenTopics(u)      == {t \in topics : Finds(u, t)}

\* GET /topics?team_id=
ListTeamTopics(u, team) == IF MayUse(u, team) THEN TeamTopics(team) ELSE {}

\* GET /topics/{id}/documents, and GET /ingest?topic_id=
TopicDocuments(u, t) == {d \in Docs : Finds(u, t) /\ docTopic[d] = t}

\* GET /topics/{id}/questions
TopicQuestions(u, t) == {q \in history : Finds(u, t) /\ filed[q] = t}

\* GET /ingest
ListDocuments(u) ==
    IF u \in Admins \ Outsiders THEN Docs
    ELSE {d \in Docs : TeamIds[u] # {} /\ (docTeam[d] \in TeamIds[u] \/ d \in Wide)}

\* GET /ingest/{id}, which asks can_access_team only.
StatusOf(u) == {d \in Docs : CanAccess(u, docTeam[d])}

\* team_id of the entry a request leaves.
LoggedTeam(r) ==
    CASE r \in Creation -> TeamArg[r]
      [] r \in Update \cup TopicRemoval -> Home(TopicArg[r])
      [] r \in Upload -> docTeam[r]
      [] r \in DocRemoval -> docTeam[DocArg[r]]
      [] OTHER -> TeamArg[r]

\* GET /audit, where None is no team_id; a company's own.
AuditLog(u, team) ==
    IF u \in Outsiders THEN {}
    ELSE IF u \in Owners THEN {r \in audit : team \in {None, LoggedTeam(r)}}
    ELSE IF u \notin Admins THEN {}
    ELSE IF team = None THEN {r \in audit : LoggedTeam(r) \in TeamIds[u] \cup {None}}
    ELSE {r \in audit : team \in TeamIds[u] /\ LoggedTeam(r) = team}

-----------------------------------------------------------------------------
Places == {"new", "update", "delete", "check", "write", "insert", "send", "drop",
           "uncount", "answer", "log", "done", "refused", "crashed", "unsaved", "cut"}

\* Every column and every local variable has its type.
TypeOK ==
    /\ topics \subseteq Topic
    /\ edited \in [Topic -> [Field -> Update \cup {None}]]
    /\ docs \in [Upload -> {"none", "pending", "completed", "failed", "deleted"}]
    /\ docTeam \in [Upload -> Team \cup {None}]
    /\ docTopic \in [Upload -> Topic \cup {None}]
    /\ files \subseteq Upload
    /\ task \in [Upload -> Started \cup {"none", "queued", "done", "killed"}]
    /\ used \in Nat
    /\ history \subseteq Question /\ lost \subseteq Question
    /\ filed \in [Question -> Topic \cup {None}]
    /\ audit \subseteq Request
    /\ seen \in [DocRemoval -> {"none", "pending", "completed", "failed", "deleted"}]
    /\ pc \in [Request -> Places]
    /\ made \in Nat /\ faults \in Nat
    /\ ahead \in [Upload -> SUBSET Upload]
    /\ counted \subseteq Upload /\ again \in Nat

\* Teams and companies are kept apart.  A topic's listings, which ask for neither
\* the team nor the company of what they show, have only documents of the topic's
\* team, that the user's own listing has too, and questions of users of that team.
\* And of what a user of another company asks for, everything is refused, but for
\* the removal of a document by an admin.
KeptApart ==
    /\ \A u \in User, t \in Topic :
          /\ \A d \in TopicDocuments(u, t) : docTeam[d] = Home(t) /\ d \in ListDocuments(u)
          /\ \A q \in TopicQuestions(u, t) : MayUse(By[q], Home(t))
    /\ \A r \in Request :
          By[r] \in Outsiders /\ pc[r] \notin {"new", "refused"} =>
              r \in DocRemoval /\ By[r] \in Admins

\* What one endpoint shows the next one opens: a listed document of the user's
\* teams has a status, and a topic, if any, that the user may open and that
\* lists it; every topic listed opens, by team or not, and no other does; an
\* answered question that could be saved is in its topic, as long as there is one.
ListingsLeadOn ==
    \A u \in User :
        /\ \A d \in ListDocuments(u) :
              CanAccess(u, docTeam[d]) =>
                 /\ d \in StatusOf(u)
                 /\ docTopic[d] # None =>
                       docTopic[d] \in OpenTopics(u) /\ d \in TopicDocuments(u, docTopic[d])
        /\ ListTopics(u) = OpenTopics(u)
        /\ OpenTopics(u) = UNION {ListTeamTopics(u, team) : team \in Team}
        /\ \A q \in Question :
              By[q] = u /\ pc[q] = "done" /\ q \notin lost /\ TopicArg[q] \in topics =>
                  q \in TopicQuestions(u, TopicArg[q])

\* An update or upload ends in a 500 only when its topic, which it had found,
\* was deleted by another request meanwhile; and a file in the upload directory
\* is on its way to the worker or with it, unless its upload ended so or was cut
\* off, or its task was killed.
CrashesExplained ==
    /\ \A r \in Update \cup Upload :
          pc[r] = "crashed" =>
              \E x \in TopicRemoval :
                  TopicArg[x] = TopicArg[r] /\ pc[x] \in {"log", "done"}
    /\ \A d \in files : \/ task[d] \notin {"none", "done"}
                        \/ pc[d] \in {"insert", "send", "crashed", "cut"}

\* A field that an update set and was answered for is never lost to an update
\* of the other field.
EditsAreKept ==
    \A r \in Update : \A f \in Sets[r] :
        pc[r] \in {"log", "done"} =>
            edited[TopicArg[r]][f] # None /\ f \in Sets[edited[TopicArg[r]][f]]

\* The bytes of some uploads, one by one.
Bytes(uploaded) == UNION {{d} \X (1..Size[d]) : d \in uploaded}

\* Uploads that were counted although others, checked before them, were not
\* counted yet when they were checked.
StaleStored == {d \in counted : ahead[d] # {}}

\* The plan's storage is passed by no more than the size of such uploads and of
\* what later attempts counted once more.
OverPlanOnlyByStaleChecks ==
    used <= MaxStorage + Cardinality(Bytes(StaleStored)) + again
=============================================================================
