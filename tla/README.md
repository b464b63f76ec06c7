# Query Prism in TLA+

Query Prism is a multi-tenant question-answering service: companies upload
documents, workers turn them into searchable chunks and a knowledge graph, and
members ask questions that an LLM answers from what they may read. The backend
is a FastAPI process and Celery workers over Postgres, Redis and Neo4j
(`src/backend/app`); the frontend is a React application
(`src/frontend-react/src`).

Very little of the backend runs in a transaction longer than one SQL statement.
Handlers are sequences of statements with an `await` between any two of them,
workers retry tasks that failed half-way, a Redis index is maintained by hand,
and a graph is written one Cypher statement at a time. That is where the program
is hard to test and where this project looks.

- [Inventory](#inventory): the parts of the system, modelled or not
- [Modules](#modules): how state and actions correspond to the code
- [Runs](#runs): what is model-checked, at which bounds, and what it shows
- [Disagreements](#disagreements-between-code-and-text)
- [Proofs](#proofs)
- [Not modelled](#what-is-not-modelled-and-why) and the [plan](#plan)

## Inventory

| part | state | operations | correct when |
|---|---|---|---|
| Query quota, `metering/service.py`, `retrieval/router.py` | `subscriptions.queries_used_this_month`, `queries_reset_at` | reserve, give back, monthly reset, lazy opening of the row; 5 exits of `/chat`, 6 of `/chat/stream` | the counter stays within the plan, every exit settles its reservation, LLM calls are counted |
| Ingestion, `knowledge/router.py`, `knowledge/tasks.py`, `shared/celery.py` | `documents.status`, `chunks`, uploaded files, the broker queue, `storage_used_bytes` | upload, the steps of `ingest_document`, retry, give-up, delete | a completed document has one set of chunks, nothing is stuck or left on disk, storage is what is stored |
| Answer cache, `retrieval/cache.py`, `retrieval/handlers.py` | Redis answers and two kinds of index sets | look up, store, invalidate on document and topic events | nobody is answered from what they may not read; a stale answer goes when a document changes |
| Knowledge graph, `knowledge/graph_tasks.py`, `knowledge/graph/writer.py` | Document, Chunk and Entity nodes, HAS_CHUNK, MENTIONS and RELATED_TO edges | build, retry, clean-up of a deleted document | a deletion removes its own and nothing of another document |
| Accounts, `identity/router.py`, `identity/oauth.py`, `identity/service.py` | companies, users, teams, memberships, invites, subscriptions | register, Google sign-up, invite, accept, create team | one account per email, limits hold, no half-made company is announced |
| Sessions, `identity/tokens.py`, `identity/service.py` | JWTs in browsers, `team_members`, `password_reset_tokens` | log in, add and remove a member, request and use a reset link | access ends within a token's life of the membership, a link works once |
| Topics and what hangs on them, `workspace/`, `knowledge/router.py`, `retrieval/history.py` | `topics`, `documents.topic_id`, `query_history` | create, update, delete; list topics, documents, questions | listings show what is the user's and lead somewhere; a deleted topic keeps its documents; a 500 has another request behind it |
| Retrieval, `retrieval/retriever.py`, `graph_query.py` | none | vector, keyword and graph search, fusion | only readable chunks are returned |
| Per-loop resources, `shared/loop_local.py`, `db.py`, `neo4j.py` | one pool or driver per event loop | get, close, run in a fresh loop | one instance per loop, used there only, closed with it |
| Frontend chat, `hooks/useChatStream.ts`, `lib/api/stream.ts` | messages, streaming flag, abort handle | ask, stream events, reset, unmount | one stream at a time, always ended |
| Frontend session, `lib/auth-context.tsx`, `lib/api/client.ts` | token, user, teams | load, login, logout, refresh | no user without a token |
| Frontend pages, panels, forms | react-query caches of server state | render | (presentation) |
| Audit log, `audit/` | append-only rows | write (failures swallowed), list | an admin sees the entries of their teams |
| Notifications | e-mail | send | |
| Rate limiting, configuration, observability, wiring | settings | | |
| LLM, embedder, NER, loaders, chunker | none | external calls and libraries | |
| Schema, migrations, gateway, compose, backup scripts | constraints | | |

How they interact:

- `POST /ingest` writes the file, inserts the row and calls `send_task`; a
  worker loads, embeds and writes the chunks, counts storage, marks the document
  completed, publishes `DocumentIngested` and sends the graph task. Events are
  in-process function calls whose failures are swallowed (`shared/events.py`).
- `DocumentIngested`, `DocumentDeleted` and `TopicDeleted` make retrieval drop
  cached answers; `CompanyRegistered` makes workspace create the default topic.
- A question reserves a query, looks in the cache, retrieves, calls the LLM and
  stores the answer; each of its failures decides whether the query goes back.
- A deletion removes the row (chunks cascade), takes the bytes off the counter,
  cleans up the graph, which may fail without failing the request, and publishes
  `DocumentDeleted`. The uploaded file is the worker's to remove.

The behaviours that are hard to test are listed with their lines in
`PROJECT.json` under `hazards`: checks separated from the write they guard,
retries that repeat what was done, messages lost or delivered twice, crashes
between two statements, invalidations that overlap what they invalidate, and
counters decremented in another month than the one they were incremented in.

## Modules

A step is one SQL statement or transaction, one Cypher statement, one Redis
command or pipeline, one file or one broker operation; everything the code does
between two of them is in the action. What an external service answers is
chosen nondeterministically. Failures are switched on by a constant `Failures`
(or `Raising`) and bounded by `MaxFaults`. Definitions preceded by "Mutant" are
not part of the specification: each is a plausible slip in the definition that
follows it, kept to show that the properties notice it. Variables marked
"history" are read by properties only.

### ChatQuota

One company's `subscriptions` row and its chat requests. `used`, `resetAt` are
the columns, `month` is `date_trunc('month', now())`. `ReserveQuery`,
`ReserveMisses`, `LookupSubscription`, `OpenAndRetry` are the statements of
`reserve_query`; `Retrieve`, `CallLLM`, `SaveAnswer`, `Release`, `ReleaseRaises`
and `Disconnect` are the ends of the two endpoints. `/chat` gives a query back
when the LLM call failed, `/chat/stream` does not once it started; the
difference is in the guards. `period` remembers the month a reservation was
counted in, `surplus` how many give-backs freed a query that was not theirs.

### Ingestion and DocumentLifecycle

`Ingestion` has the upload handler, a queue of messages, workers with one
action per stage of `_ingest_async`, the `except` block with its retry and its
final failure, the `finally` that removes the file, and the delete handler. A
worker's transaction that replaces chunks is two steps, its DELETE and its
INSERT, with the commit in the second. Retried tasks keep their number of tries
in the message. `crash` kills the whole worker (the message returns), `kill`
only its child (the message is acknowledged), `redeliver` is the visibility
timeout. `DocumentLifecycle` is what a user sees: waiting, then searchable or
failed once, and deleted for good. The refinement mapping is `Phase`.

### AnswerCache

A cache key is an admin's company or a member's teams, and the team filter
(`CacheKey`): a member's has no company in it, so that members of no team share one
key whatever their company. Users, teams and documents belong to any number of
companies, and `MaySee` is the retriever's access rule. An answer is the set of
documents it was computed from. Requests ask, retrieve,
generate and store; a document event changes the table, then reads an index,
deletes the keys, deletes the index. `calm` marks requests that ran with no
change under way. `exposed` collects keys that an overlap, a failed command or
an eviction put out of invalidation's reach. `TopicDeleted`, whose handler drops
a team's answers the way a document event does, is left out.

### KnowledgeGraph

Builds read the document row once and then write, per chunk, what its text
yields, which is any set of relations, each upserted by a statement of its own
(`TakeRelations`, `UpsertRelation`); a retry starts over. A relation is a subject, a
predicate and an object; one that the LLM names twice in a chunk is written twice,
which only adds weight, and is a member of the set once here. The clean-up is five statements in the order of
`delete_document_graph`. Entities have a name and a type; relations are stored
between entities matched by name, so one relation may attach to namesakes.
`unclean` remembers the documents whose deletion overlapped a build or failed,
`blocked` the orphans that made the last DELETE of orphans fail.

### Accounts

Sign-ups (`register` and `complete_oauth`, which take the same steps) and
acceptances of invites into one tenant, statement by statement, none of them in
a transaction. UNIQUE and CHECK constraints are in the statements that meet
them: an email that is taken fails the INSERT of the user, a username or a slug
that is taken fails its request, a role that `team_members` does not know fails
the membership after the user was committed. The limit checks are two steps,
the COUNT and the comparison, and the INSERT is a third. `late` remembers
requests that inserted on a count that no longer stood, `stranded` the emails
whose request ended before their user had a team. Admins add users to teams and
remove them at any time (`AddMember`, `RemoveMember`, of the emails in `Managed`);
`removed` remembers those who were taken off their last team and not added since.

### Sessions

The life of a membership and of a reset link. A login finds its user
(`Authenticate`; with Google `FindGoogleUser`, and `LinkGoogle` where the account
is known by its email only), reads the teams (`ReadTeams`) and signs them into a
token (`IssueToken`). Other requests may run before the signing, a removal among
them; the clock stands still there, so a token's life is exact up to the time a
login takes: between the last read and the signing the code awaits no query, but
the release of the connection. A removal is one DELETE, which no token notices: `Valid`,
that `exp` is not past, is all that is asked of a token later. A reset request
invalidates the older links and inserts its own in two statements; a use finds,
checks and marks the link in one (`TakeLink`) and writes the password in another.
`now` is a clock in units of a token's life. `lost`, `beside`, `latest` and
`overtaken` are history.

### Workspace

Topics, and the requests that refer to one: every handler calls
`require_topic_access` (`Finds`), awaits, and only then acts, so each is at
least two actions. Uploads choose their team (`Chosen`), check the storage
limit, write the file, insert the row and send the task. The worker has the steps
that touch the row, the counter and the file (`StartAttempt`, `ReadRow`,
`CountStorage`, `MarkCompleted`, `RemoveFile`), which requests come between, and may
be retried from each, give up, or be killed; what it does to chunks is in
`Ingestion`. A message is with one worker at a time here. `Unlink` is the foreign
keys' ON DELETE SET NULL. `LogEvent` ends every handler. What the GET endpoints
return is an operator each (`ListTopics`, `TopicDocuments`, `ListDocuments`,
`StatusOf`, `TopicQuestions`, `AuditLog`, ...), and the properties relate them
to each other. Questions are those of `/chat/stream`, since `/chat` neither
takes a topic nor writes to the audit log. Users, roles and teams are constants:
handlers take them from the token. `Outsiders` are users of other companies, who may
send any of the requests about this company's topics and documents:
`can_access_team` passes their admins (`CanAccess`), and most handlers look the team
or topic up in the caller's company besides (`MayUse`); `StatusOf` and
`ReadDocument` are the two that do not. `ahead` remembers, for an upload, the ones
that were checked and not counted when it was checked, `again` the bytes that later
attempts counted once more, `lost` the questions whose INSERT failed. The company's plan has a storage limit, and the multipart parser
tells the size of a file beforehand.

### LoopLocal

One worker process, which runs a loop for each task. `GetExisting`, `GetLock`,
`Acquire`, `Created` and `CreateFails` are `LoopLocal.get` between its awaits,
`GetPerLoop` is `per_loop`'s getter, which has none. A lock that is free and has
no waiters is taken without awaiting. `Finish` is the end of the main coroutine,
`Pop`, `Closed` and `CloseFails` are `close_loop_resources`, one holder after
another in the order of import, which is left open. `left` marks loops whose
main coroutine raised while others it had started were at work, as
`asyncio.gather` does when one of several raises. Resources are numbered in the
order they are made; `of` is the holder and loop of each, `popped` and `broken`
remember those detached and those whose closer failed.

## Runs

All runs are exhaustive within their bounds. Deadlock is not checked: requests,
uploads, builds and sign-ups are made once each, so every instance comes to an
end, and the deadlocks that would be errors are stated as properties
(`EveryExitSettles`, `EventuallyIngested`, `EventuallyServed`).

| run | asks | shows |
|---|---|---|
| `ChatQuota` | three requests on both endpoints, plan of one, two months, one failure of any kind | the counter stays within the plan and, without a surplus give-back, is exact; LLM calls over the plan are bounded by surplus give-backs; every exit settles |
| `Ingestion` | two documents, two workers, two deletes; failures of every stage but the last | one set of chunks, file kept for the retry, counter below what is stored only by repeated deletes; implements `DocumentLifecycle` |
| `IngestionFaults` | one document; crash, redelivery, failing load and hand-over; fair workers | completed means searchable; every document reaches a final status, every file goes |
| `IngestionSendFails` | is storage exact? | no: a failing hand-over counts the document twice |
| `AnswerCache` | member of two teams, an admin, members of no team in two companies, two documents, Redis failures and evictions | answers stay within scope, but for members of no team; those of a member in a team are fresh unless exposed |
| `AnswerCacheTenants` | is everyone answered from their own company, team and topic? | no: members of no team share a key across companies |
| `KnowledgeGraph` | two documents sharing entities, a relation and a name, a chunk with two relations; two builds with retries, deletions, one failure | other documents keep their graph; an undisturbed deletion leaves nothing |
| `KnowledgeGraphRace` | do leftovers go away? | no: a build writes its document back |
| `Sessions` | two ways to log in racing two removals and an addition; three reset requests, two of one user, and a link used twice | a removed member is out a token's life after the removal; a link is spent once; two open links only of overlapping requests; the last reset's password stays |
| `Workspace` | any three of: a topic created, two edits, two deletions, uploads into a topic, a new one and none, removals of documents (one by another company's admin), questions; one failure, retry or kill | a topic lists nothing of another team, another company's users are refused all but a removal; listings lead to each other; a 500 or a file left behind has another request's deletion, a kill or the failure behind it; edits of different fields are kept; storage over the plan is explained by stale checks and retries |
| `LoopLocal` | three coroutines, a locked and an unlocked holder, two loops; failing factories and closers, a cancellation, coroutines left behind | one instance per loop, used there only, not closed in use, closed with its loop; who waits for the lock is served |
| `Accounts` | sign-up, an invite opened twice, a bad role, two new teams, a user removed and added again, one failure | one account per email, limits passed only by stale counts, announced companies whole, a user without a team removed or on record |

### Why the bounds are enough

- *Requests, workers, builds.* The races are between two actors; the quota has a
  third so that one can take the query two others fight over. With a plan of one,
  one reservation is already the boundary.
- *Months.* A reservation meets at most the month it was made in and the next.
- *Documents.* Two in `Ingestion` and `KnowledgeGraph`, because what can go
  wrong for one alone differs from what one can do to another; one where
  liveness is checked.
- *Graph.* The first document has two chunks, so that statements per chunk
  interleave; the second shares two entities and their relation; the third
  entity has the name but not the type of a shared one. One chunk has two
  relations and the others one or none, under one predicate; the proofs have any
  number of either.
- *Retries.* The code allows 3 in ingestion and 2 in a build; the models 1: a
  first attempt, and a last one, are the cases the code tells apart.
- *Failures.* One per behaviour. A property that holds of any single failure at
  any point is what the code is written for; the proofs have no such bound.
- *Users and seats.* The tenant has an owner and two seats (two teams): one is
  free, and two ask for it. One of the two users is `Managed`, that is taken off
  teams and put back any number of times; the proofs have any set of them.
- *Companies.* Two: what is kept apart is kept from one other.
- *Time.* The clock runs past the life of a token (1) and of a link (2), so that
  each is met fresh, old and expired. Of the sessions, membership changes, links
  and uses of `Sessions`, any four make a behaviour: a login, a removal, an
  addition and a second login, or two requests for a link and two uses.
- *Topics.* Each race is between two requests; the third is the one that makes
  the topic, or the document, they are about. All three are chosen from
  twelve, so every triple is tried. `MaxFaults` of `Workspace` is one, shared by
  lost INSERTs, requests cut off, kills and failing attempts, so a task is retried
  once and may give up at any step, its first attempt or its second.
- *Loops.* Two: what the first leaves behind can be met by the second only.
  Three coroutines, so that one may wait for the lock while another takes it.
- *Symmetry* is used in runs without liveness properties only, over requests,
  documents, workers, builds and deletions that no constant tells apart.

### Fairness

Two runs assume any. In `IngestionFaults`, an upload handler runs to its end or
is cut off (`WF` of `Upload`): it is a coroutine of a live process. A worker
whose next step is enabled takes it (`WF` of `Work`, which includes taking a
message): Celery workers drain the queue and restart after a crash (`restart:
unless-stopped` in the compose file). A delete that was requested proceeds
likewise. Nothing forces a deletion to be requested, a failure to happen or a
document to be uploaded.

In `LoopLocal`, the loop resumes a coroutine that can go on (`WF` of `Acquire`
and `Use`); a factory returns or raises (`WF` of their disjunction: connecting
has a timeout in asyncpg, and the clients are made without a connection); the
main coroutine ends and the holders are closed one by one. Nothing forces a
coroutine to ask, a new loop to start or anything to fail. The weak fairness of
`Acquire` says less than asyncio's lock does, whose waiters are served in order.

### What the conditional properties leave out

- Redelivery can give a document two sets of chunks, both complete; this is why
  `OneSetOfChunks` is checked without it and `CompletedHasChunks` with it.
- A deletion racing the worker, or a failing decrement, can leave the storage
  counter too high. Two deletes of one completed document both decrement it, as
  the handler does not look at what its DELETE removed; `NeverUndercounts` says
  that this (`Repeats`) is the only way for the counter to be too low.
- An upload cut off before `send_task`, a killed child process (whose message is
  acknowledged) or an exception in the error handler leaves a document waiting
  for ever. The liveness properties are checked without
  these failures, the other properties of `Ingestion` with them.
- An admin's answer is indexed under the teams of the admin, not those it draws
  on. `FreshUnlessExposed` is about members.
- A stream cut off before its LLM call keeps its reservation until the month
  ends. `CounterExact` counts it as held.
- Entities orphaned by a deletion stay when one of them still has a relation: the
  DELETE then fails as a whole. Relations match their ends by name, and the names
  the LLM relates are not checked against the chunk's entities, so an entity may
  carry a relation of a chunk that does not mention it; `OrphansOnlyByName` says
  that only such entities block the DELETE. What it leaves waits for the next
  deletion.
- The storage limit can be passed by uploads that were checked while others were
  on their way to be counted, and by a task that fails after it has counted, since
  every attempt counts. `OverPlanOnlyByStaleChecks` bounds the excess by the bytes
  of such uploads and what was counted again. Uploads deleted since are among them, because the
  decrement comes after the deletion and may not come at all.
- An email whose user was stranded cannot be invited or signed up again; the
  code has no operation that repairs it. An admin may still add the user to a team.
- A file stays in the upload directory after a 500, a request cut off or a killed
  task; `CrashesExplained` names the three. That a worker dies after removing the
  file and the message comes back to another is in `IngestionFaults`, not in
  `Workspace`.
- Members of no team may be answered from another company's company-wide document
  (below). `AnsweredWithinScope` excuses that case and no other, and
  `FreshUnlessExposed` leaves out the key they share: it is indexed under the
  company of whoever stored the answer, and another company's documents do not
  change it.
- `KeptApart` says which requests another company's admin is refused. The removal of
  a document is let through by the code, and so is reading its status.

## Disagreements between code and text

Three runs expect a violation; each refutes one sentence of the repository, and
`PROJECT.json` quotes it under `findings`.

1. A test says ingestion with retries counts storage idempotently
   (`IngestionSendFails`). The counter is incremented before the graph task is
   sent; if sending raises, the retry increments it again.
2. `src/docs/security.md:74` rules out leakage between companies, and the docstring
   of `cache.py` has the company in the key (`AnswerCacheTenants`). A member's key is
   `teams:` and the team ids, so a member of no team is served the answer of a member
   of no team of another company, drawn from that company's company-wide documents.
3. A comment says orphaned graph nodes are dropped by the next bulk build
   (`KnowledgeGraphRace`). No code drops them.

More were met on the way, without a run of their own:

- `reserve_query` is a single UPDATE "so concurrent requests can't overshoot";
  `release_query` does not know the month of the reservation it returns. What
  holds is `OvershootAccounted`, and `CalmNeverOvershoots` under its conditions.
- A test says a cached answer must disappear once the document is searchable; an
  answer whose retrieval came before that is stored after. `FreshUnlessExposed`
  has the exception.
- `src/docs/security.md:73` has every query filter by the caller's company.
  `get_status` and `delete_document` (`knowledge/router.py:267` and `287`) read a
  document by its id and ask `can_access_team`, which passes any admin: an admin of
  another company gets its status and may delete it. Comments at
  `identity/router.py:448` and `retrieval/router.py:94` warn of exactly this; the
  handlers there, and those of topics, compare the company. `Workspace` has it so.
- `src/docs/api/chat.md:106` documents `topic_id` as a restriction, and `source_type`
  is another (`retrieval/router.py:167`); neither is in the cache key, so a question
  asked again with another topic or type gets the first answer.
- `src/docs/security.md:104` has the user limit enforced before an invite is
  accepted; the count and the INSERT are separate. `UsersAccounted` bounds what
  two acceptances can do.
- `src/docs/security.md:63` lets a team admin delete topics; `_is_team_admin`
  looks at the company role only, so an admin of a team who is a member of the
  company may not.
- `src/docs/api/chat.md:262` has the deletion of a topic cascade to its
  documents; the schema sets their topic to NULL, as the docstring of the router
  says.
- `create_topic_endpoint` maps a violated uniqueness to 409, but `topics` has no
  unique constraint. `update_topic_endpoint` accepts the blank names that
  `create_topic_endpoint` refuses.
- `GET /ingest` lists company-wide documents to everyone, and `GET /ingest/{id}`
  refuses those of other teams; `ListingsLeadOn` speaks of the others.
- The lifespan closes the pool, the driver and Redis by name, not the OpenAI
  clients; `LoopLocal` is about the worker, which closes all holders.

## Proofs

Every module of a component has its proofs in a module of its own
(`ChatQuotaProofs`, `IngestionProofs`, `AnswerCacheProofs`,
`KnowledgeGraphProofs`, `AccountsProofs`, `SessionsProofs`, `WorkspaceProofs`,
`LoopLocalProofs`), and every safety invariant, action property and refinement a
passing run checks is a theorem of one of them. They are checked by TLAPS for
every value of the constants that satisfies the assumption the module names
(`QuotaAssumption`, `IngestionAssumption`, `CacheAssumption`, `GraphAssumption`,
`AccountsAssumption`, `SessionsAssumption`, `WorkspaceAssumption`,
`LoopLocalAssumption`): the sets counted are finite, limits are positive, kinds
of requests are disjoint, users have teams, of their own company, and documents a
team. A chunk yields any set of relations, a user's memberships change any number of
times, and there are any number of companies in AnswerCache. The number of requests, coroutines, loops, failures and months is not bounded.
A theorem that needs more says so in its `ASSUME`, under a name given below.
Type correctness is proved of every module; the runs check it where a slip in the
code could break it (a retry too many, a counter below zero).

**ChatQuota.** `CounterWithinPlan` is inductive by itself, as the UPDATE checks
and increments at once. `OvershootAccounted` is not: it follows from
`CounterCovers`, that the queries the current month owes (held or spent on an
LLM call) are at most the counter plus the surplus. That needs `Stages`, what a
request holds at each point of its handler, or a give-back could return what was
never reserved; and `Periods`, that no reservation is counted in a month later
than the row's, or a reset would orphan one. `QuotaInv` is their conjunction.
Every `Cardinality` step adds or removes one element of a finite set.
`CalmNeverOvershoots` shows the strict reading of the docstring under the
conditions that make it true: one month, streaming endpoint, give-backs that
succeed. `CounterExact` is carried through a step with `Stages` and `Periods`;
its one hard step is the give-back (`GiveBackExact`), which frees a query of the
row's month that the giver holds, or is booked as surplus, or finds the counter at
zero and nothing consumed.

**Ingestion.** What holds under every failure rests on `Sent`: rows, messages and
deletions are of documents whose INSERT was made, so none is inserted again.
`CompletedHasChunks` needs `Chunked`, since a worker marks a document completed
steps after it committed the chunks. `NeverUndercounts` compares the counter
with what is completed; `Covered` compares it with what will be (`Owed`:
completed, counted and about to be, or read completed by a delete that has not
decremented), since each of these steps is separate from the one that pays for
it. `Located` and `Gone` say what a worker and a delete request have read.
`OneSetOfChunks`, `FileKeptForRetry` and the refinement assume `DeliveredOnce` (no
`crash`, no `redeliver`, the case of the run `Ingestion`): `Single` is the heart
of it, one message or one worker per document; `Replaced` then says that a
worker's DELETE has seen all the chunks its INSERT replaces, `FilesKept` that the
file is there until the last attempt is over. `IngestionRefinesLifecycle` adds
`HandedOver`, for a raising hand-over reopens a completed document, and
`Unfinished`: while an attempt may come the document is neither completed nor
failed. `PhaseOf` is the refinement mapping of one document, and each step changes
that of one document at most (`LifecycleStep`). `UndisturbedStorageIsExact` marks
off the first disagreement above: with nothing raising or killed after the
counting, and nothing deleted, the counter is exact.

**AnswerCache.** `AnsweredWithinScope` speaks of answers given; what is given
from the cache was put there by somebody else. `CachedReadable` says of every
cached answer that whoever asks a question with its key may read it, members of no
team excepted, and `SameKeySameView` why storing an answer keeps this: the key holds
the teams, which fix the company as long as there are any, or the admin's company,
and the team filter, which is all the access rule looks at. `Unanswered`
is needed because a request chooses its question when it starts. Invalidation,
expiry and eviction only remove answers (`FramePreserved`). That a key without
teams does not fix the company is where the proof of `AnsweredAsAsked`, which has no
exception, would fail; `AnswerCacheTenants` shows that it is false.

`FreshUnlessExposed` speaks of the moments when no document is changing; for the
others, `Excused` says that wherever a member's cached answer is out of date
about a document, an event about that document is still to be handled, and
`Reached` that this event will find the key: it is in every index the event
reads, and in what it has read once it has. `CalmIsCurrent` is what makes a
stored answer a current one: its request overlapped no change. Stale keys enter
`exposed` in the same step in which one of these breaks. The theorem assumes that
nobody asks by topic (`NoTopicAsked`), as the run does: since the key leaves the
topic out, with topics the answer cached is that of another question.

**KnowledgeGraph.** `OthersKeepTheirGraph` is an action property; it follows step
by step from `CleanInv`, where `Rows` says that a clean-up is of a document whose
row is gone; what it takes off relations and nodes is of that document's chunks,
and the relations it deletes have no chunk left.
`WeightCoversChunks` needs `Weighed` of all pairs and not only those related, as a
relation may be deleted and made again. `DeletedLeavesNothing` depends on the
order of statements: `BuildsInOrder` (Document node before Chunk nodes, so that
every chunk gets its HAS_CHUNK edge) and `CleanedInOrder` (chunks are found through
that edge until they are gone), both of documents not `unclean`.
`RelationsTraceable` and `OrphansOnlyByName` are statements about quiet states;
`Supported` carries them through a clean-up: a relation without chunks has a
document that is between scrubbing relations and deleting the empty ones, whose
chunk still mentions its entities. What a build has yet to write of a chunk it has
begun (`listed`) is bound in the same way as what it has written. `Extracted` says why that chunk does: entities
are written before relations. `OrphansLeft` says who is yet to delete an orphan,
or what blocked the last one who tried.

**Accounts.** `AccountsInv` strengthens each property to the point where it can
be carried through a step. `OneAccountPerEmail` speaks of requests that are done;
`OnePast` of all that are past their INSERT, and adds that the email is then
taken, which is what stops the second. `AnnouncedCompanyIsWhole` needs `Built`,
what a sign-up has written at each point. `UsersAccounted` and `TeamsAccounted`
need `Checked`: whoever is about to insert passed its check on the count it
remembers, and nobody is late before inserting. `TeamlessOnlyIfStranded` is
inductive: whoever is taken off the last team is `removed` in that step, and joining
a team ends both. `TypeOK` is not, since it says that what belongs to a company does
so after the company exists; it uses `Built`.

**Sessions.** `StaleAccessEnds` needs to know when a token's teams were read:
a removal may come between that and the signing, and the token issued after it
still names the team. The invariant bounds what a login in progress may carry, as
well as what tokens do. `LinkSpentOnce` rests on the UPDATE that marks a link
used only if it was not. For `OpenLinksOverlapped` the invariant says which
requests were between their two statements when a link was inserted, and for
`LatestResetWins` which use took its link last.

**LoopLocal.** `OneInstancePerLoop` is not inductive: that nobody else creates an
instance while one is at the factory follows from `Creating` (it holds the lock,
its holder is a locked one, and the entry is empty), and that an instance not
detached is in its entry from `Kept`. `Using` ties what a coroutine uses to the
entry of its own loop, which is why nothing is closed under it while the main
coroutine awaits it (`AtRest`). `Gone` says that what closing has come to is
empty, in this loop and all before; with `Kept`, what was made there is detached,
and what is detached and open is being closed or broken.

**Workspace.** Every handler finds its topic in one step and uses it in another.
`FoundTopic` says what it found is `Born`, and `TopicsGo` that what was born and is
not there has a deletion behind it which was answered: together they explain every
500 (`CrashesExplained`). `KeptApart` rests on three parts: `DocsAtHome`, that an
upload into a topic chose the topic's team and ON DELETE SET NULL keeps `docTopic`
among the topics there are; `QuestionsFiled`, that who asked about a topic had access
to its team; and `OutsidersOut`, that the company is compared in every first step
but that of a removal. The worker's eight actions are alike in what they leave alone
(`Works`, `WorkerFrame`, `WorkerKeeps`). `OverPlanOnlyByStaleChecks`
speaks of bytes stored, but the check was made long before they were counted:
`PlacesTaken` says that the counter and the bytes on their way together are within
the plan, the bytes of stale uploads and `again`, `CheckedOnce` that an upload is
checked before there is a document or a task of it. A worker between reading the row
and counting it is on its way even if the document is deleted (`InFlight`). A check that is not stale found nothing on its
way but itself; every other upload brings its own bytes to the bound. `Bytes` makes
a sum of sizes the cardinality of a set, so that every step adds or removes the
bytes of one upload (`BytesAdd`).

Only model-checked: the liveness properties (`EventuallyIngested`,
`EventuallyCleaned`, `EventuallyServed`), since the prover does not handle ENABLED
and fairness, and the three violations, which are counterexamples. Nothing is
defined by recursion.

## What is not modelled, and why

- *Ranking and text*: embeddings, fusion, prompts, chunk boundaries, NER. Pure
  functions of floating-point scores and text; their results are inputs.
- *Notifications, rate limiting*: e-mail to an external service, and a library.
  The audit entries of identity and billing are one swallowed INSERT each, like
  those of `Workspace`.
- *The browser*: pages and panels are views of server state. The chat stream and
  the session have state of their own (an open stream, a user without a token);
  two hazards name where it bites, and no property covers them.
- *Migrations, gateway, compose, backups*: configuration and offline scripts.
  What they fix for the running system (constraints, eviction policy,
  acknowledgement settings) is in the actions.
- *Other companies*, except in AnswerCache, in Workspace (as users who ask) and in
  Accounts (sign-ups). The counters, the pipeline and the graph are keyed by a
  company or by a document's id, so one company's requests do not meet another's
  there, but for the deletion of a document, which `Ingestion` and `KnowledgeGraph`
  let happen at any time whoever asks. That a question about another company's team
  or topic is refused is pinned by `src/backend/tests/integration/test_tenancy.py`.
- *Pages of listings*: a topic shows its latest 200 questions (`history.py:55`);
  `TopicQuestions` has all.
- *The API's own loop*, a storage plan without limit, and uploads whose size is
  not known in advance.

## Plan

Done, in the order of their importance: ChatQuota, Ingestion with
DocumentLifecycle, AnswerCache, KnowledgeGraph, Accounts, Sessions, Workspace and
LoopLocal, each with its proofs.

Open: the theorems about Ingestion that assume `DeliveredOnce`, per document (what
holds of a document when only messages of *another* one are delivered twice), and
the browser's chat stream and session as modules.

## Running

    tlc -workers 2 -config Ingestion.cfg MCIngestion.tla
    tlapm LoopLocalProofs.tla

Every `.cfg` belongs to the `MC` module its name begins with. The longest runs,
`Ingestion`, `Workspace` and `KnowledgeGraph`, take two to four minutes each.
