------------------------------ MODULE Ingestion ------------------------------
(***************************************************************************)
(* Document ingestion: the upload endpoint (app/knowledge/router.py), the  *)
(* broker queue, the Celery workers that run ingest_document               *)
(* (app/knowledge/tasks.py) and the delete endpoint, around the documents  *)
(* and chunks tables, the uploaded files and the company's storage counter *)
(* (app/metering/service.py).                                              *)
(*                                                                         *)
(* All documents belong to one company and have one unit of size.  A step  *)
(* is one SQL statement or transaction, one file operation or one broker   *)
(* operation.                                                              *)
(***************************************************************************)
EXTENDS Integers, FiniteSets

CONSTANTS
    Doc,          \* documents, each uploaded at most once
    Worker,       \* Celery worker processes
    Deleter,      \* delete requests, each made at most once
    None,         \* an idle worker's job, the target of no delete yet
    MaxRetries,   \* max_retries of the task
    MaxStorage,   \* the plan's storage limit, in documents
    Raising,      \* the stages of a task whose statements may raise
    Failures,     \* "cutoff", "handler", "kill", "crash", "redeliver", "uncount"
    MaxFaults     \* bound: how many failures

Stage == {"start", "load", "replace", "insert", "fetch", "count", "complete",
          "send"}

ASSUME IngestionAssumption ==
    /\ IsFiniteSet(Doc) /\ IsFiniteSet(Deleter)
    /\ None \notin Doc /\ None \notin [doc : Doc, try : 0..MaxRetries]
    /\ MaxRetries \in Nat
    /\ MaxStorage \in Nat
    /\ Raising \subseteq Stage
    /\ Failures \subseteq
           {"cutoff", "handler", "kill", "crash", "redeliver", "uncount"}
    /\ MaxFaults \in Nat

VARIABLES
    status,    \* documents.status, "none" when there is no row
    chunks,    \* the workers whose chunks of a document are committed
    storage,   \* subscriptions.storage_used_bytes
    files,     \* documents whose uploaded file is on disk
    queue,     \* ready messages of the ingestion queue
    upload,    \* where each upload request is
    wpc,       \* where each worker is in its task
    job,       \* the message each worker holds
    stale,     \* the chunks a worker's open transaction has deleted
    found,     \* workers that read the document's row back
    dpc,       \* where each delete request is
    target,    \* the document it deletes
    seen,      \* the status it read
    faults     \* failures so far

vars == <<status, chunks, storage, files, queue, upload, wpc, job, stale,
          found, dpc, target, seen, faults>>

tables  == <<status, chunks, storage>>
workers == <<wpc, job, stale, found>>
deletes == <<dpc, target, seen>>

Message == [doc : Doc, try : 0..MaxRetries]
Status  == {"none", "pending", "processing", "completed", "failed"}

Init ==
    /\ status = [d \in Doc |-> "none"]
    /\ chunks = [d \in Doc |-> {}]
    /\ storage = 0
    /\ files = {}
    /\ queue = {}
    /\ upload = [d \in Doc |-> "new"]
    /\ wpc = [w \in Worker |-> "idle"]
    /\ job = [w \in Worker |-> None]
    /\ stale = [w \in Worker |-> {}]
    /\ found = {}
    /\ dpc = [x \in Deleter |-> "idle"]
    /\ target = [x \in Deleter |-> None]
    /\ seen = [x \in Deleter |-> "none"]
    /\ faults = 0

Fail(what) ==
    /\ what \in Failures
    /\ faults < MaxFaults
    /\ faults' = faults + 1

\* Mutant: the status is upserted.
SetStatusUpsert(d, s) == status' = [status EXCEPT ![d] = s]

\* UPDATE documents SET status = s WHERE id = d.
SetStatus(d, s) ==
    status' = [status EXCEPT ![d] = IF @ = "none" THEN @ ELSE s]

-----------------------------------------------------------------------------
(* The upload request of a document.                                       *)

UploadAt(d, from, to) ==
    /\ upload[d] = from
    /\ upload' = [upload EXCEPT ![d] = to]

\* The declared size is checked before anything is written.
CheckStorage(d) ==
    /\ UploadAt(d, "new", IF storage + 1 > MaxStorage THEN "refused" ELSE "checked")
    /\ UNCHANGED <<tables, files, queue, workers, deletes, faults>>

\* Copying the body: an exception removes the partial file.
WriteFile(d) ==
    /\ \/ UploadAt(d, "checked", "written") /\ files' = files \cup {d}
       \/ UploadAt(d, "checked", "refused") /\ UNCHANGED files
    /\ UNCHANGED <<tables, queue, workers, deletes, faults>>

InsertDocument(d) ==
    /\ UploadAt(d, "written", "inserted")
    /\ status' = [status EXCEPT ![d] = "pending"]
    /\ UNCHANGED <<chunks, storage, files, queue, workers, deletes, faults>>

SendTask(d) ==
    /\ UploadAt(d, "inserted", "accepted")
    /\ queue' = queue \cup {[doc |-> d, try |-> 0]}
    /\ UNCHANGED <<tables, files, workers, deletes, faults>>

\* The INSERT or send_task raises, or the API process dies: nothing is undone.
CutOff(d) ==
    /\ UploadAt(d, "written", "lost") \/ UploadAt(d, "inserted", "stuck")
    /\ Fail("cutoff")
    /\ UNCHANGED <<tables, files, queue, workers, deletes>>

Upload(d) == CheckStorage(d) \/ WriteFile(d) \/ InsertDocument(d) \/ SendTask(d)

-----------------------------------------------------------------------------
(* A worker running ingest_document.                                       *)

WorkerAt(w, from, to) ==
    /\ wpc[w] = from
    /\ wpc' = [wpc EXCEPT ![w] = to]

\* The worker's task is over and its message is acknowledged or returned.
Idle(w) ==
    /\ wpc' = [wpc EXCEPT ![w] = "idle"]
    /\ job' = [job EXCEPT ![w] = None]
    /\ stale' = [stale EXCEPT ![w] = {}]
    /\ found' = found \ {w}

Take(w) ==
    /\ WorkerAt(w, "idle", "start")
    /\ \E m \in queue : job' = [job EXCEPT ![w] = m] /\ queue' = queue \ {m}
    /\ UNCHANGED <<tables, files, upload, stale, found, deletes, faults>>

MarkProcessing(w) ==
    /\ WorkerAt(w, "start", "load")
    /\ SetStatus(job[w].doc, "processing")
    /\ UNCHANGED <<chunks, storage, files, queue, upload, job, stale, found,
                   deletes, faults>>

\* Read the file, extract text, chunk it and embed the chunks.
Load(w) ==
    /\ job[w] # None
    /\ WorkerAt(w, "load", IF job[w].doc \in files THEN "replace" ELSE "except")
    /\ UNCHANGED <<tables, files, queue, upload, job, stale, found, deletes,
                   faults>>

\* Mutant: the old chunks are deleted outside the transaction.
DeleteChunksAtOnce(w) ==
    /\ WorkerAt(w, "replace", "insert")
    /\ chunks' = [chunks EXCEPT ![job[w].doc] = {}]
    /\ UNCHANGED <<status, storage, files, queue, upload, job, stale, found,
                   deletes, faults>>

\* One READ COMMITTED transaction.  Its DELETE sees the chunks committed so
\* far; its INSERTs fail on the foreign key when the document is gone.
DeleteChunks(w) ==
    /\ WorkerAt(w, "replace", "insert")
    /\ stale' = [stale EXCEPT ![w] = chunks[job[w].doc]]
    /\ UNCHANGED <<tables, files, queue, upload, job, found, deletes, faults>>

\* Mutant: the chunks of an earlier attempt are kept.
InsertMoreChunks(w) ==
    LET d == job[w].doc
    IN /\ WorkerAt(w, "insert", IF status[d] = "none" THEN "except" ELSE "fetch")
       /\ chunks' = [chunks EXCEPT ![d] = IF status[d] = "none" THEN @ ELSE @ \cup {w}]
       /\ UNCHANGED <<status, storage, files, queue, upload, job, stale, found,
                      deletes, faults>>

InsertChunks(w) ==
    LET d == job[w].doc
    IN /\ WorkerAt(w, "insert", IF status[d] = "none" THEN "except" ELSE "fetch")
       /\ chunks' = [chunks EXCEPT ![d] =
                        IF status[d] = "none" THEN @ ELSE (@ \ stale[w]) \cup {w}]
       /\ UNCHANGED <<status, storage, files, queue, upload, job, stale, found,
                      deletes, faults>>

FetchDocument(w) ==
    /\ WorkerAt(w, "fetch", "count")
    /\ found' = IF status[job[w].doc] # "none" THEN found \cup {w} ELSE found \ {w}
    /\ UNCHANGED <<tables, files, queue, upload, job, stale, deletes, faults>>

CountStorage(w) ==
    /\ WorkerAt(w, "count", "complete")
    /\ storage' = IF w \in found THEN storage + 1 ELSE storage
    /\ UNCHANGED <<status, chunks, files, queue, upload, job, stale, found,
                   deletes, faults>>

MarkCompleted(w) ==
    /\ WorkerAt(w, "complete", "send")
    /\ SetStatus(job[w].doc, "completed")
    /\ UNCHANGED <<chunks, storage, files, queue, upload, job, stale, found,
                   deletes, faults>>

\* Announce the document and queue the knowledge-graph task.
SendGraphTask(w) ==
    /\ WorkerAt(w, "send", "cleanup")
    /\ UNCHANGED <<tables, files, queue, upload, job, stale, found, deletes,
                   faults>>

\* Any statement of _ingest_async raises.
StepRaises(w) ==
    /\ \E from \in Raising : WorkerAt(w, from, "except")
    /\ UNCHANGED <<tables, files, queue, upload, job, stale, found, deletes,
                   faults>>

\* Mutant: one attempt too many.
RetryOnceMore(w) ==
    /\ job[w] # None
    /\ IF job[w].try <= MaxRetries
       THEN WorkerAt(w, "except", "ack")
            /\ queue' = queue \cup {[job[w] EXCEPT !.try = @ + 1]}
       ELSE WorkerAt(w, "except", "giveup") /\ UNCHANGED queue
    /\ UNCHANGED <<tables, files, upload, job, stale, found, deletes, faults>>

\* Mutant: the retry is not published.
RetryForgotten(w) ==
    /\ job[w] # None
    /\ WorkerAt(w, "except", IF job[w].try < MaxRetries THEN "ack" ELSE "giveup")
    /\ UNCHANGED <<tables, files, queue, upload, job, stale, found, deletes, faults>>

\* Mutant: the file is removed before the retry.
RetryWithoutFile(w) ==
    /\ job[w] # None
    /\ IF job[w].try < MaxRetries
       THEN WorkerAt(w, "except", "cleanup")
            /\ queue' = queue \cup {[job[w] EXCEPT !.try = @ + 1]}
       ELSE WorkerAt(w, "except", "giveup") /\ UNCHANGED queue
    /\ UNCHANGED <<tables, files, upload, job, stale, found, deletes, faults>>

\* Keep the file and publish the retry, or give the document up.
RetryOrGiveUp(w) ==
    /\ job[w] # None
    /\ IF job[w].try < MaxRetries
       THEN WorkerAt(w, "except", "ack")
            /\ queue' = queue \cup {[job[w] EXCEPT !.try = @ + 1]}
       ELSE WorkerAt(w, "except", "giveup") /\ UNCHANGED queue
    /\ UNCHANGED <<tables, files, upload, job, stale, found, deletes, faults>>

\* Mutant: the file of a failed document is kept.
MarkFailedKeepFile(w) ==
    /\ WorkerAt(w, "giveup", "ack")
    /\ SetStatus(job[w].doc, "failed")
    /\ UNCHANGED <<chunks, storage, files, queue, upload, job, stale, found,
                   deletes, faults>>

MarkFailed(w) ==
    /\ WorkerAt(w, "giveup", "cleanup")
    /\ SetStatus(job[w].doc, "failed")
    /\ UNCHANGED <<chunks, storage, files, queue, upload, job, stale, found,
                   deletes, faults>>

\* Publishing the retry or marking the failure raises in turn: the task ends
\* there, and its message with it.
HandlerRaises(w) ==
    /\ \E from \in {"except", "giveup"} : WorkerAt(w, from, "ack")
    /\ Fail("handler")
    /\ UNCHANGED <<tables, files, queue, upload, job, stale, found, deletes>>

RemoveFile(w) ==
    /\ WorkerAt(w, "cleanup", "ack")
    /\ files' = files \ {job[w].doc}
    /\ UNCHANGED <<tables, queue, upload, job, stale, found, deletes, faults>>

\* task_acks_late: the message leaves the broker when the task has ended.
Acknowledge(w) ==
    /\ wpc[w] = "ack"
    /\ Idle(w)
    /\ UNCHANGED <<tables, files, queue, upload, deletes, faults>>

\* The child process is killed: Celery acknowledges the lost task.
Kill(w) ==
    /\ wpc[w] # "idle"
    /\ Fail("kill")
    /\ Idle(w)
    /\ UNCHANGED <<tables, files, queue, upload, deletes>>

\* The worker's container dies: the broker delivers the message again.
Crash(w) ==
    /\ wpc[w] # "idle"
    /\ Fail("crash")
    /\ queue' = queue \cup {job[w]}
    /\ Idle(w)
    /\ UNCHANGED <<tables, files, upload, deletes>>

\* The visibility timeout of the Redis broker passes while the task runs.
Redeliver(w) ==
    /\ wpc[w] # "idle"
    /\ Fail("redeliver")
    /\ queue' = queue \cup {job[w]}
    /\ UNCHANGED <<tables, files, upload, workers, deletes>>

Work(w) ==
    \/ Take(w)
    \/ MarkProcessing(w)
    \/ Load(w)
    \/ DeleteChunks(w)
    \/ InsertChunks(w)
    \/ FetchDocument(w)
    \/ CountStorage(w)
    \/ MarkCompleted(w)
    \/ SendGraphTask(w)
    \/ RetryOrGiveUp(w)
    \/ MarkFailed(w)
    \/ RemoveFile(w)
    \/ Acknowledge(w)

-----------------------------------------------------------------------------
(* A delete request.  Its permission checks read nothing that changes.     *)

DeleterAt(x, from, to) ==
    /\ dpc[x] = from
    /\ dpc' = [dpc EXCEPT ![x] = to]

\* Deleting what is not there is refused and changes nothing.
ReadDocument(x) ==
    /\ DeleterAt(x, "idle", "delete")
    /\ \E d \in Doc :
          /\ status[d] # "none"
          /\ target' = [target EXCEPT ![x] = d]
          /\ seen' = [seen EXCEPT ![x] = status[d]]
    /\ UNCHANGED <<tables, files, queue, upload, workers, faults>>

\* Mutant: storage is undone whatever the status was.
DeleteAndUncount(x) ==
    /\ DeleterAt(x, "delete", "uncount")
    /\ status' = [status EXCEPT ![target[x]] = "none"]
    /\ chunks' = [chunks EXCEPT ![target[x]] = {}]
    /\ UNCHANGED <<storage, files, queue, upload, workers, target, seen, faults>>

\* The chunks go with their document.
DeleteDocument(x) ==
    /\ DeleterAt(x, "delete", IF seen[x] = "completed" THEN "uncount" ELSE "done")
    /\ status' = [status EXCEPT ![target[x]] = "none"]
    /\ chunks' = [chunks EXCEPT ![target[x]] = {}]
    /\ UNCHANGED <<storage, files, queue, upload, workers, target, seen, faults>>

UncountStorage(x) ==
    /\ DeleterAt(x, "uncount", "done")
    /\ storage' = IF storage > 0 THEN storage - 1 ELSE 0
    /\ UNCHANGED <<status, chunks, files, queue, upload, workers, target, seen,
                   faults>>

\* The counter's UPDATE raises, or the API process dies before it.
UncountLost(x) ==
    /\ DeleterAt(x, "uncount", "done")
    /\ Fail("uncount")
    /\ UNCHANGED <<tables, files, queue, upload, workers, target, seen>>

Delete(x) == ReadDocument(x) \/ DeleteDocument(x) \/ UncountStorage(x)

-----------------------------------------------------------------------------
Next ==
    \/ \E d \in Doc : Upload(d) \/ CutOff(d)
    \/ \E w \in Worker : \/ Work(w) \/ StepRaises(w) \/ HandlerRaises(w)
                         \/ Kill(w) \/ Crash(w) \/ Redeliver(w)
    \/ \E x \in Deleter : Delete(x) \/ UncountLost(x)

Spec == Init /\ [][Next]_vars

\* The worker pool drains the queue and every request that arrived is served to
\* its end.
Fairness ==
    /\ \A d \in Doc : WF_vars(upload[d] # "new" /\ Upload(d))
    /\ \A w \in Worker : WF_vars(Work(w))
    /\ \A x \in Deleter : WF_vars(dpc[x] # "idle" /\ Delete(x))

FairSpec == Spec /\ Fairness

-----------------------------------------------------------------------------
(* Properties.                                                             *)

TypeOK ==
    /\ status \in [Doc -> Status]
    /\ chunks \in [Doc -> SUBSET Worker]
    /\ storage \in Nat
    /\ files \subseteq Doc
    /\ queue \subseteq Message
    /\ upload \in [Doc -> {"new", "checked", "written", "inserted", "accepted",
                           "refused", "lost", "stuck"}]
    /\ wpc \in [Worker -> Stage \cup {"idle", "except", "giveup", "cleanup", "ack"}]
    /\ job \in [Worker -> Message \cup {None}]
    /\ \A w \in Worker : wpc[w] # "idle" <=> job[w] # None
    /\ stale \in [Worker -> SUBSET Worker]
    /\ found \subseteq Worker
    /\ dpc \in [Deleter -> {"idle", "delete", "uncount", "done"}]
    /\ target \in [Deleter -> Doc \cup {None}]
    /\ seen \in [Deleter -> Status]
    /\ faults \in 0..MaxFaults

Completed == {d \in Doc : status[d] = "completed"}

Held(d)     == {w \in Worker : job[w] # None /\ job[w].doc = d}
Finishing   == {"cleanup", "ack"}
Queued(d)   == \E m \in queue : m.doc = d
Pending(d)  == Queued(d) \/ \E w \in Held(d) : wpc[w] \notin Finishing

\* Nothing is under way for the counter to be catching up with.
Settled ==
    /\ \A w \in Worker : wpc[w] \in {"idle", "start"} \cup Finishing
    /\ \A x \in Deleter : dpc[x] # "uncount"

\* A completed document is searchable: whatever retries, redeliveries, crashes
\* and deletions interleave, it has committed chunks.
CompletedHasChunks == \A d \in Completed : chunks[d] # {}

\* A document's chunks come from one run of its task: a retry replaces what
\* an earlier attempt wrote.
OneSetOfChunks == \A d \in Doc : Cardinality(chunks[d]) <= 1

\* An attempt still to come finds the uploaded file.
FileKeptForRetry == \A d \in Doc : Pending(d) => d \in files

\* Once nothing is under way the counter is the size of the completed
\* documents: retries count a document once, and failed ones not at all.
StorageExact == Settled => storage = Cardinality(Completed)

\* Two deletes that both read a completed document both take it off the counter,
\* although one of them finds no row left to delete.
Repeats ==
    LET undone == {x \in Deleter : seen[x] = "completed" /\ dpc[x] = "done"}
    IN  Cardinality(undone) - Cardinality({target[x] : x \in undone})

\* Short of such repeats, no order of retries, failures and deletes takes from
\* the counter what another document still uses.
NeverUndercounts == storage + Repeats >= Cardinality(Completed)

\* Short of a crash or a failing hand-over to the graph task, ingestion
\* implements DocumentLifecycle: a completed document is not taken back by a
\* later attempt, a failed one is not revived, a deleted one stays deleted.
Phase ==
    [d \in Doc |->
        CASE status[d] \in {"pending", "processing"} -> "waiting"
          [] status[d] = "completed" -> "searchable"
          [] status[d] = "failed" -> "failed"
          [] status[d] = "none" ->
                IF upload[d] \in {"inserted", "accepted", "stuck"}
                THEN "deleted" ELSE "absent"]

DL == INSTANCE DocumentLifecycle WITH phase <- Phase

ImplementsLifecycle == DL!Spec

\* Every accepted document ends completed, failed or deleted, and stays so.
EventuallyIngested ==
    \A d \in Doc : upload[d] = "accepted"
                      ~> [](status[d] \in {"completed", "failed", "none"})

\* Every file written is eventually removed.
EventuallyCleaned == \A d \in Doc : d \in files ~> d \notin files
=============================================================================
