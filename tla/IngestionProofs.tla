--------------------------- MODULE IngestionProofs ---------------------------
(***************************************************************************)
(* Machine-checked proofs about Ingestion, for any documents, workers and  *)
(* delete requests, any number of retries and failures: what holds under   *)
(* every failure first, then what needs each message to be delivered once, *)
(* and the refinement of DocumentLifecycle last.                           *)
(***************************************************************************)
EXTENDS Ingestion, FiniteSetTheorems, TLAPS

\* The upload of a document has inserted its row.
Inserted(d) == upload[d] \in {"inserted", "accepted", "stuck"}

(* Rows, messages and deletions exist only of documents that were inserted, *)
(* so that a row that is gone is never inserted after its deletion.        *)
Sent ==
    /\ \A d \in Doc : status[d] # "none" => Inserted(d)
    /\ \A m \in queue : upload[m.doc] = "accepted"
    /\ \A w \in Worker : job[w] # None => upload[job[w].doc] = "accepted"
    /\ \A x \in Deleter :
          dpc[x] # "idle" => target[x] \in Doc /\ Inserted(target[x])

(* A worker past its INSERTs left the document chunks, unless it was       *)
(* deleted since.                                                          *)
Chunked ==
    \A w \in Worker :
        wpc[w] \in {"fetch", "count", "complete"} =>
            status[job[w].doc] = "none" \/ chunks[job[w].doc] # {}

(* A worker that counts a document has read its row back, unless it is gone. *)
Located ==
    \A w \in Worker :
        wpc[w] \in {"count", "complete"} /\ status[job[w].doc] # "none" => w \in found

(* What a delete request has deleted stays deleted, and it is taken off the *)
(* counter only where it was read completed.                               *)
Gone ==
    \A x \in Deleter :
        /\ dpc[x] \in {"uncount", "done"} => status[target[x]] = "none"
        /\ dpc[x] = "uncount" => seen[x] = "completed"

(* The documents the counter has to cover: completed, counted and about to *)
(* be completed, or read completed by a delete request that has yet to take *)
(* them off; until the first one has done so.                              *)
Undone   == {x \in Deleter : seen[x] = "completed" /\ dpc[x] = "done"}
Targets  == {target[x] : x \in Undone}
Counting == {d \in Doc : \E w \in Worker : /\ wpc[w] = "complete" /\ w \in found
                                            /\ job[w].doc = d /\ status[d] # "none"}
Deleting == {d \in Doc : \E x \in Deleter : /\ target[x] = d /\ seen[x] = "completed"
                                             /\ dpc[x] \in {"delete", "uncount"}}
Owed     == (Completed \cup Counting \cup Deleting) \ Targets

Covered == storage + Cardinality(Undone) - Cardinality(Targets) >= Cardinality(Owed)

(* What holds whatever fails.                                              *)
IngestionInv ==
    /\ TypeOK
    /\ Sent
    /\ Chunked
    /\ CompletedHasChunks
    /\ Located
    /\ Gone
    /\ Covered

-----------------------------------------------------------------------------
(* Messages that are delivered once.                                       *)

DeliveredOnce == Failures \cap {"crash", "redeliver"} = {}

\* A worker that has not handed its document on.
Active(w) == wpc[w] \notin {"idle", "ack"}

(* A document has one message, or one worker at work on it, at most.       *)
Single ==
    /\ \A m, n \in queue : m.doc = n.doc => m = n
    /\ \A w \in Worker : Active(w) => \A m \in queue : m.doc # job[w].doc
    /\ \A v, w \in Worker : Active(v) /\ Active(w) /\ job[v].doc = job[w].doc => v = w

(* What a worker is about to replace is all there is, and there is one     *)
(* worker's set of chunks at most.                                         *)
Replaced ==
    /\ \A w \in Worker : wpc[w] = "insert" => chunks[job[w].doc] \subseteq stale[w]
    /\ \A d \in Doc : \A v, w \in chunks[d] : v = w

(* The file stays from the moment it is written to the end of the last     *)
(* attempt.                                                                *)
FilesKept ==
    /\ \A d \in Doc : upload[d] \in {"written", "inserted"} => d \in files
    /\ \A m \in queue : m.doc \in files
    /\ \A w \in Worker : wpc[w] \notin {"idle"} \cup Finishing => job[w].doc \in files

OnceInv ==
    /\ IngestionInv
    /\ Single
    /\ Replaced
    /\ FilesKept

(* Handing over to the graph task does not raise.                          *)
HandedOver == "send" \notin Raising

(* As long as an attempt may come, or has yet to finish, the document is   *)
(* not finished.                                                           *)
Undecided == {"none", "pending", "processing"}

Unfinished ==
    /\ \A d \in Doc : upload[d] = "inserted" => status[d] \in Undecided
    /\ \A m \in queue : status[m.doc] \in Undecided
    /\ \A w \in Worker :
          wpc[w] \notin {"idle", "send", "cleanup", "ack"} => status[job[w].doc] \in Undecided

-----------------------------------------------------------------------------

\* Every state is well typed.
LEMMA TypeStep ==
    ASSUME TypeOK, [Next]_vars
    PROVE  TypeOK'
  <1> USE IngestionAssumption
      DEF TypeOK, Status, Stage, Message, UploadAt, WorkerAt, DeleterAt, Fail,
          SetStatus, Idle,
          tables, workers, deletes
  <1>1. ASSUME NEW d \in Doc, CheckStorage(d) PROVE TypeOK'
    BY <1>1 DEF CheckStorage
  <1>2. ASSUME NEW d \in Doc, WriteFile(d) PROVE TypeOK'
    BY <1>2 DEF WriteFile
  <1>3. ASSUME NEW d \in Doc, InsertDocument(d) PROVE TypeOK'
    BY <1>3 DEF InsertDocument
  <1>4. ASSUME NEW d \in Doc, SendTask(d) PROVE TypeOK'
    BY <1>4 DEF SendTask
  <1>5. ASSUME NEW d \in Doc, CutOff(d) PROVE TypeOK'
    BY <1>5 DEF CutOff
  <1>6. ASSUME NEW w \in Worker, Take(w) PROVE TypeOK'
    BY <1>6 DEF Take
  <1>7. ASSUME NEW w \in Worker, MarkProcessing(w) PROVE TypeOK'
    BY <1>7 DEF MarkProcessing
  <1>8. ASSUME NEW w \in Worker, Load(w) PROVE TypeOK'
    BY <1>8 DEF Load
  <1>9. ASSUME NEW w \in Worker, DeleteChunks(w) PROVE TypeOK'
    BY <1>9 DEF DeleteChunks
  <1>10. ASSUME NEW w \in Worker, InsertChunks(w) PROVE TypeOK'
    BY <1>10 DEF InsertChunks
  <1>11. ASSUME NEW w \in Worker, FetchDocument(w) PROVE TypeOK'
    BY <1>11 DEF FetchDocument
  <1>12. ASSUME NEW w \in Worker, CountStorage(w) PROVE TypeOK'
    BY <1>12 DEF CountStorage
  <1>13. ASSUME NEW w \in Worker, MarkCompleted(w) PROVE TypeOK'
    BY <1>13 DEF MarkCompleted
  <1>14. ASSUME NEW w \in Worker, SendGraphTask(w) PROVE TypeOK'
    BY <1>14 DEF SendGraphTask
  <1>15. ASSUME NEW w \in Worker, RetryOrGiveUp(w) PROVE TypeOK'
    BY <1>15 DEF RetryOrGiveUp
  <1>16. ASSUME NEW w \in Worker, MarkFailed(w) PROVE TypeOK'
    BY <1>16 DEF MarkFailed
  <1>17. ASSUME NEW w \in Worker, RemoveFile(w) PROVE TypeOK'
    BY <1>17 DEF RemoveFile
  <1>18. ASSUME NEW w \in Worker, Acknowledge(w) PROVE TypeOK'
    BY <1>18 DEF Acknowledge
  <1>19. ASSUME NEW w \in Worker, StepRaises(w) PROVE TypeOK'
    BY <1>19 DEF StepRaises
  <1>20. ASSUME NEW w \in Worker, HandlerRaises(w) PROVE TypeOK'
    BY <1>20 DEF HandlerRaises
  <1>21. ASSUME NEW w \in Worker, Kill(w) PROVE TypeOK'
    BY <1>21 DEF Kill
  <1>22. ASSUME NEW w \in Worker, Crash(w) PROVE TypeOK'
    BY <1>22 DEF Crash
  <1>23. ASSUME NEW w \in Worker, Redeliver(w) PROVE TypeOK'
    BY <1>23 DEF Redeliver
  <1>24. ASSUME NEW x \in Deleter, ReadDocument(x) PROVE TypeOK'
    BY <1>24 DEF ReadDocument
  <1>25. ASSUME NEW x \in Deleter, DeleteDocument(x) PROVE TypeOK'
    BY <1>25 DEF DeleteDocument
  <1>26. ASSUME NEW x \in Deleter, UncountStorage(x) PROVE TypeOK'
    BY <1>26 DEF UncountStorage
  <1>27. ASSUME NEW x \in Deleter, UncountLost(x) PROVE TypeOK'
    BY <1>27 DEF UncountLost
  <1>28. CASE UNCHANGED vars
    BY <1>28 DEF vars
  <1> QED
    BY <1>1, <1>2, <1>3, <1>4, <1>5, <1>6, <1>7, <1>8, <1>9, <1>10, <1>11, <1>12,
       <1>13, <1>14, <1>15, <1>16, <1>17, <1>18, <1>19, <1>20, <1>21, <1>22, <1>23,
       <1>24, <1>25, <1>26, <1>27, <1>28 DEF Next, Upload, Work, Delete

\* Nothing is ever under way for a document whose upload did not get that far.
LEMMA SentStep ==
    ASSUME TypeOK, Sent, [Next]_vars
    PROVE  Sent'
  <1> USE IngestionAssumption
      DEF Sent, TypeOK, Inserted, Message, UploadAt, WorkerAt, DeleterAt, Fail,
          SetStatus, Idle, tables, workers, deletes
  <1>1. ASSUME NEW d \in Doc,
                CheckStorage(d) \/ WriteFile(d) \/ CutOff(d)
         PROVE  Sent'
    BY <1>1 DEF CheckStorage, WriteFile, CutOff
  <1>2. ASSUME NEW d \in Doc, InsertDocument(d) PROVE Sent'
    BY <1>2 DEF InsertDocument
  <1>3. ASSUME NEW d \in Doc, SendTask(d) PROVE Sent'
    BY <1>3 DEF SendTask
  <1>4. ASSUME NEW w \in Worker, Take(w) PROVE Sent'
    BY <1>4 DEF Take
  <1>5. ASSUME NEW w \in Worker,
                MarkProcessing(w) \/ MarkCompleted(w) \/ MarkFailed(w)
         PROVE  Sent'
    BY <1>5 DEF MarkProcessing, MarkCompleted, MarkFailed
  <1>6. ASSUME NEW w \in Worker,
                Load(w) \/ DeleteChunks(w) \/ InsertChunks(w) \/
                FetchDocument(w) \/ CountStorage(w) \/ SendGraphTask(w) \/
                RemoveFile(w) \/ StepRaises(w) \/ HandlerRaises(w)
         PROVE  Sent'
    BY <1>6
    DEF Load, DeleteChunks, InsertChunks, FetchDocument, CountStorage,
        SendGraphTask, RemoveFile, StepRaises, HandlerRaises
  <1>7. ASSUME NEW w \in Worker, RetryOrGiveUp(w) PROVE Sent'
    BY <1>7 DEF RetryOrGiveUp
  <1>8. ASSUME NEW w \in Worker,
                Acknowledge(w) \/ Kill(w)
         PROVE  Sent'
    BY <1>8 DEF Acknowledge, Kill
  <1>9. ASSUME NEW w \in Worker,
                Crash(w) \/ Redeliver(w)
         PROVE  Sent'
    BY <1>9 DEF Crash, Redeliver
  <1>10. ASSUME NEW x \in Deleter, ReadDocument(x) PROVE Sent'
    BY <1>10 DEF ReadDocument
  <1>11. ASSUME NEW x \in Deleter, DeleteDocument(x) PROVE Sent'
    BY <1>11 DEF DeleteDocument
  <1>12. ASSUME NEW x \in Deleter,
                UncountStorage(x) \/ UncountLost(x)
         PROVE  Sent'
    BY <1>12 DEF UncountStorage, UncountLost
  <1>13. CASE UNCHANGED vars
    BY <1>13 DEF vars
  <1> QED
    BY <1>1, <1>2, <1>3, <1>4, <1>5, <1>6, <1>7, <1>8, <1>9, <1>10, <1>11,
       <1>12, <1>13 DEF Next, Upload, Work, Delete

\* No worker takes another's chunks away without leaving its own.
LEMMA ChunkedStep ==
    ASSUME TypeOK, Sent, Chunked, CompletedHasChunks, [Next]_vars
    PROVE  Chunked' /\ CompletedHasChunks'
  <1> USE IngestionAssumption
      DEF Chunked, CompletedHasChunks, Completed, Sent, TypeOK, Message, UploadAt,
          WorkerAt, DeleterAt, Fail,
          SetStatus, Idle, tables, workers, deletes
  <1>1. ASSUME NEW d \in Doc,
                CheckStorage(d) \/ WriteFile(d) \/ SendTask(d) \/ CutOff(d)
         PROVE  (Chunked /\ CompletedHasChunks)'
    BY <1>1 DEF CheckStorage, WriteFile, SendTask, CutOff
  <1>2. ASSUME NEW d \in Doc, InsertDocument(d) PROVE (Chunked /\ CompletedHasChunks)'
    BY <1>2 DEF InsertDocument
  <1>3. ASSUME NEW w \in Worker, Take(w) PROVE (Chunked /\ CompletedHasChunks)'
    BY <1>3 DEF Take
  <1>4. ASSUME NEW w \in Worker,
                MarkProcessing(w) \/ MarkFailed(w)
         PROVE  (Chunked /\ CompletedHasChunks)'
    BY <1>4 DEF MarkProcessing, MarkFailed
  <1>5. ASSUME NEW w \in Worker, MarkCompleted(w) PROVE (Chunked /\ CompletedHasChunks)'
    BY <1>5 DEF MarkCompleted
  <1>6. ASSUME NEW w \in Worker, InsertChunks(w) PROVE (Chunked /\ CompletedHasChunks)'
    BY <1>6 DEF InsertChunks
  <1>7. ASSUME NEW w \in Worker,
                Load(w) \/ DeleteChunks(w) \/ FetchDocument(w) \/
                CountStorage(w) \/ SendGraphTask(w) \/ RemoveFile(w) \/
                StepRaises(w) \/ HandlerRaises(w)
         PROVE  (Chunked /\ CompletedHasChunks)'
    BY <1>7
    DEF Load, DeleteChunks, FetchDocument, CountStorage, SendGraphTask,
        RemoveFile, StepRaises, HandlerRaises
  <1>8. ASSUME NEW w \in Worker, RetryOrGiveUp(w) PROVE (Chunked /\ CompletedHasChunks)'
    BY <1>8 DEF RetryOrGiveUp
  <1>9. ASSUME NEW w \in Worker,
                Acknowledge(w) \/ Kill(w) \/ Crash(w) \/ Redeliver(w)
         PROVE  (Chunked /\ CompletedHasChunks)'
    BY <1>9 DEF Acknowledge, Kill, Crash, Redeliver
  <1>10. ASSUME NEW x \in Deleter,
                ReadDocument(x) \/ UncountStorage(x) \/ UncountLost(x)
         PROVE  (Chunked /\ CompletedHasChunks)'
    BY <1>10 DEF ReadDocument, UncountStorage, UncountLost
  <1>11. ASSUME NEW x \in Deleter, DeleteDocument(x) PROVE (Chunked /\ CompletedHasChunks)'
    BY <1>11 DEF DeleteDocument
  <1>12. CASE UNCHANGED vars
    BY <1>12 DEF vars
  <1> QED
    BY <1>1, <1>2, <1>3, <1>4, <1>5, <1>6, <1>7, <1>8, <1>9, <1>10, <1>11,
       <1>12 DEF Next, Upload, Work, Delete

\* A row read back is there until it is deleted, for good.
LEMMA LocatedStep ==
    ASSUME TypeOK, Sent, Located, [Next]_vars
    PROVE  Located'
  <1> USE IngestionAssumption
      DEF Located, Sent, Inserted, TypeOK, Message, UploadAt, WorkerAt, DeleterAt, Fail,
          SetStatus, Idle, tables, workers, deletes
  <1>1. ASSUME NEW d \in Doc,
                CheckStorage(d) \/ WriteFile(d) \/ SendTask(d) \/ CutOff(d)
         PROVE  Located'
    BY <1>1 DEF CheckStorage, WriteFile, SendTask, CutOff
  <1>2. ASSUME NEW d \in Doc, InsertDocument(d) PROVE Located'
    BY <1>2 DEF InsertDocument
  <1>3. ASSUME NEW w \in Worker, Take(w) PROVE Located'
    BY <1>3 DEF Take
  <1>4. ASSUME NEW w \in Worker,
                MarkProcessing(w) \/ MarkFailed(w) \/ MarkCompleted(w)
         PROVE  Located'
    BY <1>4 DEF MarkProcessing, MarkFailed, MarkCompleted
  <1>5. ASSUME NEW w \in Worker, FetchDocument(w) PROVE Located'
    BY <1>5 DEF FetchDocument
  <1>6. ASSUME NEW w \in Worker, CountStorage(w) PROVE Located'
    BY <1>6 DEF CountStorage
  <1>7. ASSUME NEW w \in Worker,
                Load(w) \/ DeleteChunks(w) \/ InsertChunks(w) \/
                SendGraphTask(w) \/ RemoveFile(w) \/ StepRaises(w) \/
                HandlerRaises(w)
         PROVE  Located'
    BY <1>7
    DEF Load, DeleteChunks, InsertChunks, SendGraphTask, RemoveFile,
        StepRaises, HandlerRaises
  <1>8. ASSUME NEW w \in Worker, RetryOrGiveUp(w) PROVE Located'
    BY <1>8 DEF RetryOrGiveUp
  <1>9. ASSUME NEW w \in Worker,
                Acknowledge(w) \/ Kill(w) \/ Crash(w) \/ Redeliver(w)
         PROVE  Located'
    BY <1>9 DEF Acknowledge, Kill, Crash, Redeliver
  <1>10. ASSUME NEW x \in Deleter,
                ReadDocument(x) \/ UncountStorage(x) \/ UncountLost(x)
         PROVE  Located'
    BY <1>10 DEF ReadDocument, UncountStorage, UncountLost
  <1>11. ASSUME NEW x \in Deleter, DeleteDocument(x) PROVE Located'
    BY <1>11 DEF DeleteDocument
  <1>12. CASE UNCHANGED vars
    BY <1>12 DEF vars
  <1> QED
    BY <1>1, <1>2, <1>3, <1>4, <1>5, <1>6, <1>7, <1>8, <1>9, <1>10, <1>11,
       <1>12 DEF Next, Upload, Work, Delete

\* A deletion is final.
LEMMA GoneStep ==
    ASSUME TypeOK, Sent, Gone, [Next]_vars
    PROVE  Gone'
  <1> USE IngestionAssumption
      DEF Gone, Sent, Inserted, TypeOK, Message, UploadAt, WorkerAt, DeleterAt, Fail,
          SetStatus, Idle, tables, workers, deletes
  <1>1. ASSUME NEW d \in Doc,
                CheckStorage(d) \/ WriteFile(d) \/ SendTask(d) \/ CutOff(d)
         PROVE  Gone'
    BY <1>1 DEF CheckStorage, WriteFile, SendTask, CutOff
  <1>2. ASSUME NEW d \in Doc, InsertDocument(d) PROVE Gone'
    BY <1>2 DEF InsertDocument
  <1>3. ASSUME NEW w \in Worker, Take(w) PROVE Gone'
    BY <1>3 DEF Take
  <1>4. ASSUME NEW w \in Worker,
                MarkProcessing(w) \/ MarkFailed(w) \/ MarkCompleted(w)
         PROVE  Gone'
    BY <1>4 DEF MarkProcessing, MarkFailed, MarkCompleted
  <1>5. ASSUME NEW w \in Worker,
                Load(w) \/ DeleteChunks(w) \/ InsertChunks(w) \/
                FetchDocument(w) \/ CountStorage(w) \/ SendGraphTask(w) \/
                RemoveFile(w) \/ StepRaises(w) \/ HandlerRaises(w)
         PROVE  Gone'
    BY <1>5
    DEF Load, DeleteChunks, InsertChunks, FetchDocument, CountStorage,
        SendGraphTask, RemoveFile, StepRaises, HandlerRaises
  <1>6. ASSUME NEW w \in Worker, RetryOrGiveUp(w) PROVE Gone'
    BY <1>6 DEF RetryOrGiveUp
  <1>7. ASSUME NEW w \in Worker,
                Acknowledge(w) \/ Kill(w) \/ Crash(w) \/ Redeliver(w)
         PROVE  Gone'
    BY <1>7 DEF Acknowledge, Kill, Crash, Redeliver
  <1>8. ASSUME NEW x \in Deleter, ReadDocument(x) PROVE Gone'
    BY <1>8 DEF ReadDocument
  <1>9. ASSUME NEW x \in Deleter, DeleteDocument(x) PROVE Gone'
    BY <1>9 DEF DeleteDocument
  <1>10. ASSUME NEW x \in Deleter,
                UncountStorage(x) \/ UncountLost(x)
         PROVE  Gone'
    BY <1>10 DEF UncountStorage, UncountLost
  <1>11. CASE UNCHANGED vars
    BY <1>11 DEF vars
  <1> QED
    BY <1>1, <1>2, <1>3, <1>4, <1>5, <1>6, <1>7, <1>8, <1>9, <1>10, <1>11
       DEF Next, Upload, Work, Delete

-----------------------------------------------------------------------------
(* The storage counter.                                                    *)

\* The sets counted are finite.
LEMMA CountedFinite ==
    ASSUME TypeOK, Sent
    PROVE  /\ IsFiniteSet(Owed) /\ Cardinality(Owed) \in Nat
           /\ IsFiniteSet(Undone) /\ Cardinality(Undone) \in Nat
           /\ IsFiniteSet(Targets) /\ Cardinality(Targets) \in Nat
           /\ Targets \subseteq Doc
  <1>1. Owed \subseteq Doc /\ Undone \subseteq Deleter
    BY DEF Owed, Completed, Counting, Deleting, Undone
  <1>2. Targets \subseteq Doc
    BY DEF Targets, Undone, Sent
  <1> QED
    BY <1>1, <1>2, FS_Subset, FS_CardinalityType, IngestionAssumption

\* A step that neither touches the counter nor finishes a deletion may only
\* lower what is owed.
LEMMA CoveredIfLess ==
    ASSUME TypeOK, Sent, Covered, TypeOK', Sent',
           Owed' \subseteq Owed, Undone' = Undone, Targets' = Targets, storage' = storage
    PROVE  Covered'
  <1>1. Cardinality(Owed') <= Cardinality(Owed) /\ IsFiniteSet(Owed')
    BY CountedFinite, FS_Subset
  <1>2. Cardinality(Owed') \in Nat /\ storage \in Nat
    BY <1>1, FS_CardinalityType DEF TypeOK
  <1> QED
    BY <1>1, <1>2, CountedFinite DEF Covered

\* A document is counted once more when the counter is raised.
LEMMA CoveredIfCounted ==
    ASSUME TypeOK, Sent, Covered, NEW d,
           Owed' \subseteq Owed \cup {d}, Undone' = Undone, Targets' = Targets,
           storage' = storage + 1
    PROVE  Covered'
  <1>1. /\ IsFiniteSet(Owed \cup {d})
        /\ Cardinality(Owed \cup {d}) = IF d \in Owed THEN Cardinality(Owed)
                                        ELSE Cardinality(Owed) + 1
    BY CountedFinite, FS_AddElement
  <1>2. IsFiniteSet(Owed') /\ Cardinality(Owed') <= Cardinality(Owed \cup {d})
    BY <1>1, FS_Subset
  <1>3. Cardinality(Owed') \in Nat /\ storage \in Nat
    BY <1>2, FS_CardinalityType DEF TypeOK
  <1> QED
    BY <1>1, <1>2, <1>3, CountedFinite DEF Covered

\* The first to take a document off the counter settles what was owed for it,
\* and any other is a repeat.
LEMMA CoveredIfUndone ==
    ASSUME TypeOK, Sent, Covered, NEW x, NEW d,
           x \notin Undone, Undone' = Undone \cup {x}, Targets' = Targets \cup {d},
           Owed' = Owed \ {d}, d \in Owed \cup Targets,
           storage' >= storage - 1, storage' \in Nat
    PROVE  Covered'
  <1>1. Cardinality(Undone') = Cardinality(Undone) + 1
    BY CountedFinite, FS_AddElement
  <1>2. storage \in Nat
    BY DEF TypeOK
  <1>3. CASE d \in Targets
    <2>1. Targets' = Targets /\ Owed' = Owed
      BY <1>3 DEF Owed
    <2> QED
      BY <1>1, <1>2, <2>1, CountedFinite DEF Covered
  <1>4. CASE d \in Owed
    <2>1. d \notin Targets
      BY <1>4 DEF Owed
    <2>2. /\ Cardinality(Targets') = Cardinality(Targets) + 1
          /\ Cardinality(Owed') = Cardinality(Owed) - 1
      BY <1>4, <2>1, CountedFinite, FS_AddElement, FS_RemoveElement
    <2> QED
      BY <1>1, <1>2, <2>2, CountedFinite DEF Covered
  <1> QED
    BY <1>3, <1>4

\* Every document the counter owes was counted, and is taken off once at most,
\* repeats apart.
LEMMA CoveredStep ==
    ASSUME TypeOK, Sent, Located, Gone, Covered, [Next]_vars, TypeOK', Sent'
    PROVE  Covered'
  <1> USE IngestionAssumption
      DEF Sent, Inserted, Located, Gone, TypeOK, Message, UploadAt, WorkerAt,
          DeleterAt, Fail, SetStatus, Idle,
          tables, workers, deletes
  <1>1. ASSUME NEW d \in Doc,
                CheckStorage(d) \/ WriteFile(d) \/ SendTask(d) \/ CutOff(d)
         PROVE  Covered'
    <2>1. Owed' \subseteq Owed /\ Undone' = Undone /\ Targets' = Targets /\ storage' = storage
      BY <1>1
      DEF CheckStorage, WriteFile, SendTask, CutOff,
          Owed, Completed, Counting, Deleting, Undone, Targets
    <2> QED
      BY <2>1, CoveredIfLess
  <1>2. ASSUME NEW d \in Doc, InsertDocument(d) PROVE Covered'
    <2>1. Owed' \subseteq Owed /\ Undone' = Undone /\ Targets' = Targets /\ storage' = storage
      BY <1>2
      DEF InsertDocument,
          Owed, Completed, Counting, Deleting, Undone, Targets
    <2> QED
      BY <2>1, CoveredIfLess
  <1>3. ASSUME NEW w \in Worker, Take(w) PROVE Covered'
    <2>1. Owed' \subseteq Owed /\ Undone' = Undone /\ Targets' = Targets /\ storage' = storage
      BY <1>3
      DEF Take,
          Owed, Completed, Counting, Deleting, Undone, Targets
    <2> QED
      BY <2>1, CoveredIfLess
  <1>4. ASSUME NEW w \in Worker,
                MarkProcessing(w) \/ MarkFailed(w)
         PROVE  Covered'
    <2>1. Owed' \subseteq Owed /\ Undone' = Undone /\ Targets' = Targets /\ storage' = storage
      BY <1>4
      DEF MarkProcessing, MarkFailed,
          Owed, Completed, Counting, Deleting, Undone, Targets
    <2> QED
      BY <2>1, CoveredIfLess
  <1>5. ASSUME NEW w \in Worker, MarkCompleted(w) PROVE Covered'
    <2>1. Owed' \subseteq Owed /\ Undone' = Undone /\ Targets' = Targets /\ storage' = storage
      BY <1>5
      DEF MarkCompleted,
          Owed, Completed, Counting, Deleting, Undone, Targets
    <2> QED
      BY <2>1, CoveredIfLess
  <1>6. ASSUME NEW w \in Worker, CountStorage(w) PROVE Covered'
    <2>1. Undone' = Undone /\ Targets' = Targets
      BY <1>6 DEF CountStorage, Undone, Targets
    <2>2. CASE w \in found
      <3>1. Owed' \subseteq Owed \cup {job[w].doc} /\ storage' = storage + 1
        BY <1>6, <2>2
           DEF CountStorage, Owed, Completed, Counting, Deleting, Undone, Targets
      <3> QED
        BY <2>1, <3>1, CoveredIfCounted
    <2>3. CASE w \notin found
      <3>1. Owed' \subseteq Owed /\ storage' = storage
        BY <1>6, <2>3
           DEF CountStorage, Owed, Completed, Counting, Deleting, Undone, Targets
      <3> QED
        BY <2>1, <3>1, CoveredIfLess
    <2> QED
      BY <2>2, <2>3
  <1>7. ASSUME NEW w \in Worker, FetchDocument(w) PROVE Covered'
    <2>1. Owed' \subseteq Owed /\ Undone' = Undone /\ Targets' = Targets /\ storage' = storage
      BY <1>7
      DEF FetchDocument,
          Owed, Completed, Counting, Deleting, Undone, Targets
    <2> QED
      BY <2>1, CoveredIfLess
  <1>8. ASSUME NEW w \in Worker,
                Load(w) \/ DeleteChunks(w) \/ InsertChunks(w) \/
                SendGraphTask(w) \/ RemoveFile(w) \/ StepRaises(w) \/
                HandlerRaises(w)
         PROVE  Covered'
    <2>1. Owed' \subseteq Owed /\ Undone' = Undone /\ Targets' = Targets /\ storage' = storage
      BY <1>8
      DEF Load, DeleteChunks, InsertChunks, SendGraphTask, RemoveFile, StepRaises,
          HandlerRaises,
          Owed, Completed, Counting, Deleting, Undone, Targets
    <2> QED
      BY <2>1, CoveredIfLess
  <1>9. ASSUME NEW w \in Worker, RetryOrGiveUp(w) PROVE Covered'
    <2>1. Owed' \subseteq Owed /\ Undone' = Undone /\ Targets' = Targets /\ storage' = storage
      BY <1>9
      DEF RetryOrGiveUp,
          Owed, Completed, Counting, Deleting, Undone, Targets
    <2> QED
      BY <2>1, CoveredIfLess
  <1>10. ASSUME NEW w \in Worker,
                Acknowledge(w) \/ Kill(w) \/ Crash(w) \/ Redeliver(w)
         PROVE  Covered'
    <2>1. Owed' \subseteq Owed /\ Undone' = Undone /\ Targets' = Targets /\ storage' = storage
      BY <1>10
      DEF Acknowledge, Kill, Crash, Redeliver,
          Owed, Completed, Counting, Deleting, Undone, Targets
    <2> QED
      BY <2>1, CoveredIfLess
  <1>11. ASSUME NEW x \in Deleter, ReadDocument(x) PROVE Covered'
    <2>1. Owed' \subseteq Owed /\ Undone' = Undone /\ Targets' = Targets /\ storage' = storage
      BY <1>11
      DEF ReadDocument,
          Owed, Completed, Counting, Deleting, Undone, Targets
    <2> QED
      BY <2>1, CoveredIfLess
  <1>12. ASSUME NEW x \in Deleter, DeleteDocument(x) PROVE Covered'
    <2>1. Owed' \subseteq Owed /\ Undone' = Undone /\ Targets' = Targets /\ storage' = storage
      BY <1>12
      DEF DeleteDocument,
          Owed, Completed, Counting, Deleting, Undone, Targets
    <2> QED
      BY <2>1, CoveredIfLess
  <1>13. ASSUME NEW x \in Deleter,
                UncountStorage(x) \/ UncountLost(x)
         PROVE  Covered'
    <2>1. /\ x \notin Undone /\ Undone' = Undone \cup {x}
          /\ Targets' = Targets \cup {target[x]} /\ Owed' = Owed \ {target[x]}
          /\ target[x] \in Owed \cup Targets
          /\ storage' >= storage - 1 /\ storage' \in Nat
      BY <1>13 DEF UncountStorage, UncountLost,
          Owed, Completed, Counting, Deleting, Undone, Targets
    <2> QED
      BY <2>1, CoveredIfUndone
  <1>14. CASE UNCHANGED vars
    <2>1. Owed' \subseteq Owed /\ Undone' = Undone /\ Targets' = Targets /\ storage' = storage
      BY <1>14
      DEF vars,
          Owed, Completed, Counting, Deleting, Undone, Targets
    <2> QED
      BY <2>1, CoveredIfLess
  <1> QED
    BY <1>1, <1>2, <1>3, <1>4, <1>5, <1>6, <1>7, <1>8, <1>9, <1>10, <1>11,
       <1>12, <1>13, <1>14 DEF Next, Upload, Work, Delete

-----------------------------------------------------------------------------
(* Messages that are delivered once: the retry is published before its     *)
(* attempt is acknowledged, and the attempt then only ends.                *)

LEMMA SingleStep ==
    ASSUME DeliveredOnce, TypeOK, Sent, Single, [Next]_vars
    PROVE  Single'
  <1> USE IngestionAssumption
      DEF Single, Active, Sent, Inserted, TypeOK, Message, UploadAt, WorkerAt,
          DeleterAt, Fail,
          SetStatus, Idle, tables, workers, deletes
  <1>1. ASSUME NEW d \in Doc,
                CheckStorage(d) \/ WriteFile(d) \/ InsertDocument(d) \/
                CutOff(d)
         PROVE  Single'
    BY <1>1 DEF CheckStorage, WriteFile, InsertDocument, CutOff
  <1>2. ASSUME NEW d \in Doc, SendTask(d) PROVE Single'
    BY <1>2 DEF SendTask
  <1>3. ASSUME NEW w \in Worker, Take(w) PROVE Single'
    BY <1>3 DEF Take
  <1>4. ASSUME NEW w \in Worker,
                MarkProcessing(w) \/ MarkCompleted(w) \/ MarkFailed(w)
         PROVE  Single'
    BY <1>4 DEF MarkProcessing, MarkCompleted, MarkFailed
  <1>5. ASSUME NEW w \in Worker,
                Load(w) \/ DeleteChunks(w) \/ InsertChunks(w) \/
                FetchDocument(w) \/ CountStorage(w)
         PROVE  Single'
    BY <1>5 DEF Load, DeleteChunks, InsertChunks, FetchDocument, CountStorage
  <1>6. ASSUME NEW w \in Worker,
                SendGraphTask(w) \/ RemoveFile(w) \/ StepRaises(w) \/
                HandlerRaises(w)
         PROVE  Single'
    BY <1>6 DEF SendGraphTask, RemoveFile, StepRaises, HandlerRaises, Stage
  <1>7. ASSUME NEW w \in Worker, RetryOrGiveUp(w) PROVE Single'
    BY <1>7 DEF RetryOrGiveUp
  <1>8. ASSUME NEW w \in Worker,
                Acknowledge(w) \/ Kill(w)
         PROVE  Single'
    BY <1>8 DEF Acknowledge, Kill
  <1>9. ASSUME NEW w \in Worker,
                Crash(w) \/ Redeliver(w)
         PROVE  Single'
    BY <1>9 DEF Crash, Redeliver, DeliveredOnce
  <1>10. ASSUME NEW x \in Deleter,
                ReadDocument(x) \/ DeleteDocument(x) \/ UncountStorage(x) \/
                UncountLost(x)
         PROVE  Single'
    BY <1>10 DEF ReadDocument, DeleteDocument, UncountStorage, UncountLost
  <1>11. CASE UNCHANGED vars
    BY <1>11 DEF vars
  <1> QED
    BY <1>1, <1>2, <1>3, <1>4, <1>5, <1>6, <1>7, <1>8, <1>9, <1>10, <1>11
       DEF Next, Upload, Work, Delete

\* Nobody else inserts chunks between a worker's DELETE and its INSERTs.
LEMMA ReplacedStep ==
    ASSUME DeliveredOnce, TypeOK, Sent, Single, Replaced, [Next]_vars
    PROVE  Replaced'
  <1> USE IngestionAssumption
      DEF Replaced, Single, Active, TypeOK, Message, UploadAt, WorkerAt, DeleterAt, Fail,
          SetStatus, Idle, tables, workers, deletes
  <1>1. ASSUME NEW d \in Doc,
                CheckStorage(d) \/ WriteFile(d) \/ InsertDocument(d) \/
                SendTask(d) \/ CutOff(d)
         PROVE  Replaced'
    BY <1>1 DEF CheckStorage, WriteFile, InsertDocument, SendTask, CutOff
  <1>2. ASSUME NEW w \in Worker, Take(w) PROVE Replaced'
    BY <1>2 DEF Take
  <1>3. ASSUME NEW w \in Worker,
                MarkProcessing(w) \/ MarkCompleted(w) \/ MarkFailed(w)
         PROVE  Replaced'
    BY <1>3 DEF MarkProcessing, MarkCompleted, MarkFailed
  <1>4. ASSUME NEW w \in Worker, DeleteChunks(w) PROVE Replaced'
    BY <1>4 DEF DeleteChunks
  <1>5. ASSUME NEW w \in Worker, InsertChunks(w) PROVE Replaced'
    BY <1>5 DEF InsertChunks
  <1>6. ASSUME NEW w \in Worker,
                Load(w) \/ FetchDocument(w) \/ CountStorage(w) \/
                SendGraphTask(w)
         PROVE  Replaced'
    BY <1>6 DEF Load, FetchDocument, CountStorage, SendGraphTask
  <1>7. ASSUME NEW w \in Worker,
                RemoveFile(w) \/ StepRaises(w) \/ HandlerRaises(w)
         PROVE  Replaced'
    BY <1>7 DEF RemoveFile, StepRaises, HandlerRaises
  <1>8. ASSUME NEW w \in Worker, RetryOrGiveUp(w) PROVE Replaced'
    BY <1>8 DEF RetryOrGiveUp
  <1>9. ASSUME NEW w \in Worker,
                Acknowledge(w) \/ Kill(w)
         PROVE  Replaced'
    BY <1>9 DEF Acknowledge, Kill
  <1>10. ASSUME NEW w \in Worker,
                Crash(w) \/ Redeliver(w)
         PROVE  Replaced'
    BY <1>10 DEF Crash, Redeliver, DeliveredOnce
  <1>11. ASSUME NEW x \in Deleter,
                ReadDocument(x) \/ UncountStorage(x) \/ UncountLost(x)
         PROVE  Replaced'
    BY <1>11 DEF ReadDocument, UncountStorage, UncountLost
  <1>12. ASSUME NEW x \in Deleter, DeleteDocument(x) PROVE Replaced'
    BY <1>12 DEF DeleteDocument
  <1>13. CASE UNCHANGED vars
    BY <1>13 DEF vars
  <1> QED
    BY <1>1, <1>2, <1>3, <1>4, <1>5, <1>6, <1>7, <1>8, <1>9, <1>10, <1>11,
       <1>12, <1>13 DEF Next, Upload, Work, Delete

\* Who removes a file is the last one that had it to do with.
LEMMA FilesKeptStep ==
    ASSUME DeliveredOnce, TypeOK, Sent, Single, FilesKept, [Next]_vars
    PROVE  FilesKept'
  <1> USE IngestionAssumption
      DEF FilesKept, Finishing, Single, Active, Sent, TypeOK, Message, UploadAt,
          WorkerAt, DeleterAt, Fail,
          SetStatus, Idle, tables, workers, deletes
  <1>1. ASSUME NEW d \in Doc,
                CheckStorage(d) \/ InsertDocument(d) \/ CutOff(d)
         PROVE  FilesKept'
    BY <1>1 DEF CheckStorage, InsertDocument, CutOff
  <1>2. ASSUME NEW d \in Doc, WriteFile(d) PROVE FilesKept'
    BY <1>2 DEF WriteFile
  <1>3. ASSUME NEW d \in Doc, SendTask(d) PROVE FilesKept'
    BY <1>3 DEF SendTask
  <1>4. ASSUME NEW w \in Worker, Take(w) PROVE FilesKept'
    BY <1>4 DEF Take
  <1>5. ASSUME NEW w \in Worker,
                MarkProcessing(w) \/ MarkCompleted(w) \/ MarkFailed(w)
         PROVE  FilesKept'
    BY <1>5 DEF MarkProcessing, MarkCompleted, MarkFailed
  <1>6. ASSUME NEW w \in Worker,
                Load(w) \/ DeleteChunks(w) \/ InsertChunks(w) \/
                FetchDocument(w) \/ CountStorage(w) \/ SendGraphTask(w)
         PROVE  FilesKept'
    BY <1>6
    DEF Load, DeleteChunks, InsertChunks, FetchDocument, CountStorage,
        SendGraphTask
  <1>7. ASSUME NEW w \in Worker,
                StepRaises(w) \/ HandlerRaises(w)
         PROVE  FilesKept'
    BY <1>7 DEF StepRaises, HandlerRaises, Stage
  <1>8. ASSUME NEW w \in Worker, RemoveFile(w) PROVE FilesKept'
    BY <1>8 DEF RemoveFile
  <1>9. ASSUME NEW w \in Worker, RetryOrGiveUp(w) PROVE FilesKept'
    BY <1>9 DEF RetryOrGiveUp
  <1>10. ASSUME NEW w \in Worker,
                Acknowledge(w) \/ Kill(w)
         PROVE  FilesKept'
    BY <1>10 DEF Acknowledge, Kill
  <1>11. ASSUME NEW w \in Worker,
                Crash(w) \/ Redeliver(w)
         PROVE  FilesKept'
    BY <1>11 DEF Crash, Redeliver, DeliveredOnce
  <1>12. ASSUME NEW x \in Deleter,
                ReadDocument(x) \/ DeleteDocument(x) \/ UncountStorage(x) \/
                UncountLost(x)
         PROVE  FilesKept'
    BY <1>12 DEF ReadDocument, DeleteDocument, UncountStorage, UncountLost
  <1>13. CASE UNCHANGED vars
    BY <1>13 DEF vars
  <1> QED
    BY <1>1, <1>2, <1>3, <1>4, <1>5, <1>6, <1>7, <1>8, <1>9, <1>10, <1>11,
       <1>12, <1>13 DEF Next, Upload, Work, Delete

-----------------------------------------------------------------------------
(* The abstract lifecycle.                                                 *)

\* An attempt under way has a document that is neither completed nor failed.
LEMMA UnfinishedStep ==
    ASSUME DeliveredOnce, HandedOver, TypeOK, Sent, Single, Unfinished, [Next]_vars
    PROVE  Unfinished'
  <1> USE IngestionAssumption
      DEF Unfinished, Undecided, Single, Active, Sent, Inserted, TypeOK, Message,
          UploadAt, WorkerAt, DeleterAt, Fail,
          SetStatus, Idle, tables, workers, deletes
  <1>1. ASSUME NEW d \in Doc,
                CheckStorage(d) \/ WriteFile(d) \/ CutOff(d)
         PROVE  Unfinished'
    BY <1>1 DEF CheckStorage, WriteFile, CutOff
  <1>2. ASSUME NEW d \in Doc, InsertDocument(d) PROVE Unfinished'
    BY <1>2 DEF InsertDocument
  <1>3. ASSUME NEW d \in Doc, SendTask(d) PROVE Unfinished'
    BY <1>3 DEF SendTask
  <1>4. ASSUME NEW w \in Worker, Take(w) PROVE Unfinished'
    BY <1>4 DEF Take
  <1>5. ASSUME NEW w \in Worker, MarkProcessing(w) PROVE Unfinished'
    BY <1>5 DEF MarkProcessing
  <1>6. ASSUME NEW w \in Worker, MarkCompleted(w) PROVE Unfinished'
    BY <1>6 DEF MarkCompleted
  <1>7. ASSUME NEW w \in Worker, MarkFailed(w) PROVE Unfinished'
    BY <1>7 DEF MarkFailed
  <1>8. ASSUME NEW w \in Worker,
                Load(w) \/ DeleteChunks(w) \/ InsertChunks(w) \/
                FetchDocument(w) \/ CountStorage(w) \/ SendGraphTask(w) \/
                RemoveFile(w)
         PROVE  Unfinished'
    BY <1>8
    DEF Load, DeleteChunks, InsertChunks, FetchDocument, CountStorage,
        SendGraphTask, RemoveFile
  <1>9. ASSUME NEW w \in Worker,
                StepRaises(w) \/ HandlerRaises(w)
         PROVE  Unfinished'
    BY <1>9 DEF StepRaises, HandlerRaises, HandedOver, Stage
  <1>10. ASSUME NEW w \in Worker, RetryOrGiveUp(w) PROVE Unfinished'
    BY <1>10 DEF RetryOrGiveUp
  <1>11. ASSUME NEW w \in Worker,
                Acknowledge(w) \/ Kill(w)
         PROVE  Unfinished'
    BY <1>11 DEF Acknowledge, Kill
  <1>12. ASSUME NEW w \in Worker,
                Crash(w) \/ Redeliver(w)
         PROVE  Unfinished'
    BY <1>12 DEF Crash, Redeliver, DeliveredOnce
  <1>13. ASSUME NEW x \in Deleter,
                ReadDocument(x) \/ UncountStorage(x) \/ UncountLost(x)
         PROVE  Unfinished'
    BY <1>13 DEF ReadDocument, UncountStorage, UncountLost
  <1>14. ASSUME NEW x \in Deleter, DeleteDocument(x) PROVE Unfinished'
    BY <1>14 DEF DeleteDocument
  <1>15. CASE UNCHANGED vars
    BY <1>15 DEF vars
  <1> QED
    BY <1>1, <1>2, <1>3, <1>4, <1>5, <1>6, <1>7, <1>8, <1>9, <1>10, <1>11,
       <1>12, <1>13, <1>14, <1>15 DEF Next, Upload, Work, Delete

\* The phase of a document follows from its status, and without a row from how
\* far its upload came.
PhaseOf(s, inserted) ==
    IF s \in {"pending", "processing"} THEN "waiting"
    ELSE IF s = "completed" THEN "searchable"
    ELSE IF s = "failed" THEN "failed"
    ELSE IF inserted THEN "deleted" ELSE "absent"

LEMMA PhaseIs == TypeOK => Phase = [d \in Doc |-> PhaseOf(status[d], Inserted(d))]
  <1>1. ASSUME TypeOK, NEW d \in Doc PROVE Phase[d] = PhaseOf(status[d], Inserted(d))
    <2>1. status[d] \in Status
      BY <1>1 DEF TypeOK
    <2> QED
      BY <2>1 DEF Phase, PhaseOf, Inserted, Status
  <1> QED
    BY <1>1 DEF Phase

LEMMA PhaseNext ==
    ASSUME TypeOK'
    PROVE  Phase' = [d \in Doc |-> PhaseOf(status'[d], Inserted(d)')]
  <1>1. (Phase = [d \in Doc |-> PhaseOf(status[d], Inserted(d))])'
    BY PhaseIs, PTL
  <1> QED
    BY <1>1

\* Steps that change no status and insert nothing stutter.
LEMMA PhaseKept ==
    ASSUME TypeOK, TypeOK', status' = status, \A d \in Doc : Inserted(d)' <=> Inserted(d)
    PROVE  Phase' = Phase
  <1>1. \A d \in Doc : PhaseOf(status'[d], Inserted(d)') = PhaseOf(status[d], Inserted(d))
    BY DEF PhaseOf
  <1> QED
    BY <1>1, PhaseIs, PhaseNext

\* Steps that touch one document touch no other's phase.
LEMMA PhaseAt ==
    ASSUME TypeOK, TypeOK', NEW d \in Doc,
           \A e \in Doc \ {d} : status'[e] = status[e] /\ (Inserted(e)' <=> Inserted(e))
    PROVE  /\ Phase' = [Phase EXCEPT ![d] = PhaseOf(status'[d], Inserted(d)')]
           /\ Phase[d] = PhaseOf(status[d], Inserted(d))
  <1>1. \A e \in Doc \ {d} :
           PhaseOf(status'[e], Inserted(e)') = PhaseOf(status[e], Inserted(e))
    BY DEF PhaseOf
  <1> QED
    BY <1>1, PhaseIs, PhaseNext

\* What DocumentLifecycle allows a document to do.
LEMMA AbstractSteps ==
    ASSUME TypeOK, NEW d \in Doc, NEW q, Phase' = [Phase EXCEPT ![d] = q],
           \/ Phase[d] = q
           \/ Phase[d] = "absent" /\ q = "waiting"
           \/ Phase[d] = "waiting" /\ q \in {"searchable", "failed"}
           \/ Phase[d] \in {"waiting", "searchable", "failed"} /\ q = "deleted"
    PROVE  [DL!Next]_Phase
  <1>1. CASE Phase[d] = q
    BY <1>1, PhaseIs
  <1>2. CASE Phase[d] # q
    BY <1>2 DEF DL!Next, DL!Submit, DL!Finish, DL!Remove
  <1> QED
    BY <1>1, <1>2

\* Every step is one of DocumentLifecycle, or none.
LEMMA LifecycleStep ==
    ASSUME DeliveredOnce, HandedOver, TypeOK, Sent, Unfinished, [Next]_vars, TypeOK'
    PROVE  [DL!Next]_Phase
  <1> USE IngestionAssumption
      DEF Inserted, TypeOK, Message, UploadAt, WorkerAt, DeleterAt, Fail, SetStatus, Idle,
          tables, workers, deletes
  <1>1. ASSUME NEW d \in Doc,
                CheckStorage(d) \/ WriteFile(d) \/ SendTask(d) \/ CutOff(d)
         PROVE  [DL!Next]_Phase
    <2>1. status' = status /\ \A e \in Doc : Inserted(e)' <=> Inserted(e)
      BY <1>1 DEF CheckStorage, WriteFile, SendTask, CutOff
    <2> QED
      BY <2>1, PhaseKept
  <1>2. ASSUME NEW d \in Doc, InsertDocument(d) PROVE [DL!Next]_Phase
    <2>1. /\ d \in Doc
          /\ \A e \in Doc \ {d} :
                status'[e] = status[e] /\ (Inserted(e)' <=> Inserted(e))
          /\ status[d] = "none" /\ ~Inserted(d) /\ status'[d] = "pending"
      BY <1>2 DEF InsertDocument, Sent
    <2>2. /\ Phase' = [Phase EXCEPT ![d] = PhaseOf(status'[d], Inserted(d)')]
          /\ Phase[d] = PhaseOf(status[d], Inserted(d))
      BY <2>1, PhaseAt
    <2> QED
      BY <2>1, <2>2, AbstractSteps DEF PhaseOf
  <1>3. ASSUME NEW w \in Worker, MarkProcessing(w) PROVE [DL!Next]_Phase
    <2>0. PICK d \in Doc : d = job[w].doc
      BY <1>3 DEF MarkProcessing, MarkCompleted, MarkFailed
    <2>1. /\ \A e \in Doc \ {d} :
                status'[e] = status[e] /\ (Inserted(e)' <=> Inserted(e))
          /\ Inserted(d)' <=> Inserted(d)
          /\ \/ status[d] = "none" /\ status'[d] = "none"
             \/ /\ status[d] \in {"pending", "processing"}
                /\ status'[d] = "processing"
      BY <1>3, <2>0 DEF MarkProcessing, Unfinished, Undecided
    <2>2. /\ Phase' = [Phase EXCEPT ![d] = PhaseOf(status'[d], Inserted(d)')]
          /\ Phase[d] = PhaseOf(status[d], Inserted(d))
      BY <2>1, PhaseAt
    <2>3. \/ Phase[d] = PhaseOf(status'[d], Inserted(d)')
          \/ Phase[d] = "waiting" /\ PhaseOf(status'[d], Inserted(d)') \in {"searchable", "failed"}
      BY <2>1, <2>2 DEF PhaseOf
    <2> QED
      BY <2>2, <2>3, AbstractSteps
  <1>4. ASSUME NEW w \in Worker, MarkCompleted(w) PROVE [DL!Next]_Phase
    <2>0. PICK d \in Doc : d = job[w].doc
      BY <1>4 DEF MarkProcessing, MarkCompleted, MarkFailed
    <2>1. /\ \A e \in Doc \ {d} :
                status'[e] = status[e] /\ (Inserted(e)' <=> Inserted(e))
          /\ Inserted(d)' <=> Inserted(d)
          /\ \/ status[d] = "none" /\ status'[d] = "none"
             \/ /\ status[d] \in {"pending", "processing"}
                /\ status'[d] = "completed"
      BY <1>4, <2>0 DEF MarkCompleted, Unfinished, Undecided
    <2>2. /\ Phase' = [Phase EXCEPT ![d] = PhaseOf(status'[d], Inserted(d)')]
          /\ Phase[d] = PhaseOf(status[d], Inserted(d))
      BY <2>1, PhaseAt
    <2>3. \/ Phase[d] = PhaseOf(status'[d], Inserted(d)')
          \/ Phase[d] = "waiting" /\ PhaseOf(status'[d], Inserted(d)') \in {"searchable", "failed"}
      BY <2>1, <2>2 DEF PhaseOf
    <2> QED
      BY <2>2, <2>3, AbstractSteps
  <1>5. ASSUME NEW w \in Worker, MarkFailed(w) PROVE [DL!Next]_Phase
    <2>0. PICK d \in Doc : d = job[w].doc
      BY <1>5 DEF MarkProcessing, MarkCompleted, MarkFailed
    <2>1. /\ \A e \in Doc \ {d} :
                status'[e] = status[e] /\ (Inserted(e)' <=> Inserted(e))
          /\ Inserted(d)' <=> Inserted(d)
          /\ \/ status[d] = "none" /\ status'[d] = "none"
             \/ /\ status[d] \in {"pending", "processing"}
                /\ status'[d] = "failed"
      BY <1>5, <2>0 DEF MarkFailed, Unfinished, Undecided
    <2>2. /\ Phase' = [Phase EXCEPT ![d] = PhaseOf(status'[d], Inserted(d)')]
          /\ Phase[d] = PhaseOf(status[d], Inserted(d))
      BY <2>1, PhaseAt
    <2>3. \/ Phase[d] = PhaseOf(status'[d], Inserted(d)')
          \/ Phase[d] = "waiting" /\ PhaseOf(status'[d], Inserted(d)') \in {"searchable", "failed"}
      BY <2>1, <2>2 DEF PhaseOf
    <2> QED
      BY <2>2, <2>3, AbstractSteps
  <1>6. ASSUME NEW w \in Worker,
                Take(w) \/ Load(w) \/ DeleteChunks(w) \/ InsertChunks(w) \/
                FetchDocument(w) \/ CountStorage(w) \/ SendGraphTask(w)
         PROVE  [DL!Next]_Phase
    <2>1. status' = status /\ \A d \in Doc : Inserted(d)' <=> Inserted(d)
      BY <1>6
         DEF Take, Load, DeleteChunks, InsertChunks, FetchDocument, CountStorage,
             SendGraphTask
    <2> QED
      BY <2>1, PhaseKept
  <1>7. ASSUME NEW w \in Worker,
                RetryOrGiveUp(w) \/ RemoveFile(w) \/ Acknowledge(w) \/
                StepRaises(w) \/ HandlerRaises(w) \/ Kill(w) \/ Crash(w) \/
                Redeliver(w)
         PROVE  [DL!Next]_Phase
    <2>1. status' = status /\ \A d \in Doc : Inserted(d)' <=> Inserted(d)
      BY <1>7
         DEF RetryOrGiveUp, RemoveFile, Acknowledge, StepRaises, HandlerRaises,
             Kill, Crash, Redeliver
    <2> QED
      BY <2>1, PhaseKept
  <1>8. ASSUME NEW x \in Deleter, DeleteDocument(x) PROVE [DL!Next]_Phase
    <2>0. PICK d \in Doc : d = target[x]
      BY <1>8 DEF DeleteDocument, Sent
    <2>1. /\ \A e \in Doc \ {d} :
                status'[e] = status[e] /\ (Inserted(e)' <=> Inserted(e))
          /\ Inserted(d) /\ Inserted(d)'
          /\ status[d] \in Status /\ status'[d] = "none"
      BY <1>8, <2>0 DEF DeleteDocument, Sent, Status
    <2>2. /\ Phase' = [Phase EXCEPT ![d] = PhaseOf(status'[d], Inserted(d)')]
          /\ Phase[d] = PhaseOf(status[d], Inserted(d))
      BY <2>1, PhaseAt
    <2>3. \/ Phase[d] = PhaseOf(status'[d], Inserted(d)')
          \/ /\ Phase[d] \in {"waiting", "searchable", "failed"}
             /\ PhaseOf(status'[d], Inserted(d)') = "deleted"
      BY <2>1, <2>2 DEF PhaseOf, Status
    <2> QED
      BY <2>2, <2>3, AbstractSteps
  <1>9. ASSUME NEW x \in Deleter,
                ReadDocument(x) \/ UncountStorage(x) \/ UncountLost(x)
         PROVE  [DL!Next]_Phase
    <2>1. status' = status /\ \A d \in Doc : Inserted(d)' <=> Inserted(d)
      BY <1>9 DEF ReadDocument, UncountStorage, UncountLost
    <2> QED
      BY <2>1, PhaseKept
  <1>10. CASE UNCHANGED vars
    <2>1. status' = status /\ \A d \in Doc : Inserted(d)' <=> Inserted(d)
      BY <1>10 DEF vars
    <2> QED
      BY <2>1, PhaseKept
  <1> QED
    BY <1>1, <1>2, <1>3, <1>4, <1>5, <1>6, <1>7, <1>8, <1>9, <1>10
       DEF Next, Upload, Work, Delete

-----------------------------------------------------------------------------
(* The storage counter, where it is exact.                                 *)

(* Each message is delivered once, what comes after the counting neither   *)
(* raises nor is killed, and nothing is deleted.                           *)
Undisturbed ==
    /\ DeliveredOnce
    /\ HandedOver
    /\ "complete" \notin Raising
    /\ "kill" \notin Failures
    /\ Deleter = {}

(* The documents that have been counted.                                   *)
Counted == Completed \cup Counting

ExactInv ==
    /\ storage = Cardinality(Counted)
    /\ \A w \in Worker :
          wpc[w] \in {"count", "complete"} /\ w \in found => status[job[w].doc] # "none"

\* A document is counted by one attempt, the one that completes it.
LEMMA ExactStep ==
    ASSUME Undisturbed, TypeOK, Sent, Located, Single, Unfinished, ExactInv, [Next]_vars
    PROVE  ExactInv'
  <1> DEFINE Rows == \A w \in Worker : wpc[w] \in {"count", "complete"} /\ w \in found
                                          => status[job[w].doc] # "none"
  <1> USE IngestionAssumption
      DEF ExactInv, Counted, Counting, Completed, Undisturbed, Sent, Inserted,
          TypeOK, Status,
          Message, UploadAt, WorkerAt, DeleterAt, Fail, SetStatus, Idle, tables,
          workers, deletes
  <1>1. ASSUME Counted' = Counted, storage' = storage, Rows' PROVE ExactInv'
    BY <1>1
  <1>2. ASSUME NEW d \in Doc,
               CheckStorage(d) \/ WriteFile(d) \/ SendTask(d) \/ CutOff(d)
        PROVE  ExactInv'
    BY <1>1, <1>2 DEF CheckStorage, WriteFile, SendTask, CutOff
  <1>3. ASSUME NEW d \in Doc, InsertDocument(d) PROVE ExactInv'
    <2>1. Counted' = Counted /\ storage' = storage /\ Rows'
      BY <1>3 DEF InsertDocument
    <2> QED
      BY <1>1, <2>1
  <1>4. ASSUME NEW w \in Worker, Take(w) PROVE ExactInv'
    <2>1. Counted' = Counted /\ storage' = storage /\ Rows'
      BY <1>4 DEF Take
    <2> QED
      BY <1>1, <2>1
  <1>5. ASSUME NEW w \in Worker, MarkProcessing(w) \/ MarkFailed(w) PROVE ExactInv'
    <2>1. status[job[w].doc] # "completed"
      BY <1>5 DEF MarkProcessing, MarkFailed, Unfinished, Undecided
    <2>2. Counted' = Counted /\ storage' = storage /\ Rows'
      BY <1>5, <2>1 DEF MarkProcessing, MarkFailed
    <2> QED
      BY <1>1, <2>2
  <1>6. ASSUME NEW w \in Worker, FetchDocument(w) PROVE ExactInv'
    <2>1. Counted' = Counted /\ storage' = storage /\ Rows'
      BY <1>6 DEF FetchDocument
    <2> QED
      BY <1>1, <2>1
  <1>7. ASSUME NEW w \in Worker, CountStorage(w) PROVE ExactInv'
    <2> DEFINE d == job[w].doc
    <2>1. /\ wpc[w] = "count" /\ wpc' = [wpc EXCEPT ![w] = "complete"]
          /\ d \in Doc /\ status[d] \in Undecided
          /\ UNCHANGED <<status, job, found>>
      BY <1>7 DEF CountStorage, Unfinished
    <2>2. Rows'
      BY <2>1
    <2>3. CASE w \in found
      <3>1. status[d] # "none" /\ storage' = storage + 1
        BY <1>7, <2>1, <2>3 DEF CountStorage
      <3>2. d \notin Counted
        BY <2>1 DEF Undecided, Single, Active
      <3>3. Counted' = Counted \cup {d}
        BY <2>1, <2>3, <3>1
      <3>4. IsFiniteSet(Counted)
        <4>1. Counted \in SUBSET Doc
          OBVIOUS
        <4> QED
          BY <4>1, FS_Subset
      <3>5. Cardinality(Counted \cup {d}) = Cardinality(Counted) + 1
        BY <3>2, <3>4, FS_AddElement
      <3> QED
        BY <2>2, <3>1, <3>3, <3>5
    <2>4. CASE w \notin found
      <3>1. status[d] = "none" /\ storage' = storage
        BY <1>7, <2>1, <2>4 DEF CountStorage, Located
      <3>2. Counted' = Counted
        BY <2>1, <2>4, <3>1
      <3> QED
        BY <1>1, <2>2, <3>1, <3>2
    <2> QED
      BY <2>3, <2>4
  <1>8. ASSUME NEW w \in Worker, MarkCompleted(w) PROVE ExactInv'
    <2> DEFINE d == job[w].doc
    <2>1. /\ wpc[w] = "complete" /\ wpc' = [wpc EXCEPT ![w] = "send"] /\ d \in Doc
          /\ status' = [status EXCEPT ![d] = IF @ = "none" THEN @ ELSE "completed"]
          /\ UNCHANGED <<job, found, storage>>
      BY <1>8 DEF MarkCompleted
    <2>2. \A v \in Worker : wpc[v] = "complete" /\ job[v].doc = d => v = w
      BY <2>1 DEF Single, Active
    <2>3. d \in Counted <=> status[d] # "none"
      BY <2>1 DEF Located
    <2>4. \A e \in Doc \ {d} : e \in Counted' <=> e \in Counted
      BY <2>1
    <2>5. d \in Counted' <=> status[d] # "none"
      BY <2>1, <2>2
    <2>6. Counted' = Counted
      BY <2>1, <2>3, <2>4, <2>5
    <2> QED
      BY <1>1, <2>1, <2>6
  <1>9. ASSUME NEW w \in Worker,
               Load(w) \/ DeleteChunks(w) \/ InsertChunks(w) \/ SendGraphTask(w)
               \/ RemoveFile(w)
        PROVE  ExactInv'
    <2>1. Counted' = Counted /\ storage' = storage /\ Rows'
      BY <1>9 DEF Load, DeleteChunks, InsertChunks, SendGraphTask, RemoveFile
    <2> QED
      BY <1>1, <2>1
  <1>10. ASSUME NEW w \in Worker, StepRaises(w) \/ HandlerRaises(w) PROVE ExactInv'
    <2>1. /\ wpc[w] # "complete" /\ wpc'[w] \in {"except", "ack"}
          /\ \A v \in Worker \ {w} : wpc'[v] = wpc[v]
          /\ UNCHANGED <<status, storage, job, found>>
      BY <1>10 DEF StepRaises, HandlerRaises, Stage
    <2>2. Counted' = Counted /\ Rows'
      BY <2>1
    <2> QED
      BY <1>1, <2>1, <2>2
  <1>11. ASSUME NEW w \in Worker, RetryOrGiveUp(w) \/ Acknowledge(w) PROVE ExactInv'
    <2>1. Counted' = Counted /\ storage' = storage /\ Rows'
      BY <1>11 DEF RetryOrGiveUp, Acknowledge
    <2> QED
      BY <1>1, <2>1
  <1>12. ASSUME NEW w \in Worker, Kill(w) \/ Crash(w) \/ Redeliver(w) PROVE FALSE
    BY <1>12 DEF Kill, Crash, Redeliver, DeliveredOnce
  <1>13. CASE UNCHANGED vars
    BY <1>1, <1>13 DEF vars
  <1> QED
    BY <1>2, <1>3, <1>4, <1>5, <1>6, <1>7, <1>8, <1>9, <1>10, <1>11, <1>12, <1>13
       DEF Next, Upload, Work

-----------------------------------------------------------------------------
(* The theorems.                                                           *)

\* No upload has started and no message is on its way.
LEMMA AtFirst ==
    ASSUME Init
    PROVE  IngestionInv /\ Single /\ Replaced /\ FilesKept /\ Unfinished /\ DL!Init
  <1> USE IngestionAssumption DEF Init
  <1>1. TypeOK
    BY DEF TypeOK, Status
  <1>2. Sent /\ Chunked /\ CompletedHasChunks /\ Located /\ Gone
    BY DEF Sent, Inserted, Chunked, CompletedHasChunks, Completed, Located, Gone
  <1>3. Covered
    <2>1. Undone = {} /\ Targets = {} /\ Owed = {}
      BY DEF Undone, Targets, Owed, Completed, Counting, Deleting
    <2>2. storage = 0 /\ Cardinality({}) = 0
      BY FS_EmptySet
    <2> HIDE DEF Init
    <2> QED
      BY <2>1, <2>2 DEF Covered
  <1>4. Single /\ Replaced /\ FilesKept /\ Unfinished
    BY DEF Single, Active, Replaced, FilesKept, Unfinished
  <1>5. DL!Init
    BY DEF DL!Init, Phase
  <1> QED
    BY <1>1, <1>2, <1>3, <1>4, <1>5 DEF IngestionInv

\* Whatever fails and however messages are repeated, rows exist only of
\* inserted documents, a worker past its INSERTs left chunks, a deletion is
\* final, and the storage counter covers what it owes.
THEOREM IngestionInvariant == Spec => []IngestionInv
  <1>1. Init => IngestionInv
    BY AtFirst
  <1>2. IngestionInv /\ [Next]_vars => IngestionInv'
    <2> SUFFICES ASSUME IngestionInv, [Next]_vars PROVE IngestionInv'
      OBVIOUS
    <2> USE DEF IngestionInv
    <2>1. TypeOK'
      BY TypeStep
    <2>2. Sent'
      BY SentStep
    <2>3. Chunked' /\ CompletedHasChunks'
      BY ChunkedStep
    <2>4. Located'
      BY LocatedStep
    <2>5. Gone'
      BY GoneStep
    <2>6. Covered'
      BY <2>1, <2>2, CoveredStep
    <2> QED
      BY <2>1, <2>2, <2>3, <2>4, <2>5, <2>6
  <1> QED
    BY <1>1, <1>2, PTL DEF Spec

\* Every state of the pipeline is well typed: a worker holds a message exactly
\* while it runs a task.
THEOREM IngestionTyped == Spec => []TypeOK
  <1>1. IngestionInv => TypeOK
    BY DEF IngestionInv
  <1> QED
    BY <1>1, IngestionInvariant, PTL

\* A document marked completed has committed chunks, whatever retries,
\* redeliveries, crashes and deletions interleave.
THEOREM CompletedAreSearchable == Spec => []CompletedHasChunks
  <1>1. IngestionInv => CompletedHasChunks
    BY DEF IngestionInv
  <1> QED
    BY <1>1, IngestionInvariant, PTL

\* Repeated deletes apart, the storage counter never falls below the size of
\* the completed documents, whatever fails.
THEOREM CounterNeverUndercounts == Spec => []NeverUndercounts
  <1>1. IngestionInv => NeverUndercounts
    <2> SUFFICES ASSUME IngestionInv PROVE NeverUndercounts
      OBVIOUS
    <2>1. Completed \subseteq Owed
      <3>1. \A x \in Undone : status[target[x]] = "none"
        BY DEF IngestionInv, Gone, Undone
      <3> QED
        BY <3>1 DEF Owed, Completed, Targets
    <2>2. /\ Cardinality(Owed) \in Nat /\ Cardinality(Completed) \in Nat
          /\ Cardinality(Completed) <= Cardinality(Owed)
      BY <2>1, CountedFinite, FS_Subset, FS_CardinalityType DEF IngestionInv
    <2>3. /\ Cardinality(Undone) \in Nat /\ Cardinality(Targets) \in Nat
          /\ Repeats = Cardinality(Undone) - Cardinality(Targets)
      <3>1. Repeats = Cardinality(Undone) - Cardinality(Targets)
        BY DEF Repeats, Undone, Targets
      <3> QED
        BY <3>1, CountedFinite DEF IngestionInv
    <2>4. storage \in Nat
      BY DEF IngestionInv, TypeOK
    <2> QED
      BY <2>2, <2>3, <2>4 DEF IngestionInv, Covered, NeverUndercounts
  <1> QED
    BY <1>1, IngestionInvariant, PTL

\* Where the broker delivers each message once, a document has one message or
\* one worker, and its chunks and its file are that worker's.
THEOREM OnceInvariant ==
    ASSUME DeliveredOnce
    PROVE  Spec => []OnceInv
  <1>1. Init => OnceInv
    BY AtFirst DEF OnceInv
  <1>2. IngestionInv /\ IngestionInv' /\ OnceInv /\ [Next]_vars => OnceInv'
    <2> SUFFICES ASSUME IngestionInv, IngestionInv', OnceInv, [Next]_vars PROVE OnceInv'
      OBVIOUS
    <2> USE DEF OnceInv, IngestionInv
    <2>1. Single'
      BY SingleStep
    <2>2. Replaced'
      BY ReplacedStep
    <2>3. FilesKept'
      BY FilesKeptStep
    <2> QED
      BY <2>1, <2>2, <2>3
  <1> QED
    BY <1>1, <1>2, IngestionInvariant, PTL DEF Spec

\* However attempts fail and are retried, and processes are killed, a document
\* has the chunks of one attempt at most.
THEOREM ChunksOfOneAttempt ==
    ASSUME DeliveredOnce
    PROVE  Spec => []OneSetOfChunks
  <1>1. OnceInv => OneSetOfChunks
    <2> SUFFICES ASSUME OnceInv, NEW d \in Doc PROVE Cardinality(chunks[d]) <= 1
      BY DEF OneSetOfChunks
    <2>1. CASE chunks[d] = {}
      BY <2>1, FS_EmptySet
    <2>2. CASE chunks[d] # {}
      <3>1. PICK w \in chunks[d] : chunks[d] = {w}
        BY <2>2 DEF OnceInv, Replaced
      <3>2. Cardinality({w}) = 1
        BY FS_Singleton
      <3> QED
        BY <3>1, <3>2
    <2> QED
      BY <2>1, <2>2
  <1> QED
    BY <1>1, OnceInvariant, PTL

\* The attempt that is still to come finds the uploaded file.
THEOREM RetryFindsTheFile ==
    ASSUME DeliveredOnce
    PROVE  Spec => []FileKeptForRetry
  <1>1. OnceInv => FileKeptForRetry
    BY DEF OnceInv, IngestionInv, TypeOK, FilesKept, FileKeptForRetry, Pending, Queued,
           Held, Finishing
  <1> QED
    BY <1>1, OnceInvariant, PTL

\* Short of repeated messages and of a failing hand-over to the graph task,
\* ingestion implements DocumentLifecycle: a finished document is not taken
\* back, a deleted one stays deleted.
THEOREM IngestionRefinesLifecycle ==
    ASSUME DeliveredOnce, HandedOver
    PROVE  Spec => ImplementsLifecycle
  <1>1. Init => DL!Init /\ Unfinished
    BY AtFirst
  <1>2. OnceInv /\ Unfinished /\ [Next]_vars => Unfinished'
    BY UnfinishedStep DEF OnceInv, IngestionInv
  <1>3. OnceInv /\ OnceInv' /\ Unfinished /\ [Next]_vars => [DL!Next]_Phase
    BY LifecycleStep DEF OnceInv, IngestionInv
  <1> QED
    BY <1>1, <1>2, <1>3, OnceInvariant, PTL DEF Spec, ImplementsLifecycle, DL!Spec

\* Undisturbed, the counter is the number of completed documents whenever
\* nothing is under way, however often earlier steps are retried.
THEOREM UndisturbedStorageIsExact ==
    ASSUME Undisturbed
    PROVE  Spec => []StorageExact
  <1> USE DEF Undisturbed
  <1>1. Init => ExactInv /\ Unfinished
    <2> SUFFICES ASSUME Init PROVE ExactInv
      BY AtFirst
    <2>1. Counted = {}
      BY DEF Init, Counted, Counting, Completed
    <2> QED
      BY <2>1, FS_EmptySet DEF Init, ExactInv
  <1>2. OnceInv /\ Unfinished /\ [Next]_vars => Unfinished'
    BY UnfinishedStep DEF OnceInv, IngestionInv
  <1>3. OnceInv /\ Unfinished /\ ExactInv /\ [Next]_vars => ExactInv'
    BY ExactStep DEF OnceInv, IngestionInv
  <1>4. ExactInv => StorageExact
    <2> SUFFICES ASSUME ExactInv, Settled PROVE storage = Cardinality(Completed)
      BY DEF StorageExact
    <2>1. Counting = {}
      BY DEF Counting, Settled, Finishing
    <2> QED
      BY <2>1 DEF ExactInv, Counted
  <1> QED
    BY <1>1, <1>2, <1>3, <1>4, OnceInvariant, PTL DEF Spec
=============================================================================
