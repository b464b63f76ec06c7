--------------------------- MODULE WorkspaceProofs ---------------------------
(***************************************************************************)
(* Machine-checked proofs about Workspace, for any users, teams, topics    *)
(* and requests: what a request has found stays true of its topic until    *)
(* another request deletes it, and what hangs on a topic is of its team.   *)
(***************************************************************************)
EXTENDS Workspace, FiniteSetTheorems, TLAPS

\* A topic there was at the start, or whose INSERT has been made.
Born(t) == t \in Given \/ pc[t] \in {"log", "done"}

(* A topic is gone once and for all, and by a deletion that has been       *)
(* answered for.                                                           *)
TopicsGo ==
    /\ \A t \in topics : Born(t)
    /\ \A t \in Topic \ topics :
          Born(t) => \E x \in TopicRemoval : TopicArg[x] = t /\ pc[x] \in {"log", "done"}

(* A request past its access check has found its topic.                    *)
FoundTopic ==
    /\ \A r \in Update : pc[r] = "update" => Born(TopicArg[r])
    /\ \A r \in Upload :
          pc[r] \in {"check", "write", "insert"} /\ TopicArg[r] # None => Born(TopicArg[r])
    /\ \A r \in Question :
          pc[r] \in {"answer", "log", "done"} /\ TopicArg[r] # None =>
              Born(TopicArg[r]) /\ MayUse(By[r], Home(TopicArg[r]))

(* A document is of the team its upload chose, and a topic's documents are  *)
(* of the topic's team.                                                    *)
DocsAtHome ==
    /\ \A d \in Upload : pc[d] = "new" => docTopic[d] = None
    /\ \A d \in Upload : pc[d] \in {"check", "write", "insert"} => docTeam[d] = Chosen(d)
    /\ \A d \in Upload :
          docTopic[d] # None => docTopic[d] \in topics /\ docTeam[d] = Home(docTopic[d])

(* A question that was saved is filed under its topic while there is one,   *)
(* and none under another.                                                 *)
QuestionsFiled ==
    \A q \in Question :
        /\ pc[q] \in {"log", "done"} /\ q \notin lost /\ TopicArg[q] \in topics =>
              q \in history /\ filed[q] = TopicArg[q]
        /\ filed[q] # None => filed[q] = TopicArg[q] /\ pc[q] \in {"log", "done"}

(* Users of other companies are refused.                                   *)
OutsidersOut ==
    \A r \in Request :
        By[r] \in Outsiders /\ pc[r] \notin {"new", "refused"} =>
            r \in DocRemoval /\ By[r] \in Admins

WorkspaceInv ==
    /\ TypeOK
    /\ TopicsGo
    /\ FoundTopic
    /\ DocsAtHome
    /\ QuestionsFiled
    /\ OutsidersOut
    /\ CrashesExplained
    /\ EditsAreKept

-----------------------------------------------------------------------------

(* A step of the worker at a document.                                     *)
Works(d) ==
    \/ StartAttempt(d) \/ ReadRow(d) \/ CountStorage(d) \/ MarkCompleted(d)
    \/ RemoveFile(d) \/ Retry(d) \/ GiveUp(d) \/ Kill(d)

\* Every request and every topic is of one kind.
LEMMA Kinds ==
    /\ Creation \subseteq Request /\ Update \subseteq Request /\ TopicRemoval \subseteq Request
    /\ Upload \subseteq Request /\ DocRemoval \subseteq Request /\ Question \subseteq Request
    /\ Creation \subseteq Topic /\ Given \subseteq Topic
    /\ \A r \in Creation : r \notin Update /\ r \notin TopicRemoval /\ r \notin Upload
                           /\ r \notin DocRemoval /\ r \notin Question /\ r \notin Given
    /\ \A r \in Update : r \notin TopicRemoval /\ r \notin Upload /\ r \notin DocRemoval
                         /\ r \notin Question /\ r # None
    /\ \A r \in TopicRemoval : r \notin Upload /\ r \notin DocRemoval /\ r \notin Question
    /\ \A r \in Upload : r \notin DocRemoval /\ r \notin Question
    /\ \A r \in DocRemoval : r \notin Question
  BY WorkspaceAssumption DEF Request, Topic

\* The arguments of requests are of their types.
LEMMA Arguments ==
    /\ \A r \in Update : TopicArg[r] \in Topic
    /\ \A r \in TopicRemoval : TopicArg[r] \in Topic
    /\ \A r \in Upload : TopicArg[r] \in Topic \cup {None} /\ Size[r] \in Nat
    /\ \A r \in Question : TopicArg[r] \in Topic \cup {None}
    /\ \A t \in Topic : Home(t) \in Team /\ t # None
    /\ \A r \in DocRemoval : DocArg[r] \in Upload
  <1>1. \A t \in Topic : Home(t) \in Team /\ t # None
    BY WorkspaceAssumption DEF Home, Topic
  <1> QED
    BY <1>1, WorkspaceAssumption

\* An upload chooses a team.
LEMMA Choice ==
    ASSUME NEW r \in Upload, Chosen(r) # None, TeamIds[By[r]] # {}
    PROVE  Chosen(r) \in Team
  <1>1. By[r] \in User
    BY WorkspaceAssumption, Kinds
  <1>2. TeamIds[By[r]] \subseteq Team /\ DefaultTeam[By[r]] \in Team \cup {None}
    BY <1>1, WorkspaceAssumption
  <1>3. TeamArg[r] \in Team \cup {None}
    BY WorkspaceAssumption
  <1>4. (CHOOSE t \in TeamIds[By[r]] : TRUE) \in TeamIds[By[r]]
    OBVIOUS
  <1>5. TopicArg[r] # None => Home(TopicArg[r]) \in Team
    BY Arguments
  <1> QED
    BY <1>2, <1>3, <1>4, <1>5 DEF Chosen

\* What a step of the worker changes and what it leaves alone.
LEMMA WorkerFrame ==
    ASSUME TypeOK, NEW d \in Upload, Works(d)
    PROVE  /\ UNCHANGED <<topics, edited, docTopic, docTeam, ahead, history, filed, lost,
                          audit, seen, pc, made>>
           /\ files' = files \/ (files' = files \ {d} /\ task'[d] = "done")
           /\ d \in files' => task'[d] \notin {"none", "done"}
           /\ task[d] # "none" /\ \A e \in Upload \ {d} : task'[e] = task[e]
           /\ docs' = docs \/ \E status \in {"pending", "completed", "failed"} :
                                 SetStatus(d, status)
  <1> USE DEF TypeOK, Started, TaskAt, content, questions
  <1>1. CASE StartAttempt(d)
    BY <1>1 DEF StartAttempt
  <1>2. CASE ReadRow(d)
    BY <1>2 DEF ReadRow
  <1>3. CASE CountStorage(d)
    BY <1>3 DEF CountStorage
  <1>4. CASE MarkCompleted(d)
    BY <1>4 DEF MarkCompleted
  <1>5. CASE RemoveFile(d)
    BY <1>5 DEF RemoveFile
  <1>6. CASE Retry(d)
    BY <1>6 DEF Retry
  <1>7. CASE GiveUp(d)
    BY <1>7 DEF GiveUp
  <1>8. CASE Kill(d)
    BY <1>8 DEF Kill
  <1> QED
    BY <1>1, <1>2, <1>3, <1>4, <1>5, <1>6, <1>7, <1>8 DEF Works

\* A step of the worker is well typed.
LEMMA WorkerTyped ==
    ASSUME TypeOK, NEW d \in Upload, Works(d)
    PROVE  TypeOK'
  <1> USE Arguments DEF TypeOK, Started, TaskAt, SetStatus
  <1>1. /\ UNCHANGED <<topics, edited, docTopic, docTeam, ahead, history, filed, lost,
                       audit, seen, pc, made>>
        /\ files' \subseteq Upload
    BY WorkerFrame
  <1>2. docs' \in [Upload -> {"none", "pending", "completed", "failed", "deleted"}]
    <2> HIDE DEF TaskAt
    <2> QED
      BY WorkerFrame
  <1>3. /\ task' \in [Upload -> Started \cup {"none", "queued", "done", "killed"}]
        /\ used' \in Nat /\ faults' \in Nat /\ counted' \subseteq Upload /\ again' \in Nat
    <2>1. CASE StartAttempt(d)
      BY <2>1 DEF StartAttempt
    <2>2. CASE ReadRow(d)
      BY <2>2 DEF ReadRow
    <2>3. CASE CountStorage(d)
      BY <2>3 DEF CountStorage
    <2>4. CASE MarkCompleted(d)
      BY <2>4 DEF MarkCompleted
    <2>5. CASE RemoveFile(d)
      BY <2>5 DEF RemoveFile
    <2>6. CASE Retry(d)
      BY <2>6 DEF Retry
    <2>7. CASE GiveUp(d)
      BY <2>7 DEF GiveUp
    <2>8. CASE Kill(d)
      BY <2>8 DEF Kill
    <2> QED
      BY <2>1, <2>2, <2>3, <2>4, <2>5, <2>6, <2>7, <2>8 DEF Works
  <1> QED
    BY <1>1, <1>2, <1>3, Kinds DEF Places

\* Every state is well typed.
LEMMA TypeStep ==
    ASSUME TypeOK, [Next]_vars
    PROVE  TypeOK'
  <1> USE Kinds, Arguments
        DEF TypeOK, Places, Goto, Begin, content, documents, uploads, questions
  <1>1. ASSUME NEW r \in Creation, CreateTopic(r) PROVE TypeOK'
    BY <1>1 DEF CreateTopic
  <1>2. ASSUME NEW r \in Update, LoadToUpdate(r) PROVE TypeOK'
    BY <1>2 DEF LoadToUpdate, Finds
  <1>3. ASSUME NEW r \in Update, UpdateTopic(r) PROVE TypeOK'
    BY <1>3 DEF UpdateTopic
  <1>4. ASSUME NEW r \in TopicRemoval, LoadToDelete(r) PROVE TypeOK'
    BY <1>4 DEF LoadToDelete, Finds
  <1>5. ASSUME NEW r \in TopicRemoval, DeleteTopic(r) PROVE TypeOK'
    BY <1>5 DEF DeleteTopic, Unlink
  <1>6. ASSUME NEW r \in Upload, ChooseTeam(r) PROVE TypeOK'
    <2>1. CASE UNCHANGED docTeam
      BY <1>6, <2>1 DEF ChooseTeam
    <2>2. CASE /\ TeamIds[By[r]] # {} /\ Chosen(r) # None
               /\ docTeam' = [docTeam EXCEPT ![r] = Chosen(r)]
      <3>1. Chosen(r) \in Team
        BY <2>2, Choice
      <3>2. docTeam' \in [Upload -> Team \cup {None}]
        BY <3>1, <2>2
      <3> QED
        BY <1>6, <3>2 DEF ChooseTeam
    <2> QED
      BY <1>6, <2>1, <2>2 DEF ChooseTeam
  <1>7. ASSUME NEW r \in Upload, CheckStorage(r) PROVE TypeOK'
    BY <1>7 DEF CheckStorage
  <1>8. ASSUME NEW r \in Upload, WriteFile(r) PROVE TypeOK'
    BY <1>8 DEF WriteFile
  <1>9. ASSUME NEW r \in Upload, InsertDocument(r) PROVE TypeOK'
    <2>1. /\ docTopic' \in [Upload -> Topic \cup {None}]
          /\ docs' \in [Upload -> {"none", "pending", "completed", "failed", "deleted"}]
      BY <1>9 DEF InsertDocument
    <2>2. pc' \in [Request -> Places] /\ UNCHANGED <<made, faults>>
      BY <1>9 DEF InsertDocument
    <2> QED
      BY <1>9, <2>1, <2>2 DEF InsertDocument
  <1>10. ASSUME NEW r \in Upload, SendTask(r) PROVE TypeOK'
    BY <1>10 DEF SendTask
  <1>11. ASSUME NEW r \in Upload, Works(r) PROVE TypeOK'
    BY <1>11, WorkerTyped
  <1>12. ASSUME NEW r \in DocRemoval, ReadDocument(r) PROVE TypeOK'
    BY <1>12 DEF ReadDocument
  <1>13. ASSUME NEW r \in DocRemoval, DropDocument(r) PROVE TypeOK'
    BY <1>13 DEF DropDocument
  <1>14. ASSUME NEW r \in DocRemoval, UncountStorage(r) PROVE TypeOK'
    BY <1>14 DEF UncountStorage
  <1>15. ASSUME NEW r \in Question, CheckScope(r) PROVE TypeOK'
    BY <1>15 DEF CheckScope, Finds
  <1>16. ASSUME NEW r \in Question, AnswerUnsaved(r) PROVE TypeOK'
    BY <1>16 DEF AnswerUnsaved
  <1>17. ASSUME NEW r \in Question, SaveQuestion(r) PROVE TypeOK'
    BY <1>17 DEF SaveQuestion
  <1>18. ASSUME NEW r \in Request, LogEvent(r) PROVE TypeOK'
    BY <1>18 DEF LogEvent
  <1>19. ASSUME NEW r \in Request, CutOff(r) PROVE TypeOK'
    BY <1>19 DEF CutOff
  <1>20. CASE UNCHANGED vars
    BY <1>20 DEF vars
  <1> QED
    BY <1>1, <1>2, <1>3, <1>4, <1>5, <1>6, <1>7, <1>8, <1>9, <1>10, <1>11, <1>12,
       <1>13, <1>14,
       <1>15, <1>16, <1>17, <1>18, <1>19, <1>20 DEF Next, Works

\* What was answered for stays so.
LEMMA AnsweredStep ==
    ASSUME TypeOK, [Next]_vars
    PROVE  \A q \in Request : pc[q] \in {"log", "done"} => pc'[q] \in {"log", "done"}
  <1> DEFINE Answered == \A q \in Request : pc[q] \in {"log", "done"} => pc'[q] \in {"log", "done"}
  <1> USE Kinds DEF TypeOK, Goto, Begin, content, documents, uploads, questions
  <1>1. ASSUME NEW r \in Creation, CreateTopic(r) PROVE Answered
    BY <1>1 DEF CreateTopic
  <1>2. ASSUME NEW r \in Update, LoadToUpdate(r) PROVE Answered
    BY <1>2 DEF LoadToUpdate
  <1>3. ASSUME NEW r \in Update, UpdateTopic(r) PROVE Answered
    BY <1>3 DEF UpdateTopic
  <1>4. ASSUME NEW r \in TopicRemoval, LoadToDelete(r) PROVE Answered
    BY <1>4 DEF LoadToDelete
  <1>5. ASSUME NEW r \in TopicRemoval, DeleteTopic(r) PROVE Answered
    BY <1>5 DEF DeleteTopic
  <1>6. ASSUME NEW r \in Upload, ChooseTeam(r) PROVE Answered
    BY <1>6 DEF ChooseTeam
  <1>7. ASSUME NEW r \in Upload,
                CheckStorage(r) \/ WriteFile(r) \/ SendTask(r)
         PROVE  Answered
    BY <1>7 DEF CheckStorage, WriteFile, SendTask
  <1>8. ASSUME NEW r \in Upload, InsertDocument(r) PROVE Answered
    BY <1>8 DEF InsertDocument
  <1>9. ASSUME NEW r \in Upload, Works(r) PROVE Answered
    BY <1>9, WorkerFrame
  <1>10. ASSUME NEW r \in DocRemoval,
                ReadDocument(r) \/ DropDocument(r) \/ UncountStorage(r)
         PROVE  Answered
    BY <1>10 DEF ReadDocument, DropDocument, UncountStorage
  <1>11. ASSUME NEW r \in Question, CheckScope(r) PROVE Answered
    BY <1>11 DEF CheckScope
  <1>12. ASSUME NEW r \in Question, AnswerUnsaved(r) PROVE Answered
    BY <1>12 DEF AnswerUnsaved
  <1>13. ASSUME NEW r \in Question, SaveQuestion(r) PROVE Answered
    BY <1>13 DEF SaveQuestion
  <1>14. ASSUME NEW r \in Request, LogEvent(r) PROVE Answered
    BY <1>14 DEF LogEvent
  <1>15. ASSUME NEW r \in Request, CutOff(r) PROVE Answered
    BY <1>15 DEF CutOff
  <1>16. CASE UNCHANGED vars
    BY <1>16 DEF vars
  <1> QED
    BY <1>1, <1>2, <1>3, <1>4, <1>5, <1>6, <1>7, <1>8, <1>9, <1>10, <1>11, <1>12,
       <1>13, <1>14,
       <1>15, <1>16 DEF Next, Works

\* A topic comes with its request's INSERT and goes with a deletion.
LEMMA TopicsMove ==
    ASSUME TypeOK, [Next]_vars
    PROVE  \/ /\ topics' = topics
              /\ \A r \in Creation : pc'[r] \in {"log", "done"} => pc[r] \in {"log", "done"}
           \/ \E r \in Creation : /\ topics' = topics \cup {r}
                                  /\ pc[r] = "new" /\ pc' = [pc EXCEPT ![r] = "log"]
           \/ \E x \in TopicRemoval :
                 /\ topics' = topics \ {TopicArg[x]}
                 /\ pc' = [pc EXCEPT ![x] = IF TopicArg[x] \in topics THEN "log" ELSE "refused"]
  <1> DEFINE NoneBorn ==
        \A r \in Creation : pc'[r] \in {"log", "done"} => pc[r] \in {"log", "done"}
  <1> USE Kinds DEF TypeOK, Goto, Begin, content, documents, uploads, questions
  <1>1. ASSUME NEW r \in Creation, CreateTopic(r)
        PROVE  \/ /\ topics' = topics \cup {r}
                  /\ pc[r] = "new" /\ pc' = [pc EXCEPT ![r] = "log"]
               \/ topics' = topics /\ NoneBorn
    BY <1>1 DEF CreateTopic
  <1>2. ASSUME NEW r \in TopicRemoval, DeleteTopic(r)
        PROVE  /\ topics' = topics \ {TopicArg[r]}
               /\ pc' = [pc EXCEPT ![r] = IF TopicArg[r] \in topics THEN "log" ELSE "refused"]
    BY <1>2 DEF DeleteTopic
  <1>3. ASSUME NEW r \in Update, LoadToUpdate(r)
        PROVE  topics' = topics /\ NoneBorn
    BY <1>3 DEF LoadToUpdate
  <1>4. ASSUME NEW r \in Update, UpdateTopic(r)
        PROVE  topics' = topics /\ NoneBorn
    BY <1>4 DEF UpdateTopic
  <1>5. ASSUME NEW r \in TopicRemoval, LoadToDelete(r)
        PROVE  topics' = topics /\ NoneBorn
    BY <1>5 DEF LoadToDelete
  <1>6. ASSUME NEW r \in Upload, ChooseTeam(r)
        PROVE  topics' = topics /\ NoneBorn
    BY <1>6 DEF ChooseTeam
  <1>7. ASSUME NEW r \in Upload, CheckStorage(r) \/ WriteFile(r) \/ SendTask(r)
        PROVE  topics' = topics /\ NoneBorn
    BY <1>7 DEF CheckStorage, WriteFile, SendTask
  <1>8. ASSUME NEW r \in Upload, InsertDocument(r)
        PROVE  topics' = topics /\ NoneBorn
    BY <1>8 DEF InsertDocument
  <1>9. ASSUME NEW r \in Upload, Works(r)
        PROVE  topics' = topics /\ NoneBorn
    BY <1>9, WorkerFrame
  <1>10. ASSUME NEW r \in DocRemoval,
                ReadDocument(r) \/ DropDocument(r) \/ UncountStorage(r)
        PROVE  topics' = topics /\ NoneBorn
    BY <1>10 DEF ReadDocument, DropDocument, UncountStorage
  <1>11. ASSUME NEW r \in Question, CheckScope(r)
        PROVE  topics' = topics /\ NoneBorn
    BY <1>11 DEF CheckScope
  <1>12. ASSUME NEW r \in Question, AnswerUnsaved(r)
        PROVE  topics' = topics /\ NoneBorn
    BY <1>12 DEF AnswerUnsaved
  <1>13. ASSUME NEW r \in Question, SaveQuestion(r)
        PROVE  topics' = topics /\ NoneBorn
    BY <1>13 DEF SaveQuestion
  <1>14. ASSUME NEW r \in Request, LogEvent(r)
        PROVE  topics' = topics /\ NoneBorn
    BY <1>14 DEF LogEvent
  <1>15. ASSUME NEW r \in Request, CutOff(r)
        PROVE  topics' = topics /\ NoneBorn
    BY <1>15 DEF CutOff
  <1>16. CASE UNCHANGED vars
    BY <1>16 DEF vars
  <1> QED
    BY <1>1, <1>2, <1>3, <1>4, <1>5, <1>6, <1>7, <1>8, <1>9, <1>10, <1>11, <1>12,
       <1>13, <1>14, <1>15, <1>16
       DEF Next, Works

\* Only a deletion takes a topic away, and nothing brings it back.
LEMMA TopicsGoStep ==
    ASSUME TypeOK, TopicsGo, [Next]_vars
    PROVE  /\ TopicsGo'
           /\ \A t \in Topic : Born(t) => Born(t)'
           /\ topics' \subseteq topics \cup {r \in Creation : ~Born(r)}
  <1> USE Kinds DEF TypeOK
  <1>1. \A t \in Topic : t \in Given \/ t \in Creation
    BY DEF Topic
  <1>2. \A t \in Topic : Born(t) => Born(t)'
    BY <1>1, AnsweredStep DEF Born
  <1>3. CASE /\ topics' = topics
             /\ \A r \in Creation : pc'[r] \in {"log", "done"} => pc[r] \in {"log", "done"}
    <2>1. \A t \in Topic : Born(t)' => Born(t)
      BY <1>1, <1>3 DEF Born
    <2> QED
      BY <1>2, <1>3, <2>1, AnsweredStep DEF TopicsGo
  <1>4. ASSUME NEW r \in Creation, topics' = topics \cup {r},
               pc[r] = "new", pc' = [pc EXCEPT ![r] = "log"]
        PROVE  /\ TopicsGo'
               /\ topics' \subseteq topics \cup {q \in Creation : ~Born(q)}
    <2>1. \A t \in Topic : Born(t)' => Born(t) \/ t = r
      BY <1>1, <1>4 DEF Born
    <2>2. Born(r)' /\ ~Born(r)
      BY <1>4 DEF Born
    <2> QED
      BY <1>2, <1>4, <2>1, <2>2, AnsweredStep DEF TopicsGo
  <1>5. ASSUME NEW x \in TopicRemoval, topics' = topics \ {TopicArg[x]},
               pc' = [pc EXCEPT ![x] = IF TopicArg[x] \in topics THEN "log" ELSE "refused"]
        PROVE  TopicsGo'
    <2>1. \A t \in Topic : Born(t)' => Born(t)
      BY <1>1, <1>5 DEF Born
    <2>2. TopicArg[x] \in topics => pc'[x] = "log"
      BY <1>5
    <2> QED
      BY <1>2, <1>5, <2>1, <2>2, AnsweredStep DEF TopicsGo
  <1> QED
    BY <1>2, <1>3, <1>4, <1>5, TopicsMove

(* Where a step takes a request past its access check, it has found its    *)
(* topic.                                                                  *)
Passed ==
    /\ \A r \in Update : pc'[r] = "update" => pc[r] = "update" \/ TopicArg[r] \in topics
    /\ \A r \in Upload :
          pc'[r] \in {"check", "write", "insert"} =>
              pc[r] \in {"check", "write", "insert"} \/ TopicArg[r] \in topics \cup {None}
    /\ \A r \in Question :
          pc'[r] \in {"answer", "log", "done"} =>
              \/ pc[r] \in {"answer", "log", "done"}
              \/ TopicArg[r] = None
              \/ Finds(By[r], TopicArg[r])

\* Nobody passes the access check of a topic that is not there.
LEMMA Passing ==
    ASSUME TypeOK, [Next]_vars
    PROVE  Passed
  <1> USE Kinds DEF Passed, TypeOK, Goto, Begin, content, documents, uploads, questions
  <1>1. ASSUME NEW r \in Creation, CreateTopic(r) PROVE Passed
    BY <1>1 DEF CreateTopic
  <1>2. ASSUME NEW r \in Update, LoadToUpdate(r) PROVE Passed
    BY <1>2 DEF LoadToUpdate, Finds
  <1>3. ASSUME NEW r \in Update, UpdateTopic(r) PROVE Passed
    BY <1>3 DEF UpdateTopic
  <1>4. ASSUME NEW r \in TopicRemoval, LoadToDelete(r) PROVE Passed
    BY <1>4 DEF LoadToDelete
  <1>5. ASSUME NEW r \in TopicRemoval, DeleteTopic(r) PROVE Passed
    BY <1>5 DEF DeleteTopic
  <1>6. ASSUME NEW r \in Upload, ChooseTeam(r) PROVE Passed
    BY <1>6 DEF ChooseTeam, Finds
  <1>7. ASSUME NEW r \in Upload, CheckStorage(r) PROVE Passed
    BY <1>7 DEF CheckStorage
  <1>8. ASSUME NEW r \in Upload, WriteFile(r) PROVE Passed
    BY <1>8 DEF WriteFile
  <1>9. ASSUME NEW r \in Upload, InsertDocument(r) PROVE Passed
    BY <1>9 DEF InsertDocument
  <1>10. ASSUME NEW r \in Upload, SendTask(r) PROVE Passed
    BY <1>10 DEF SendTask
  <1>11. ASSUME NEW r \in Upload, Works(r) PROVE Passed
    BY <1>11, WorkerFrame
  <1>12. ASSUME NEW r \in DocRemoval, ReadDocument(r) PROVE Passed
    BY <1>12 DEF ReadDocument
  <1>13. ASSUME NEW r \in DocRemoval, DropDocument(r) PROVE Passed
    BY <1>13 DEF DropDocument
  <1>14. ASSUME NEW r \in DocRemoval, UncountStorage(r) PROVE Passed
    BY <1>14 DEF UncountStorage
  <1>15. ASSUME NEW r \in Question, CheckScope(r) PROVE Passed
    BY <1>15 DEF CheckScope
  <1>16. ASSUME NEW r \in Question, AnswerUnsaved(r) PROVE Passed
    BY <1>16 DEF AnswerUnsaved
  <1>17. ASSUME NEW r \in Question, SaveQuestion(r) PROVE Passed
    BY <1>17 DEF SaveQuestion
  <1>18. ASSUME NEW r \in Request, LogEvent(r) PROVE Passed
    BY <1>18 DEF LogEvent
  <1>19. ASSUME NEW r \in Request, CutOff(r) PROVE Passed
    BY <1>19 DEF CutOff
  <1>20. CASE UNCHANGED vars
    BY <1>20 DEF vars
  <1> QED
    BY <1>1, <1>2, <1>3, <1>4, <1>5, <1>6, <1>7, <1>8, <1>9, <1>10, <1>11, <1>12,
       <1>13, <1>14,
       <1>15, <1>16, <1>17, <1>18, <1>19, <1>20 DEF Next, Works

\* A topic that was found exists, or has existed.
LEMMA FoundTopicStep ==
    ASSUME TypeOK, TopicsGo, FoundTopic, [Next]_vars
    PROVE  FoundTopic'
  <1>1. \A t \in Topic : Born(t) => Born(t)'
    BY TopicsGoStep
  <1>2. \A t \in topics : t \in Topic /\ Born(t)
    BY DEF TypeOK, TopicsGo
  <1>3. Passed
    BY Passing
  <1> QED
    BY <1>1, <1>2, <1>3, Arguments DEF FoundTopic, Passed, Finds

\* A document enters a topic with the topic's team, and leaves it with the topic.
LEMMA DocsAtHomeStep ==
    ASSUME TypeOK, DocsAtHome, [Next]_vars
    PROVE  DocsAtHome'
  <1> USE Kinds, Arguments
        DEF DocsAtHome, TypeOK, Goto, Begin, content, documents, uploads, questions
  <1>1. ASSUME NEW r \in Creation, CreateTopic(r) PROVE DocsAtHome'
    BY <1>1 DEF CreateTopic
  <1>2. ASSUME NEW r \in Update, LoadToUpdate(r) PROVE DocsAtHome'
    BY <1>2 DEF LoadToUpdate, Finds
  <1>3. ASSUME NEW r \in Update, UpdateTopic(r) PROVE DocsAtHome'
    BY <1>3 DEF UpdateTopic
  <1>4. ASSUME NEW r \in TopicRemoval, LoadToDelete(r) PROVE DocsAtHome'
    BY <1>4 DEF LoadToDelete, Finds
  <1>5. ASSUME NEW r \in TopicRemoval, DeleteTopic(r) PROVE DocsAtHome'
    BY <1>5 DEF DeleteTopic, Unlink
  <1>6. ASSUME NEW r \in Upload, ChooseTeam(r) PROVE DocsAtHome'
    BY <1>6 DEF ChooseTeam, Finds
  <1>7. ASSUME NEW r \in Upload,
                CheckStorage(r) \/ WriteFile(r) \/ SendTask(r)
         PROVE  DocsAtHome'
    BY <1>7 DEF CheckStorage, WriteFile, SendTask
  <1>8. ASSUME NEW r \in Upload, InsertDocument(r) PROVE DocsAtHome'
    <2>1. docTeam' = docTeam /\ topics' = topics /\ pc[r] = "insert"
      BY <1>8 DEF InsertDocument
    <2>2. TopicArg[r] # None => docTeam[r] = Home(TopicArg[r])
      BY <2>1 DEF Chosen
    <2>3. \A d \in Upload :
             /\ \/ docTopic'[d] = docTopic[d]
                \/ /\ d = r /\ docTopic'[d] = TopicArg[d]
                   /\ TopicArg[d] \in topics \cup {None}
             /\ pc'[d] = pc[d] \/ (d = r /\ pc'[d] \in {"send", "crashed"})
      BY <1>8 DEF InsertDocument
    <2> QED
      BY <2>1, <2>2, <2>3
  <1>9. ASSUME NEW r \in Upload, Works(r) PROVE DocsAtHome'
    BY <1>9, WorkerFrame
  <1>10. ASSUME NEW r \in DocRemoval,
                ReadDocument(r) \/ DropDocument(r) \/ UncountStorage(r)
         PROVE  DocsAtHome'
    BY <1>10 DEF ReadDocument, DropDocument, UncountStorage
  <1>11. ASSUME NEW r \in Question, CheckScope(r) PROVE DocsAtHome'
    BY <1>11 DEF CheckScope, Finds
  <1>12. ASSUME NEW r \in Question, AnswerUnsaved(r) PROVE DocsAtHome'
    BY <1>12 DEF AnswerUnsaved
  <1>13. ASSUME NEW r \in Question, SaveQuestion(r) PROVE DocsAtHome'
    BY <1>13 DEF SaveQuestion
  <1>14. ASSUME NEW r \in Request, LogEvent(r) PROVE DocsAtHome'
    BY <1>14 DEF LogEvent
  <1>15. ASSUME NEW r \in Request, CutOff(r) PROVE DocsAtHome'
    BY <1>15 DEF CutOff
  <1>16. CASE UNCHANGED vars
    BY <1>16 DEF vars
  <1> QED
    BY <1>1, <1>2, <1>3, <1>4, <1>5, <1>6, <1>7, <1>8, <1>9, <1>10, <1>11, <1>12,
       <1>13, <1>14,
       <1>15, <1>16 DEF Next, Works

\* A question is filed under its topic before it is answered for.
LEMMA QuestionsFiledStep ==
    ASSUME TypeOK, TopicsGo, FoundTopic, QuestionsFiled, [Next]_vars
    PROVE  QuestionsFiled'
  <1> USE Kinds, Arguments
      DEF TopicsGo, FoundTopic, QuestionsFiled, Born, TypeOK,
          Goto, Begin, content, documents, uploads, questions
  <1>1. ASSUME NEW r \in Creation, CreateTopic(r) PROVE QuestionsFiled'
    BY <1>1 DEF CreateTopic
  <1>2. ASSUME NEW r \in Update, LoadToUpdate(r) PROVE QuestionsFiled'
    BY <1>2 DEF LoadToUpdate, Finds
  <1>3. ASSUME NEW r \in Update, UpdateTopic(r) PROVE QuestionsFiled'
    BY <1>3 DEF UpdateTopic
  <1>4. ASSUME NEW r \in TopicRemoval, LoadToDelete(r) PROVE QuestionsFiled'
    BY <1>4 DEF LoadToDelete, Finds
  <1>5. ASSUME NEW r \in TopicRemoval, DeleteTopic(r) PROVE QuestionsFiled'
    BY <1>5 DEF DeleteTopic, Unlink
  <1>6. ASSUME NEW r \in Upload, ChooseTeam(r) PROVE QuestionsFiled'
    BY <1>6 DEF ChooseTeam, Finds
  <1>7. ASSUME NEW r \in Upload,
                CheckStorage(r) \/ WriteFile(r) \/ SendTask(r)
         PROVE  QuestionsFiled'
    BY <1>7 DEF CheckStorage, WriteFile, SendTask
  <1>8. ASSUME NEW r \in Upload, InsertDocument(r) PROVE QuestionsFiled'
    BY <1>8 DEF InsertDocument
  <1>9. ASSUME NEW r \in Upload, Works(r) PROVE QuestionsFiled'
    BY <1>9, WorkerFrame
  <1>10. ASSUME NEW r \in DocRemoval,
                ReadDocument(r) \/ DropDocument(r) \/ UncountStorage(r)
         PROVE  QuestionsFiled'
    BY <1>10 DEF ReadDocument, DropDocument, UncountStorage
  <1>11. ASSUME NEW r \in Question, CheckScope(r) PROVE QuestionsFiled'
    BY <1>11 DEF CheckScope, Finds
  <1>12. ASSUME NEW r \in Question, AnswerUnsaved(r) PROVE QuestionsFiled'
    BY <1>12 DEF AnswerUnsaved
  <1>13. ASSUME NEW r \in Question, SaveQuestion(r) PROVE QuestionsFiled'
    BY <1>13 DEF SaveQuestion
  <1>14. ASSUME NEW r \in Request, LogEvent(r) PROVE QuestionsFiled'
    BY <1>14 DEF LogEvent
  <1>15. ASSUME NEW r \in Request, CutOff(r) PROVE QuestionsFiled'
    BY <1>15 DEF CutOff
  <1>16. CASE UNCHANGED vars
    BY <1>16 DEF vars
  <1> QED
    BY <1>1, <1>2, <1>3, <1>4, <1>5, <1>6, <1>7, <1>8, <1>9, <1>10, <1>11, <1>12,
       <1>13, <1>14,
       <1>15, <1>16 DEF Next, Works

\* Nobody of another company passes an access check, but for an admin who
\* removes a document.
LEMMA OutsidersOutStep ==
    ASSUME TypeOK, OutsidersOut, [Next]_vars
    PROVE  OutsidersOut'
  <1> USE Kinds, Arguments DEF OutsidersOut, TypeOK, Goto, Begin, MayUse, Finds
  <1>1. ASSUME NEW r \in Creation, CreateTopic(r) PROVE OutsidersOut'
    BY <1>1 DEF CreateTopic
  <1>2. ASSUME NEW r \in Update, LoadToUpdate(r) PROVE OutsidersOut'
    BY <1>2 DEF LoadToUpdate
  <1>3. ASSUME NEW r \in Update, UpdateTopic(r) PROVE OutsidersOut'
    BY <1>3 DEF UpdateTopic
  <1>4. ASSUME NEW r \in TopicRemoval, LoadToDelete(r) PROVE OutsidersOut'
    BY <1>4 DEF LoadToDelete
  <1>5. ASSUME NEW r \in TopicRemoval, DeleteTopic(r) PROVE OutsidersOut'
    BY <1>5 DEF DeleteTopic
  <1>6. ASSUME NEW r \in Upload, ChooseTeam(r) PROVE OutsidersOut'
    BY <1>6 DEF ChooseTeam
  <1>7. ASSUME NEW r \in Upload, CheckStorage(r) PROVE OutsidersOut'
    BY <1>7 DEF CheckStorage
  <1>8. ASSUME NEW r \in Upload, WriteFile(r) PROVE OutsidersOut'
    BY <1>8 DEF WriteFile
  <1>9. ASSUME NEW r \in Upload, InsertDocument(r) PROVE OutsidersOut'
    BY <1>9 DEF InsertDocument
  <1>10. ASSUME NEW r \in Upload, SendTask(r) PROVE OutsidersOut'
    BY <1>10 DEF SendTask
  <1>11. ASSUME NEW r \in Upload, Works(r) PROVE OutsidersOut'
    BY <1>11, WorkerFrame
  <1>12. ASSUME NEW r \in DocRemoval, ReadDocument(r) PROVE OutsidersOut'
    <2>1. /\ pc[r] = "new" /\ \A q \in Request \ {r} : pc'[q] = pc[q]
          /\ pc'[r] \in {"drop", "refused"}
          /\ pc'[r] = "drop" => By[r] \in Admins \cup {By[DocArg[r]]}
                                /\ CanAccess(By[r], docTeam[DocArg[r]])
      BY <1>12 DEF ReadDocument
    <2>2. By[r] \in Outsiders /\ CanAccess(By[r], docTeam[DocArg[r]]) => By[r] \in Admins
      BY WorkspaceAssumption DEF CanAccess
    <2> QED
      BY <2>1, <2>2
  <1>13. ASSUME NEW r \in DocRemoval, DropDocument(r) PROVE OutsidersOut'
    BY <1>13 DEF DropDocument
  <1>14. ASSUME NEW r \in DocRemoval, UncountStorage(r) PROVE OutsidersOut'
    BY <1>14 DEF UncountStorage
  <1>15. ASSUME NEW r \in Question, CheckScope(r) PROVE OutsidersOut'
    BY <1>15, WorkspaceAssumption DEF CheckScope
  <1>16. ASSUME NEW r \in Question, AnswerUnsaved(r) PROVE OutsidersOut'
    BY <1>16 DEF AnswerUnsaved
  <1>17. ASSUME NEW r \in Question, SaveQuestion(r) PROVE OutsidersOut'
    BY <1>17 DEF SaveQuestion
  <1>18. ASSUME NEW r \in Request, LogEvent(r) PROVE OutsidersOut'
    BY <1>18 DEF LogEvent
  <1>19. ASSUME NEW r \in Request, CutOff(r) PROVE OutsidersOut'
    BY <1>19 DEF CutOff
  <1>20. CASE UNCHANGED vars
    BY <1>20 DEF vars
  <1> QED
    BY <1>1, <1>2, <1>3, <1>4, <1>5, <1>6, <1>7, <1>8, <1>9, <1>10, <1>11, <1>12,
       <1>13, <1>14, <1>15, <1>16, <1>17, <1>18, <1>19, <1>20 DEF Next, Works

\* A topic that was found and is gone at the next statement was deleted.
LEMMA CrashesExplainedStep ==
    ASSUME TypeOK, TopicsGo, FoundTopic, CrashesExplained, [Next]_vars
    PROVE  CrashesExplained'
  <1> USE Kinds, Arguments
      DEF TopicsGo, FoundTopic, CrashesExplained, Born, TypeOK,
          Goto, Begin, content, documents, uploads, questions
  <1>1. ASSUME NEW r \in Creation, CreateTopic(r) PROVE CrashesExplained'
    BY <1>1 DEF CreateTopic
  <1>2. ASSUME NEW r \in Update, LoadToUpdate(r) PROVE CrashesExplained'
    BY <1>2 DEF LoadToUpdate, Finds
  <1>3. ASSUME NEW r \in Update, UpdateTopic(r) PROVE CrashesExplained'
    <2>1. /\ UNCHANGED <<files, task>>
          /\ \A q \in Request \ {r} : pc'[q] = pc[q]
          /\ pc[r] = "update"
          /\ pc'[r] = "crashed" => TopicArg[r] \notin topics
      BY <1>3 DEF UpdateTopic
    <2>2. pc'[r] = "crashed" =>
             \E x \in TopicRemoval : TopicArg[x] = TopicArg[r] /\ pc[x] \in {"log", "done"}
      BY <2>1
    <2>3. \A x \in TopicRemoval : pc'[x] = pc[x]
      BY <2>1
    <2>4. \A q \in Update \cup Upload : pc'[q] = "crashed" =>
             \E x \in TopicRemoval : TopicArg[x] = TopicArg[q] /\ pc'[x] \in {"log", "done"}
      BY <2>1, <2>2, <2>3
    <2>5. \A d \in files' : \/ task'[d] \notin {"none", "done"}
                            \/ pc'[d] \in {"insert", "send", "crashed", "cut"}
      BY <2>1
    <2> QED
      BY <2>4, <2>5
  <1>4. ASSUME NEW r \in TopicRemoval, LoadToDelete(r) PROVE CrashesExplained'
    BY <1>4 DEF LoadToDelete, Finds
  <1>5. ASSUME NEW r \in TopicRemoval, DeleteTopic(r) PROVE CrashesExplained'
    <2>1. /\ UNCHANGED <<files, task>>
          /\ \A q \in Request \ {r} : pc'[q] = pc[q]
          /\ pc[r] = "delete"
      BY <1>5 DEF DeleteTopic
    <2> QED
      BY <2>1
  <1>6. ASSUME NEW r \in Upload, ChooseTeam(r) PROVE CrashesExplained'
    BY <1>6 DEF ChooseTeam, Finds
  <1>7. ASSUME NEW r \in Upload, CheckStorage(r) PROVE CrashesExplained'
    BY <1>7 DEF CheckStorage
  <1>8. ASSUME NEW r \in Upload, WriteFile(r) PROVE CrashesExplained'
    <2>1. CASE pc' = [pc EXCEPT ![r] = "insert"] /\ files' = files \cup {r}
      BY <1>8, <2>1 DEF WriteFile
    <2>2. CASE pc' = [pc EXCEPT ![r] = "refused"] /\ files' = files
      BY <1>8, <2>2 DEF WriteFile
    <2> QED
      BY <1>8, <2>1, <2>2 DEF WriteFile
  <1>9. ASSUME NEW r \in Upload, InsertDocument(r) PROVE CrashesExplained'
    <2>1. /\ UNCHANGED <<files, task, topics>>
          /\ \A q \in Request \ {r} : pc'[q] = pc[q]
          /\ pc[r] = "insert" /\ pc'[r] \in {"send", "crashed"}
          /\ pc'[r] = "crashed" => TopicArg[r] \notin topics \cup {None}
      BY <1>9 DEF InsertDocument
    <2>2. pc'[r] = "crashed" =>
             \E x \in TopicRemoval : TopicArg[x] = TopicArg[r] /\ pc[x] \in {"log", "done"}
      BY <2>1
    <2>3. \A x \in TopicRemoval : pc'[x] = pc[x]
      BY <2>1
    <2>4. \A q \in Update \cup Upload : pc'[q] = "crashed" =>
             \E x \in TopicRemoval : TopicArg[x] = TopicArg[q] /\ pc'[x] \in {"log", "done"}
      BY <2>1, <2>2, <2>3
    <2>5. \A d \in files' : \/ task'[d] \notin {"none", "done"}
                            \/ pc'[d] \in {"insert", "send", "crashed", "cut"}
      BY <2>1
    <2> QED
      BY <2>4, <2>5
  <1>10. ASSUME NEW r \in Upload, SendTask(r) PROVE CrashesExplained'
    BY <1>10 DEF SendTask
  <1>11. ASSUME NEW r \in Upload, Works(r) PROVE CrashesExplained'
    BY <1>11, WorkerFrame
  <1>12. ASSUME NEW r \in DocRemoval, ReadDocument(r) PROVE CrashesExplained'
    BY <1>12 DEF ReadDocument
  <1>13. ASSUME NEW r \in DocRemoval, DropDocument(r) PROVE CrashesExplained'
    BY <1>13 DEF DropDocument
  <1>14. ASSUME NEW r \in DocRemoval, UncountStorage(r) PROVE CrashesExplained'
    BY <1>14 DEF UncountStorage
  <1>15. ASSUME NEW r \in Question, CheckScope(r) PROVE CrashesExplained'
    BY <1>15 DEF CheckScope, Finds
  <1>16. ASSUME NEW r \in Question, AnswerUnsaved(r) PROVE CrashesExplained'
    BY <1>16 DEF AnswerUnsaved
  <1>17. ASSUME NEW r \in Question, SaveQuestion(r) PROVE CrashesExplained'
    BY <1>17 DEF SaveQuestion
  <1>18. ASSUME NEW r \in Request, LogEvent(r) PROVE CrashesExplained'
    BY <1>18 DEF LogEvent
  <1>19. ASSUME NEW r \in Request, CutOff(r) PROVE CrashesExplained'
    BY <1>19 DEF CutOff
  <1>20. CASE UNCHANGED vars
    BY <1>20 DEF vars
  <1> QED
    BY <1>1, <1>2, <1>3, <1>4, <1>5, <1>6, <1>7, <1>8, <1>9, <1>10, <1>11, <1>12,
       <1>13, <1>14,
       <1>15, <1>16, <1>17, <1>18, <1>19, <1>20 DEF Next, Works

\* An update sets the fields it gives and no other.
LEMMA EditsAreKeptStep ==
    ASSUME TypeOK, EditsAreKept, [Next]_vars
    PROVE  EditsAreKept'
  <1> USE Kinds, Arguments, WorkspaceAssumption
        DEF EditsAreKept, TypeOK, Goto, Begin, content, documents, uploads,
            questions
  <1>1. ASSUME NEW r \in Creation, CreateTopic(r) PROVE EditsAreKept'
    BY <1>1 DEF CreateTopic
  <1>2. ASSUME NEW r \in Update, LoadToUpdate(r) PROVE EditsAreKept'
    BY <1>2 DEF LoadToUpdate, Finds
  <1>3. ASSUME NEW r \in Update, UpdateTopic(r) PROVE EditsAreKept'
    BY <1>3 DEF UpdateTopic
  <1>4. ASSUME NEW r \in TopicRemoval, LoadToDelete(r) PROVE EditsAreKept'
    BY <1>4 DEF LoadToDelete, Finds
  <1>5. ASSUME NEW r \in TopicRemoval, DeleteTopic(r) PROVE EditsAreKept'
    BY <1>5 DEF DeleteTopic, Unlink
  <1>6. ASSUME NEW r \in Upload, ChooseTeam(r) PROVE EditsAreKept'
    BY <1>6 DEF ChooseTeam, Finds
  <1>7. ASSUME NEW r \in Upload,
                CheckStorage(r) \/ WriteFile(r) \/ SendTask(r)
         PROVE  EditsAreKept'
    BY <1>7 DEF CheckStorage, WriteFile, SendTask
  <1>8. ASSUME NEW r \in Upload, InsertDocument(r) PROVE EditsAreKept'
    BY <1>8 DEF InsertDocument
  <1>9. ASSUME NEW r \in Upload, Works(r) PROVE EditsAreKept'
    BY <1>9, WorkerFrame
  <1>10. ASSUME NEW r \in DocRemoval,
                ReadDocument(r) \/ DropDocument(r) \/ UncountStorage(r)
         PROVE  EditsAreKept'
    BY <1>10 DEF ReadDocument, DropDocument, UncountStorage
  <1>11. ASSUME NEW r \in Question, CheckScope(r) PROVE EditsAreKept'
    BY <1>11 DEF CheckScope, Finds
  <1>12. ASSUME NEW r \in Question, AnswerUnsaved(r) PROVE EditsAreKept'
    BY <1>12 DEF AnswerUnsaved
  <1>13. ASSUME NEW r \in Question, SaveQuestion(r) PROVE EditsAreKept'
    BY <1>13 DEF SaveQuestion
  <1>14. ASSUME NEW r \in Request, LogEvent(r) PROVE EditsAreKept'
    BY <1>14 DEF LogEvent
  <1>15. ASSUME NEW r \in Request, CutOff(r) PROVE EditsAreKept'
    BY <1>15 DEF CutOff
  <1>16. CASE UNCHANGED vars
    BY <1>16 DEF vars
  <1> QED
    BY <1>1, <1>2, <1>3, <1>4, <1>5, <1>6, <1>7, <1>8, <1>9, <1>10, <1>11, <1>12,
       <1>13, <1>14,
       <1>15, <1>16 DEF Next, Works

-----------------------------------------------------------------------------
(* Storage.                                                                *)

Flying == {d \in Upload : InFlight(d)}

(* Stale uploads that were counted, or may yet be.                         *)
Stale == {d \in Upload : ahead[d] # {} /\ (InFlight(d) \/ d \in counted)}

(* An upload is checked once, before there is a document or a task of it,   *)
(* and counted by the task; and what a removal drops there was.            *)
CheckedOnce ==
    /\ \A d \in Upload :
          /\ pc[d] \in {"new", "check"} => ahead[d] = {}
          /\ pc[d] \in {"new", "check", "write", "insert"} => docs[d] = "none"
          /\ pc[d] = "send" => docs[d] # "none"
          /\ pc[d] = "send" \/ docs[d] = "none" => task[d] = "none"
          /\ task[d] = "none" => d \notin counted
    /\ \A r \in DocRemoval : pc[r] = "drop" => docs[DocArg[r]] # "none"

(* Whatever is in flight has its place, within the plan or on a stale      *)
(* check, before it is counted.                                            *)
PlacesTaken ==
    used + Cardinality(Bytes(Flying)) <= MaxStorage + Cardinality(Bytes(Stale)) + again

RoomInv == CheckedOnce /\ PlacesTaken

\* The bytes of uploads are finitely many.
LEMMA BytesFinite ==
    ASSUME NEW D \in SUBSET Upload
    PROVE  IsFiniteSet(Bytes(D)) /\ Cardinality(Bytes(D)) \in Nat
  <1>1. Bytes(D) \in SUBSET Bytes(Upload)
    BY DEF Bytes
  <1>2. IsFiniteSet(Bytes(Upload))
    <2> DEFINE parts == {{d} \X (1..Size[d]) : d \in Upload}
    <2>1. IsFiniteSet(parts)
      <3> DEFINE part == [d \in Upload |-> {d} \X (1..Size[d])]
      <3>1. part \in Surjection(Upload, parts)
        BY DEF Surjection
      <3> QED
        BY <3>1, FS_Surjection, WorkspaceAssumption
    <2>2. \A P \in parts : IsFiniteSet(P)
      <3> SUFFICES ASSUME NEW d \in Upload PROVE IsFiniteSet({d} \X (1..Size[d]))
        OBVIOUS
      <3>1. Size[d] \in Nat
        BY WorkspaceAssumption
      <3>2. IsFiniteSet({d})
        BY FS_Singleton
      <3>3. IsFiniteSet(1..Size[d])
        BY <3>1, FS_Interval
      <3> QED
        BY <3>2, <3>3, FS_Product
    <2> QED
      BY <2>1, <2>2, FS_UNION DEF Bytes
  <1> QED
    BY <1>1, <1>2, FS_Subset, FS_CardinalityType

\* One more upload is its size in bytes more.
LEMMA BytesAdd ==
    ASSUME NEW D \in SUBSET Upload, NEW d \in Upload \ D
    PROVE  Cardinality(Bytes(D \cup {d})) = Cardinality(Bytes(D)) + Size[d]
  <1> DEFINE file == {d} \X (1..Size[d])
  <1>1. IsFiniteSet(Bytes(D)) /\ Cardinality(Bytes(D)) \in Nat
    BY BytesFinite
  <1>2. IsFiniteSet(file) /\ Cardinality(file) = Size[d]
    <2>1. Size[d] \in Nat
      BY WorkspaceAssumption
    <2>2. IsFiniteSet(1..Size[d]) /\ Cardinality(1..Size[d]) = Size[d]
      BY <2>1, FS_Interval
    <2>3. IsFiniteSet({d}) /\ Cardinality({d}) = 1
      BY FS_Singleton
    <2>4. IsFiniteSet(file) /\ Cardinality(file) = 1 * Cardinality(1..Size[d])
      BY <2>2, <2>3, FS_Product
    <2> QED
      BY <2>1, <2>2, <2>4
  <1>3. Bytes(D \cup {d}) = Bytes(D) \cup file
    BY DEF Bytes
  <1>4. Bytes(D) \cap file = {}
    BY DEF Bytes
  <1>5. Cardinality(Bytes(D) \cap file) = 0
    BY <1>4, FS_EmptySet
  <1>6. IsFiniteSet(Bytes(D) \cup file)
        /\ Cardinality(Bytes(D) \cup file) = Cardinality(Bytes(D)) + Cardinality(file)
                                              - Cardinality(Bytes(D) \cap file)
    BY <1>1, <1>2, FS_Union
  <1>7. Size[d] \in Nat
    BY WorkspaceAssumption
  <1> HIDE DEF file
  <1>8. Cardinality(Bytes(D \cup {d})) = Cardinality(Bytes(D) \cup file)
    BY <1>3
  <1> QED
    BY <1>1, <1>2, <1>5, <1>6, <1>7, <1>8

\* Fewer uploads are no more bytes.
LEMMA BytesMonotone ==
    ASSUME NEW E \in SUBSET Upload, NEW D \in SUBSET E
    PROVE  Cardinality(Bytes(D)) <= Cardinality(Bytes(E))
  <1>1. Bytes(D) \in SUBSET Bytes(E)
    BY DEF Bytes
  <1> QED
    BY <1>1, BytesFinite, FS_Subset

\* An upload that stays in flight no longer, and did not come to be counted,
\* leaves its place.
LEMMA Leaving ==
    ASSUME TypeOK, PlacesTaken, UNCHANGED <<used, ahead, again>>,
           NEW d \in Upload, Flying' = Flying \ {d},
           Stale \ {d} \subseteq Stale', d \in Stale \ Stale' => d \in Flying
    PROVE  PlacesTaken'
  <1>1. /\ Flying \in SUBSET Upload /\ Flying \ {d} \in SUBSET Upload
        /\ Stale \in SUBSET Upload /\ Stale \ {d} \in SUBSET Upload /\ Stale' \in SUBSET Upload
    BY DEF Flying, Stale
  <1>2. /\ Cardinality(Bytes(Flying)) \in Nat /\ Cardinality(Bytes(Flying \ {d})) \in Nat
        /\ Cardinality(Bytes(Stale)) \in Nat /\ Cardinality(Bytes(Stale \ {d})) \in Nat
        /\ Cardinality(Bytes(Stale')) \in Nat
        /\ Size[d] \in Nat /\ MaxStorage \in Nat /\ used \in Nat /\ again \in Nat
    BY <1>1, BytesFinite, WorkspaceAssumption DEF TypeOK
  <1>3. /\ Cardinality(Bytes(Flying))' = Cardinality(Bytes(Flying \ {d}))
        /\ Cardinality(Bytes(Stale))' = Cardinality(Bytes(Stale'))
    BY DEF Bytes
  <1>4. CASE d \in Stale \ Stale'
    <2>1. Cardinality(Bytes(Flying)) = Cardinality(Bytes(Flying \ {d})) + Size[d]
      <3>1. (Flying \ {d}) \cup {d} = Flying
        BY <1>4
      <3>2. Cardinality(Bytes((Flying \ {d}) \cup {d})) = Cardinality(Bytes(Flying \ {d})) + Size[d]
        BY <1>1, BytesAdd
      <3> QED
        BY <3>1, <3>2
    <2>2. Cardinality(Bytes(Stale)) = Cardinality(Bytes(Stale \ {d})) + Size[d]
      <3>1. (Stale \ {d}) \cup {d} = Stale
        BY <1>4
      <3>2. Cardinality(Bytes((Stale \ {d}) \cup {d})) = Cardinality(Bytes(Stale \ {d})) + Size[d]
        BY <1>1, BytesAdd
      <3> QED
        BY <3>1, <3>2
    <2>3. Cardinality(Bytes(Stale \ {d})) <= Cardinality(Bytes(Stale'))
      BY <1>1, BytesMonotone
    <2> QED
      BY <1>2, <1>3, <2>1, <2>2, <2>3 DEF PlacesTaken
  <1>5. CASE d \notin Stale \ Stale'
    <2>1. Cardinality(Bytes(Stale)) <= Cardinality(Bytes(Stale'))
      <3>1. Stale \in SUBSET Stale'
        BY <1>5
      <3> QED
        BY <1>1, <3>1, BytesMonotone
    <2>2. Cardinality(Bytes(Flying \ {d})) <= Cardinality(Bytes(Flying))
      BY <1>1, BytesMonotone
    <2> QED
      BY <1>2, <1>3, <2>1, <2>2 DEF PlacesTaken
  <1> QED
    BY <1>4, <1>5

\* The check gives an upload a place in the plan if nothing is in flight, and
\* on its stale check otherwise.
LEMMA CheckTakesPlace ==
    ASSUME TypeOK, RoomInv, NEW r \in Upload, CheckStorage(r)
    PROVE  PlacesTaken'
  <1>1. /\ pc[r] = "check" /\ ahead[r] = {} /\ docs[r] = "none"
        /\ task[r] = "none" /\ r \notin counted
        /\ pc' = [pc EXCEPT ![r] = IF used + Size[r] > MaxStorage THEN "refused" ELSE "write"]
        /\ ahead' = [ahead EXCEPT ![r] = Flying \ {r}]
        /\ UNCHANGED <<docs, used, task, counted, again>>
    BY DEF CheckStorage, Goto, RoomInv, CheckedOnce, documents, Flying, InFlight
  <1>2. /\ Flying \in SUBSET Upload /\ Stale \in SUBSET Upload
        /\ r \notin Flying /\ r \notin Stale
    BY <1>1 DEF Flying, InFlight, Stale, Exists
  <1>3. /\ Cardinality(Bytes(Flying)) \in Nat /\ Cardinality(Bytes(Stale)) \in Nat
        /\ Size[r] \in Nat /\ MaxStorage \in Nat /\ used \in Nat /\ again \in Nat
    BY <1>2, BytesFinite, WorkspaceAssumption DEF TypeOK
  <1>4. \A d \in Upload \ {r} : pc'[d] = pc[d] /\ ahead'[d] = ahead[d]
    BY <1>1, Kinds DEF TypeOK
  <1>5. r \in Request /\ Bytes(Flying)' = Bytes(Flying') /\ Bytes(Stale)' = Bytes(Stale')
    BY Kinds DEF Bytes
  <1>6. CASE used + Size[r] > MaxStorage
    <2>1. pc'[r] = "refused"
      BY <1>1, <1>5, <1>6 DEF TypeOK
    <2>2. Flying' = Flying /\ Stale' = Stale
      BY <1>1, <1>2, <1>4, <2>1 DEF Flying, InFlight, Stale, Exists
    <2> QED
      BY <1>1, <1>5, <2>2 DEF RoomInv, PlacesTaken
  <1>7. CASE ~(used + Size[r] > MaxStorage)
    <2>1. pc'[r] = "write" /\ ahead'[r] = Flying
      BY <1>1, <1>2, <1>5, <1>7 DEF TypeOK
    <2>2. /\ Flying' = Flying \cup {r}
          /\ Stale' = IF Flying = {} THEN Stale ELSE Stale \cup {r}
      BY <1>1, <1>4, <1>2, <2>1 DEF Flying, InFlight, Stale, Exists
    <2>3. Cardinality(Bytes(Flying \cup {r})) = Cardinality(Bytes(Flying)) + Size[r]
      BY <1>2, BytesAdd
    <2>4. CASE Flying = {}
      <3>1. Cardinality(Bytes(Flying)) = 0
        BY <2>4, FS_EmptySet DEF Bytes
      <3> QED
        BY <1>1, <1>3, <1>5, <1>7, <2>2, <2>3, <2>4, <3>1 DEF PlacesTaken
    <2>5. CASE Flying # {}
      <3>1. Cardinality(Bytes(Stale \cup {r})) = Cardinality(Bytes(Stale)) + Size[r]
        BY <1>2, BytesAdd
      <3> QED
        BY <1>1, <1>3, <1>5, <2>2, <2>3, <2>5, <3>1 DEF RoomInv, PlacesTaken
    <2> QED
      BY <2>4, <2>5
  <1> QED
    BY <1>6, <1>7

\* Where uploads are in flight as before, and no more is counted, their places
\* are enough.
LEMMA SamePlaces ==
    ASSUME TypeOK, PlacesTaken, used' \in Nat, used' <= used,
           UNCHANGED <<ahead, counted, again>>,
           \A d \in Upload : InFlight(d)' <=> InFlight(d)
    PROVE  PlacesTaken'
  <1>1. Flying' = Flying /\ Stale' = Stale
    BY DEF Flying, Stale
  <1>2. /\ Cardinality(Bytes(Flying))' = Cardinality(Bytes(Flying))
        /\ Cardinality(Bytes(Stale))' = Cardinality(Bytes(Stale))
    BY <1>1 DEF Bytes
  <1>3. /\ Cardinality(Bytes(Flying)) \in Nat /\ Cardinality(Bytes(Stale)) \in Nat
        /\ MaxStorage \in Nat /\ used \in Nat /\ again \in Nat
    <2>1. Flying \in SUBSET Upload /\ Stale \in SUBSET Upload
      BY DEF Flying, Stale
    <2> QED
      BY <2>1, BytesFinite, WorkspaceAssumption DEF TypeOK
  <1> QED
    BY <1>2, <1>3 DEF PlacesTaken

\* A file that is counted had its place.
LEMMA CountingKeepsPlaces ==
    ASSUME TypeOK, RoomInv, NEW d \in Upload, d \notin counted, CountStorage(d)
    PROVE  PlacesTaken'
  <1>1. Flying' = Flying \ {d} /\ Stale' = Stale /\ d \in Flying
    <2>1. /\ task[d] = "count" /\ task' = [task EXCEPT ![d] = "complete"]
          /\ counted' = counted \cup {d} /\ UNCHANGED <<ahead, pc, docs>>
      BY DEF CountStorage, TaskAt
    <2> QED
      BY <2>1 DEF Flying, Stale, InFlight, Exists, TypeOK
  <1>2. Flying \ {d} \in SUBSET Upload /\ Stale \in SUBSET Upload
    BY DEF Flying, Stale
  <1>3. Cardinality(Bytes(Flying)) = Cardinality(Bytes(Flying \ {d})) + Size[d]
    <2>1. (Flying \ {d}) \cup {d} = Flying
      BY <1>1
    <2>2. Cardinality(Bytes((Flying \ {d}) \cup {d})) = Cardinality(Bytes(Flying \ {d})) + Size[d]
      BY <1>2, BytesAdd
    <2> QED
      BY <2>1, <2>2
  <1>4. /\ Cardinality(Bytes(Flying))' = Cardinality(Bytes(Flying \ {d}))
        /\ Cardinality(Bytes(Stale))' = Cardinality(Bytes(Stale))
    BY <1>1 DEF Bytes
  <1>5. /\ Cardinality(Bytes(Flying \ {d})) \in Nat /\ Cardinality(Bytes(Stale)) \in Nat
        /\ Size[d] \in Nat /\ MaxStorage \in Nat /\ used \in Nat /\ again \in Nat
    BY <1>2, BytesFinite, WorkspaceAssumption DEF TypeOK
  <1>6. used' = used + Size[d] /\ again' = again
    BY <1>5 DEF CountStorage
  <1> QED
    BY <1>3, <1>4, <1>5, <1>6 DEF RoomInv, PlacesTaken

\* The worker brings no document into being, ends no task for good, and counts
\* what it works at.
LEMMA WorkerKeeps ==
    ASSUME TypeOK, NEW d \in Upload, Works(d)
    PROVE  /\ UNCHANGED <<ahead, pc>> /\ task[d] # "none" /\ task'[d] # "none"
           /\ \A e \in Upload : docs'[e] = "none" <=> docs[e] = "none"
           /\ \A e \in Upload : Exists(e)' <=> Exists(e)
           /\ \A e \in Upload \ {d} : task'[e] = task[e] /\ (e \in counted' <=> e \in counted)
  <1>1. /\ UNCHANGED <<ahead, pc>> /\ task[d] # "none"
        /\ \A e \in Upload \ {d} : task'[e] = task[e]
        /\ docs' = docs \/ \E status \in {"pending", "completed", "failed"} : SetStatus(d, status)
    BY WorkerFrame
  <1>2. /\ \A e \in Upload : docs'[e] = "none" <=> docs[e] = "none"
        /\ \A e \in Upload : Exists(e)' <=> Exists(e)
    BY <1>1 DEF SetStatus, Exists, TypeOK
  <1>3. /\ task'[d] # "none"
        /\ counted' \in {counted, counted \cup {d}}
    BY DEF Works, StartAttempt, ReadRow, CountStorage, MarkCompleted, RemoveFile, Retry,
           GiveUp, Kill, TaskAt, TypeOK
  <1> QED
    BY <1>1, <1>2, <1>3

\* An upload is checked once, and a document is dropped that there was.
LEMMA CheckedOnceStep ==
    ASSUME TypeOK, CheckedOnce, [Next]_vars
    PROVE  CheckedOnce'
  <1> USE Kinds, Arguments
      DEF TypeOK, Goto, Begin, content, documents, uploads, questions, CheckedOnce
  <1>1. ASSUME NEW r \in Creation, CreateTopic(r) PROVE CheckedOnce'
    BY <1>1 DEF CreateTopic
  <1>2. ASSUME NEW r \in Update, LoadToUpdate(r) PROVE CheckedOnce'
    BY <1>2 DEF LoadToUpdate
  <1>3. ASSUME NEW r \in Update, UpdateTopic(r) PROVE CheckedOnce'
    BY <1>3 DEF UpdateTopic
  <1>4. ASSUME NEW r \in TopicRemoval, LoadToDelete(r) PROVE CheckedOnce'
    BY <1>4 DEF LoadToDelete
  <1>5. ASSUME NEW r \in TopicRemoval, DeleteTopic(r) PROVE CheckedOnce'
    BY <1>5 DEF DeleteTopic, Unlink
  <1>6. ASSUME NEW r \in Upload, ChooseTeam(r) PROVE CheckedOnce'
    BY <1>6 DEF ChooseTeam
  <1>7. ASSUME NEW r \in Upload, SendTask(r) PROVE CheckedOnce'
    BY <1>7 DEF SendTask
  <1>8. ASSUME NEW r \in DocRemoval, ReadDocument(r) PROVE CheckedOnce'
    BY <1>8 DEF ReadDocument, Exists
  <1>9. ASSUME NEW r \in Question, CheckScope(r) PROVE CheckedOnce'
    BY <1>9 DEF CheckScope
  <1>10. ASSUME NEW r \in Question, AnswerUnsaved(r) PROVE CheckedOnce'
    BY <1>10 DEF AnswerUnsaved
  <1>11. ASSUME NEW r \in Question, SaveQuestion(r) PROVE CheckedOnce'
    BY <1>11 DEF SaveQuestion
  <1>12. ASSUME NEW r \in Request, LogEvent(r) PROVE CheckedOnce'
    BY <1>12 DEF LogEvent
  <1>13. ASSUME NEW r \in Upload, CheckStorage(r) PROVE CheckedOnce'
    BY <1>13 DEF CheckStorage
  <1>14. ASSUME NEW r \in Upload, WriteFile(r) PROVE CheckedOnce'
    BY <1>14 DEF WriteFile
  <1>15. ASSUME NEW r \in Upload, InsertDocument(r) PROVE CheckedOnce'
    BY <1>15 DEF InsertDocument
  <1>16. ASSUME NEW r \in Upload, Works(r) PROVE CheckedOnce'
    <2>1. /\ UNCHANGED <<ahead, pc>> /\ task[r] # "none" /\ task'[r] # "none"
          /\ \A d \in Upload : docs'[d] = "none" <=> docs[d] = "none"
          /\ \A d \in Upload \ {r} : task'[d] = task[d] /\ (d \in counted' <=> d \in counted)
      BY <1>16, WorkerKeeps
    <2> QED
      BY <2>1
  <1>17. ASSUME NEW r \in DocRemoval, DropDocument(r) PROVE CheckedOnce'
    BY <1>17 DEF DropDocument
  <1>18. ASSUME NEW r \in DocRemoval, UncountStorage(r) PROVE CheckedOnce'
    BY <1>18 DEF UncountStorage
  <1>19. ASSUME NEW r \in Request, CutOff(r) PROVE CheckedOnce'
    BY <1>19 DEF CutOff
  <1>20. CASE UNCHANGED vars
    BY <1>20 DEF vars
  <1> QED
    BY <1>1, <1>2, <1>3, <1>4, <1>5, <1>6, <1>7, <1>8, <1>9, <1>10, <1>11, <1>12,
       <1>13, <1>14, <1>15, <1>16, <1>17, <1>18, <1>19, <1>20 DEF Next, Works

\* A step of the worker that counts nothing leaves a document in flight, or takes
\* it out, or counts it once more; otherwise it had its place.
LEMMA WorkerPlaces ==
    ASSUME TypeOK, TypeOK', RoomInv, NEW d \in Upload, Works(d)
    PROVE  PlacesTaken'
  <1>1. /\ UNCHANGED <<ahead, pc>>
        /\ \A e \in Upload : Exists(e)' <=> Exists(e)
        /\ \A e \in Upload \ {d} : task'[e] = task[e] /\ (e \in counted' <=> e \in counted)
    BY WorkerKeeps
  <1>2. \A e \in Upload \ {d} : InFlight(e)' <=> InFlight(e)
    BY <1>1 DEF InFlight
  <1>3. CASE CountStorage(d) /\ d \notin counted
    BY <1>3, CountingKeepsPlaces
  <1>4. CASE CountStorage(d) /\ d \in counted
    <2>1. counted' = counted /\ used' = used + Size[d] /\ again' = again + Size[d]
      BY <1>4 DEF CountStorage
    <2>2. Flying' = Flying /\ Stale' = Stale
      BY <1>1, <1>2, <1>4, <2>1 DEF Flying, Stale, InFlight
    <2>3. /\ Cardinality(Bytes(Flying))' = Cardinality(Bytes(Flying))
          /\ Cardinality(Bytes(Stale))' = Cardinality(Bytes(Stale))
      BY <2>2 DEF Bytes
    <2>4. /\ Cardinality(Bytes(Flying)) \in Nat /\ Cardinality(Bytes(Stale)) \in Nat
          /\ Size[d] \in Nat /\ MaxStorage \in Nat /\ used \in Nat /\ again \in Nat
      <3>1. Flying \in SUBSET Upload /\ Stale \in SUBSET Upload
        BY DEF Flying, Stale
      <3> QED
        BY <3>1, BytesFinite, WorkspaceAssumption DEF TypeOK
    <2> QED
      BY <2>1, <2>3, <2>4 DEF RoomInv, PlacesTaken
  <1>5. CASE ~CountStorage(d)
    <2>1. UNCHANGED <<used, counted, again>>
      BY <1>5 DEF Works, StartAttempt, ReadRow, MarkCompleted, RemoveFile, Retry, GiveUp, Kill
    <2>2. InFlight(d)' => InFlight(d)
      <3>1. /\ task[d] \notin {"done", "killed"}
            /\ task'[d] = "count" => Exists(d)
        BY <1>5 DEF Works, StartAttempt, ReadRow, MarkCompleted, RemoveFile, Retry, GiveUp,
                    Kill, TaskAt, Started, TypeOK
      <3> QED
        BY <1>1, <2>1, <3>1 DEF InFlight
    <2>3. CASE InFlight(d)'
      <3>1. \A e \in Upload : InFlight(e)' <=> InFlight(e)
        BY <1>2, <2>2, <2>3
      <3>2. used \in Nat /\ used' \in Nat
        BY DEF TypeOK
      <3> QED
        BY <1>1, <2>1, <3>1, <3>2, SamePlaces DEF RoomInv
    <2>4. CASE ~InFlight(d)'
      <3>1. /\ Flying' = Flying \ {d} /\ Stale \ {d} \subseteq Stale'
            /\ d \in Stale \ Stale' => d \in Flying
        BY <1>1, <1>2, <2>1, <2>4 DEF Flying, Stale
      <3> QED
        BY <1>1, <2>1, <3>1, Leaving DEF RoomInv
    <2> QED
      BY <2>3, <2>4
  <1> QED
    BY <1>3, <1>4, <1>5

\* Every step leaves those in flight their places.
LEMMA PlacesStep ==
    ASSUME TypeOK, TypeOK', RoomInv, [Next]_vars
    PROVE  PlacesTaken'
  <1> USE Kinds DEF TypeOK, Goto, Begin, content, documents, uploads, questions, RoomInv
  <1>1. ASSUME NEW r \in Upload, CheckStorage(r) PROVE PlacesTaken'
    BY <1>1, CheckTakesPlace
  <1>2. ASSUME NEW r \in Upload, WriteFile(r) PROVE PlacesTaken'
    <2>1. /\ UNCHANGED <<docs, used, ahead, task, counted, again>>
          /\ pc[r] = "write" /\ docs[r] = "none" /\ task[r] = "none"
          /\ \A d \in Upload \ {r} : pc'[d] = pc[d]
          /\ pc'[r] \in {"insert", "refused"}
      BY <1>2 DEF WriteFile, CheckedOnce
    <2>2. CASE pc'[r] = "insert"
      BY <2>1, <2>2, SamePlaces DEF InFlight, Exists
    <2>3. CASE pc'[r] = "refused"
      <3>1. /\ Flying' = Flying \ {r} /\ Stale \ {r} \subseteq Stale'
            /\ r \in Stale \ Stale' => r \in Flying
        BY <2>1, <2>3 DEF InFlight, Exists, Flying, Stale
      <3> QED
        BY <2>1, <2>3, <3>1, Leaving
    <2> QED
      BY <2>1, <2>2, <2>3
  <1>3. ASSUME NEW r \in Upload, InsertDocument(r) PROVE PlacesTaken'
    <2>1. /\ UNCHANGED <<used, ahead, task, counted, again>>
          /\ pc[r] = "insert" /\ docs[r] = "none" /\ task[r] = "none"
          /\ \A d \in Upload \ {r} : pc'[d] = pc[d] /\ docs'[d] = docs[d]
          /\ \/ pc'[r] = "send" /\ docs'[r] = "pending"
             \/ pc'[r] = "crashed" /\ docs'[r] = "none"
      BY <1>3 DEF InsertDocument, CheckedOnce
    <2>2. CASE pc'[r] = "send" /\ docs'[r] = "pending"
      <3>1. Flying' = Flying /\ Stale' = Stale
        BY <2>1, <2>2 DEF InFlight, Exists, Flying, Stale
      <3>2. /\ Cardinality(Bytes(Flying))' = Cardinality(Bytes(Flying))
            /\ Cardinality(Bytes(Stale))' = Cardinality(Bytes(Stale))
        BY <3>1 DEF Bytes
      <3> QED
        BY <2>1, <3>2 DEF PlacesTaken
    <2>3. CASE pc'[r] = "crashed" /\ docs'[r] = "none"
      <3>1. /\ Flying' = Flying \ {r} /\ Stale \ {r} \subseteq Stale'
            /\ r \in Stale \ Stale' => r \in Flying
        BY <2>1, <2>3 DEF InFlight, Exists, Flying, Stale
      <3> QED
        BY <2>1, <2>3, <3>1, Leaving
    <2> QED
      BY <2>1, <2>2, <2>3
  <1>4. ASSUME NEW r \in Upload, Works(r) PROVE PlacesTaken'
    BY <1>4, WorkerPlaces
  <1>5. ASSUME NEW r \in DocRemoval, DropDocument(r) PROVE PlacesTaken'
    <2>1. /\ DocArg[r] \in Upload /\ docs[DocArg[r]] # "none"
          /\ docs' = [docs EXCEPT ![DocArg[r]] = "deleted"]
          /\ UNCHANGED <<used, ahead, task, counted, again>>
          /\ \A d \in Upload : pc'[d] = pc[d]
      BY <1>5, Arguments DEF DropDocument, CheckedOnce
    <2>2. pc[DocArg[r]] \notin {"write", "insert"}
      BY <2>1 DEF CheckedOnce
    <2>3. CASE InFlight(DocArg[r])' <=> InFlight(DocArg[r])
      <3>1. \A d \in Upload : InFlight(d)' <=> InFlight(d)
        BY <2>1, <2>3 DEF InFlight, Exists
      <3> QED
        BY <2>1, <3>1, SamePlaces
    <2>4. CASE ~(InFlight(DocArg[r])' <=> InFlight(DocArg[r]))
      <3>1. InFlight(DocArg[r]) /\ ~InFlight(DocArg[r])'
        BY <2>1, <2>2, <2>4 DEF InFlight, Exists
      <3>2. \A d \in Upload \ {DocArg[r]} : InFlight(d)' <=> InFlight(d)
        BY <2>1 DEF InFlight, Exists
      <3>3. /\ Flying' = Flying \ {DocArg[r]} /\ DocArg[r] \in Flying
            /\ Stale \ {DocArg[r]} \subseteq Stale'
        BY <2>1, <3>1, <3>2 DEF Flying, Stale
      <3> QED
        BY <2>1, <3>3, Leaving
    <2> QED
      BY <2>3, <2>4
  <1>6. ASSUME NEW r \in DocRemoval, UncountStorage(r) PROVE PlacesTaken'
    <2>1. /\ UNCHANGED <<docs, ahead, task, counted, again>>
          /\ \A d \in Upload : pc'[d] = pc[d]
          /\ used' \in Nat /\ used' <= used
      BY <1>6, Arguments DEF UncountStorage
    <2> QED
      BY <2>1, SamePlaces DEF InFlight, Exists
  <1>7. ASSUME NEW r \in Request, CutOff(r) PROVE PlacesTaken'
    <2>1. /\ UNCHANGED <<docs, used, ahead, task, counted, again>>
          /\ pc' = [pc EXCEPT ![r] = "cut"]
      BY <1>7 DEF CutOff
    <2>2. CASE r \in Upload /\ pc[r] \in {"write", "insert"}
      <3>1. docs[r] = "none" /\ task[r] = "none"
        BY <2>2 DEF CheckedOnce
      <3>2. /\ Flying' = Flying \ {r} /\ Stale \ {r} \subseteq Stale'
            /\ r \in Stale \ Stale' => r \in Flying
        BY <2>1, <2>2, <3>1 DEF InFlight, Exists, Flying, Stale
      <3> QED
        BY <2>1, <2>2, <3>2, Leaving
    <2>3. CASE ~(r \in Upload /\ pc[r] \in {"write", "insert"})
      BY <2>1, <2>3, SamePlaces DEF InFlight, Exists
    <2> QED
      BY <2>2, <2>3
  <1>8. ASSUME UNCHANGED <<docs, used, ahead, task, counted, again>>,
               \A d \in Upload : pc'[d] \in {"write", "insert"} <=> pc[d] \in {"write", "insert"}
        PROVE  PlacesTaken'
    BY <1>8, SamePlaces DEF InFlight, Exists
  <1>9. ASSUME NEW r \in Creation, CreateTopic(r) PROVE PlacesTaken'
    BY <1>8, <1>9 DEF CreateTopic
  <1>10. ASSUME NEW r \in Update, LoadToUpdate(r) PROVE PlacesTaken'
    BY <1>8, <1>10 DEF LoadToUpdate
  <1>11. ASSUME NEW r \in Update, UpdateTopic(r) PROVE PlacesTaken'
    BY <1>8, <1>11 DEF UpdateTopic
  <1>12. ASSUME NEW r \in TopicRemoval, LoadToDelete(r) PROVE PlacesTaken'
    BY <1>8, <1>12 DEF LoadToDelete
  <1>13. ASSUME NEW r \in TopicRemoval, DeleteTopic(r) PROVE PlacesTaken'
    BY <1>8, <1>13 DEF DeleteTopic, Unlink
  <1>14. ASSUME NEW r \in Upload, ChooseTeam(r) PROVE PlacesTaken'
    BY <1>8, <1>14 DEF ChooseTeam
  <1>15. ASSUME NEW r \in Upload, SendTask(r) PROVE PlacesTaken'
    <2>1. /\ UNCHANGED <<docs, used, ahead, counted, again>>
          /\ pc' = [pc EXCEPT ![r] = "log"] /\ pc[r] = "send"
          /\ task' = [task EXCEPT ![r] = "queued"] /\ task[r] = "none"
      BY <1>15 DEF SendTask, CheckedOnce
    <2> QED
      BY <2>1, SamePlaces DEF InFlight, Exists
  <1>16. ASSUME NEW r \in DocRemoval, ReadDocument(r) PROVE PlacesTaken'
    BY <1>8, <1>16 DEF ReadDocument
  <1>17. ASSUME NEW r \in Question, CheckScope(r) PROVE PlacesTaken'
    BY <1>8, <1>17 DEF CheckScope
  <1>18. ASSUME NEW r \in Question, AnswerUnsaved(r) PROVE PlacesTaken'
    BY <1>8, <1>18 DEF AnswerUnsaved
  <1>19. ASSUME NEW r \in Question, SaveQuestion(r) PROVE PlacesTaken'
    BY <1>8, <1>19 DEF SaveQuestion
  <1>20. ASSUME NEW r \in Request, LogEvent(r) PROVE PlacesTaken'
    BY <1>8, <1>20 DEF LogEvent
  <1>21. CASE UNCHANGED vars
    BY <1>8, <1>21 DEF vars
  <1> QED
    BY <1>1, <1>2, <1>3, <1>4, <1>5, <1>6, <1>7, <1>9, <1>10, <1>11, <1>12, <1>13,
       <1>14, <1>15, <1>16, <1>17, <1>18, <1>19, <1>20, <1>21 DEF Next, Works
-----------------------------------------------------------------------------
(* The theorems.                                                           *)

\* What a request found is there until another request deletes it; documents
\* and questions are where their topic is; edits stay.
THEOREM WorkspaceInvariant == Spec => []WorkspaceInv
  <1>1. Init => WorkspaceInv
    <2> SUFFICES ASSUME Init PROVE WorkspaceInv
      OBVIOUS
    <2> USE Kinds, Arguments DEF Init
    <2>1. TypeOK
      BY DEF TypeOK, Places, Topic
    <2>2. TopicsGo
      BY DEF TopicsGo, Born, Topic
    <2>3. /\ FoundTopic /\ DocsAtHome /\ QuestionsFiled /\ OutsidersOut
          /\ CrashesExplained /\ EditsAreKept
      BY DEF FoundTopic, DocsAtHome, QuestionsFiled, OutsidersOut, CrashesExplained,
             EditsAreKept
    <2> QED
      BY <2>1, <2>2, <2>3 DEF WorkspaceInv
  <1>2. WorkspaceInv /\ [Next]_vars => WorkspaceInv'
    <2> SUFFICES ASSUME WorkspaceInv, [Next]_vars PROVE WorkspaceInv'
      OBVIOUS
    <2> USE DEF WorkspaceInv
    <2>1. TypeOK'
      BY TypeStep
    <2>2. TopicsGo' /\ FoundTopic'
      BY TopicsGoStep, FoundTopicStep
    <2>3. DocsAtHome' /\ QuestionsFiled' /\ OutsidersOut'
      BY DocsAtHomeStep, QuestionsFiledStep, OutsidersOutStep
    <2>4. CrashesExplained' /\ EditsAreKept'
      BY CrashesExplainedStep, EditsAreKeptStep
    <2> QED
      BY <2>1, <2>2, <2>3, <2>4
  <1> QED
    BY <1>1, <1>2, PTL DEF Spec

\* Every state of topics, documents, questions and requests is well typed.
THEOREM WorkspaceTyped == Spec => []TypeOK
  <1>1. WorkspaceInv => TypeOK
    BY DEF WorkspaceInv
  <1> QED
    BY <1>1, WorkspaceInvariant, PTL

\* For any teams and companies: a topic's listings, which look at neither, show
\* what the user's own listing shows of the topic's team, and questions of users
\* of that team; and requests of other companies are refused, all but an admin's
\* removal of a document.
THEOREM TeamsAreKeptApart == Spec => []KeptApart
  <1>1. WorkspaceInv => KeptApart
    <2> SUFFICES ASSUME WorkspaceInv PROVE KeptApart
      OBVIOUS
    <2> USE DEF WorkspaceInv
    <2>1. ASSUME NEW u \in User, NEW t \in Topic, NEW d \in TopicDocuments(u, t)
          PROVE  docTeam[d] = Home(t) /\ d \in ListDocuments(u)
      <3>1. d \in Upload /\ d \in Docs /\ docTopic[d] = t /\ MayUse(u, Home(t)) /\ t # None
        BY <2>1, Arguments DEF TopicDocuments, Docs, Finds
      <3>2. docTeam[d] = Home(t)
        BY <3>1 DEF DocsAtHome
      <3>3. u \in Admins \ Outsiders \/ Home(t) \in TeamIds[u]
        BY <3>1 DEF MayUse, CanAccess
      <3> QED
        BY <3>1, <3>2, <3>3 DEF ListDocuments
    <2>2. ASSUME NEW u \in User, NEW t \in Topic, NEW q \in TopicQuestions(u, t)
          PROVE  MayUse(By[q], Home(t))
      <3>1. q \in Question /\ filed[q] = t /\ t # None
        BY <2>2, Arguments DEF TopicQuestions, TypeOK
      <3> QED
        BY <3>1 DEF QuestionsFiled, FoundTopic
    <2> QED
      BY <2>1, <2>2 DEF KeptApart, OutsidersOut
  <1> QED
    BY <1>1, WorkspaceInvariant, PTL

\* What one endpoint lists the next one opens, under every interleaving with
\* deletions.
THEOREM ListingsAgree == Spec => []ListingsLeadOn
  <1>1. WorkspaceInv => ListingsLeadOn
    <2> SUFFICES ASSUME WorkspaceInv, NEW u \in User
                 PROVE  /\ \A d \in ListDocuments(u) :
                              CanAccess(u, docTeam[d]) =>
                                 /\ d \in StatusOf(u)
                                 /\ docTopic[d] # None =>
                                       /\ docTopic[d] \in OpenTopics(u)
                                       /\ d \in TopicDocuments(u, docTopic[d])
                        /\ ListTopics(u) = OpenTopics(u)
                        /\ OpenTopics(u) = UNION {ListTeamTopics(u, team) : team \in Team}
                        /\ \A q \in Question :
                              By[q] = u /\ pc[q] = "done" /\ q \notin lost
                              /\ TopicArg[q] \in topics => q \in TopicQuestions(u, TopicArg[q])
      BY DEF ListingsLeadOn
    <2>0. \A t \in topics : t \in Topic /\ Home(t) \in Team /\ t # None
      BY Arguments DEF WorkspaceInv, TypeOK
    <2>1. ASSUME NEW d \in ListDocuments(u), CanAccess(u, docTeam[d])
          PROVE  /\ d \in StatusOf(u)
                 /\ docTopic[d] # None =>
                       docTopic[d] \in OpenTopics(u) /\ d \in TopicDocuments(u, docTopic[d])
      <3>1. d \in Docs /\ d \in Upload /\ u \notin Outsiders
        BY WorkspaceAssumption DEF ListDocuments, Docs
      <3> QED
        BY <2>1, <3>1
        DEF StatusOf, OpenTopics, TopicDocuments, Finds, MayUse, WorkspaceInv, DocsAtHome
    <2>2. ListTopics(u) = OpenTopics(u)
      BY WorkspaceAssumption
         DEF ListTopics, CompanyTopics, UserTopics, OpenTopics, Finds, MayUse, CanAccess
    <2>3. OpenTopics(u) = UNION {ListTeamTopics(u, team) : team \in Team}
      <3>1. ASSUME NEW t PROVE t \in OpenTopics(u) <=>
                                  \E team \in Team : t \in ListTeamTopics(u, team)
        BY <2>0 DEF OpenTopics, ListTeamTopics, TeamTopics, Finds
      <3> QED
        BY <3>1
    <2>4. ASSUME NEW q \in Question, By[q] = u, pc[q] = "done", q \notin lost,
                 TopicArg[q] \in topics
          PROVE  q \in TopicQuestions(u, TopicArg[q])
      BY <2>0, <2>4 DEF TopicQuestions, Finds, WorkspaceInv, FoundTopic, QuestionsFiled
    <2> QED
      BY <2>1, <2>2, <2>3, <2>4
  <1> QED
    BY <1>1, WorkspaceInvariant, PTL

\* A 500 has another request's deletion behind it, and a file left in the
\* upload directory such a 500, a request that was cut off or a task that was
\* killed, whatever is retried and given up.
THEOREM CrashesAreExplained == Spec => []CrashesExplained
  <1>1. WorkspaceInv => CrashesExplained
    BY DEF WorkspaceInv
  <1> QED
    BY <1>1, WorkspaceInvariant, PTL

\* Two updates of different fields both last, in every order.
THEOREM EditsLast == Spec => []EditsAreKept
  <1>1. WorkspaceInv => EditsAreKept
    BY DEF WorkspaceInv
  <1> QED
    BY <1>1, WorkspaceInvariant, PTL

\* For any sizes and any number of uploads at once, storage over the plan is
\* accounted for by uploads that were checked while others were in flight, and by
\* what retried tasks counted again.
THEOREM OverPlanIsStale == Spec => []OverPlanOnlyByStaleChecks
  <1>1. Init => RoomInv
    <2> SUFFICES ASSUME Init PROVE RoomInv
      OBVIOUS
    <2>1. CheckedOnce
      BY Kinds DEF Init, CheckedOnce
    <2>2. Bytes(Flying) = {} /\ Bytes(Stale) = {}
      BY Kinds DEF Init, Bytes, Flying, Stale, InFlight, Exists
    <2>3. PlacesTaken
      BY <2>2, FS_EmptySet, WorkspaceAssumption DEF Init, PlacesTaken
    <2> QED
      BY <2>1, <2>3 DEF RoomInv
  <1>2. TypeOK /\ TypeOK' /\ RoomInv /\ [Next]_vars => RoomInv'
    BY CheckedOnceStep, PlacesStep DEF RoomInv
  <1>3. TypeOK /\ RoomInv => OverPlanOnlyByStaleChecks
    <2> SUFFICES ASSUME TypeOK, RoomInv PROVE OverPlanOnlyByStaleChecks
      OBVIOUS
    <2>1. /\ Flying \in SUBSET Upload /\ Stale \in SUBSET Upload
          /\ StaleStored \in SUBSET Upload
      BY DEF Flying, Stale, StaleStored, TypeOK
    <2>2. Bytes(Stale) \in SUBSET (Bytes(StaleStored) \cup Bytes(Flying))
      BY DEF Bytes, Stale, StaleStored, Flying
    <2>3. /\ IsFiniteSet(Bytes(StaleStored)) /\ Cardinality(Bytes(StaleStored)) \in Nat
          /\ IsFiniteSet(Bytes(Flying)) /\ Cardinality(Bytes(Flying)) \in Nat
          /\ Cardinality(Bytes(Stale)) \in Nat
      BY <2>1, BytesFinite
    <2>4. Cardinality(Bytes(Stale))
             <= Cardinality(Bytes(StaleStored)) + Cardinality(Bytes(Flying))
      <3> DEFINE both == Bytes(StaleStored) \cap Bytes(Flying)
                 either == Bytes(StaleStored) \cup Bytes(Flying)
      <3>1. IsFiniteSet(both) /\ Cardinality(both) \in Nat
        BY <2>3, FS_Intersection, FS_CardinalityType
      <3>2. /\ IsFiniteSet(either)
            /\ Cardinality(either) = Cardinality(Bytes(StaleStored))
                                     + Cardinality(Bytes(Flying)) - Cardinality(both)
        BY <2>3, FS_Union
      <3>3. Cardinality(Bytes(Stale)) <= Cardinality(either)
        BY <2>2, <3>2, FS_Subset
      <3> HIDE DEF both, either
      <3> QED
        BY <2>3, <3>1, <3>2, <3>3
    <2> QED
      BY <2>3, <2>4, WorkspaceAssumption
         DEF RoomInv, PlacesTaken, OverPlanOnlyByStaleChecks, TypeOK
  <1> QED
    BY <1>1, <1>2, <1>3, WorkspaceTyped, PTL DEF Spec
=============================================================================
