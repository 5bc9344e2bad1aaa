---------------------------- MODULE BackfillProofs ----------------------------
(***************************************************************************)
(* Theorems about Backfill, for every number of consumers, messages,       *)
(* articles, topics, retries and faults: its types, that it implements     *)
(* ArticleLifecycle, that a backfilled match is never notified, and which  *)
(* matches are missed.                                                     *)
(***************************************************************************)
EXTENDS Backfill, PipelineProofs

-----------------------------------------------------------------------------
(* Type correctness *)

TaskType ==
    /\ task \in [Topics -> {"none", "queued", "read", "done", "lost"}]
    /\ tries \in [Topics -> 0..MaxRetries]
    /\ candidates \in [Topics -> SUBSET Urls]
    /\ \A t \in Topics : \A u \in candidates[t] : <<u, t>> \in Hits

AlertType == alerts \in [Pairs -> {"none", "shown", "notified"}]

OldRows == old \in SUBSET {u \in Urls : row[u] \in {"dropped", "processed"}}

HistoryType ==
    /\ collected \in SUBSET Hits
    /\ stale \in SUBSET Hits
    /\ copies \in SUBSET Hits

BackfillBasic == Basic /\ TaskType /\ AlertType /\ OldRows /\ HistoryType

LEMMA BackfillBasicTypeOK == BackfillBasic => BackfillTypeOK
BY BasicTypeOK DEF BackfillBasic, TaskType, AlertType, OldRows, HistoryType, BackfillTypeOK

LEMMA BackfillBasicInit == BackfillInit => BackfillBasic
BY BasicInit, PipelineAssumption, BackfillAssumption
DEF BackfillInit, BackfillBasic, TaskType, AlertType, OldRows, HistoryType

\* The steps that are not the consumers' leave what those work on alone.
Outside == UNCHANGED <<queueVars, workVars, cache, conn, unsent, published>>

LEMMA OutsideType ==
    ASSUME Basic, Outside, RowType', FaultsType',
           stored' \in SUBSET Pairs, topics' \in SUBSET Topics
    PROVE  Basic'
BY DEF Basic, Outside, queueVars, workVars, QueueType, TableType, WorkType, MemoryType

LEMMA RetriedType ==
    ASSUME TaskType, NEW t \in Topics, Retried(t)
    PROVE  TaskType'
BY BackfillAssumption DEF TaskType, Retried

\* A row the consumers are done with stays so.
LEMMA SettledRows ==
    ASSUME Basic, [Next]_vars, NEW u \in Urls, row[u] \in {"dropped", "processed"}
    PROVE  row'[u] \in {"dropped", "processed"}
<1>1. CASE Enqueue \/ UNCHANGED vars
  BY <1>1 DEF Enqueue, vars, tableVars
<1>2. CASE \E t \in Topics : DeleteTopic(t)
  BY <1>2 DEF DeleteTopic
<1>3. ASSUME NEW w \in Workers, Drop(w) \/ Store(w) \/ Summarise(w) \/ PublishMatch(w)
      PROVE  row'[u] \in {"dropped", "processed"}
  BY <1>3 DEF Drop, Store, Summarise, PublishMatch, tableVars, Basic, RowType
<1> QED BY <1>1, <1>2, <1>3, NextSteps, QuietTables DEF WorkerStep

LEMMA PipelineStepType ==
    ASSUME BackfillBasic, PipelineStep
    PROVE  BackfillBasic'
<1> USE DEF BackfillBasic
<1>1. [Next]_vars
  BY DEF PipelineStep
<1>2. Basic'
  BY <1>1, BasicStep
<1>3. TaskType'
  BY DEF PipelineStep, taskVars, TaskType
<1>4. AlertType'
  BY DEF PipelineStep, AlertType
<1>5. OldRows'
  BY <1>1, SettledRows DEF PipelineStep, OldRows
<1>6. HistoryType'
  BY DEF PipelineStep, HistoryType
<1> QED BY <1>2, <1>3, <1>4, <1>5, <1>6

LEMMA BackfillCommitType ==
    ASSUME BackfillBasic, NEW t \in Topics, BackfillCommit(t)
    PROVE  BackfillBasic'
<1> USE DEF BackfillBasic
<1>1. candidates[t] \X {t} \in SUBSET Hits /\ Hits \in SUBSET Pairs
  BY PipelineAssumption DEF TaskType, Pairs
<1>2. RowType' /\ FaultsType'
  BY DEF BackfillCommit, Basic, RowType, FaultsType
<1>3. stored' \in SUBSET Pairs /\ topics' \in SUBSET Topics
  BY <1>1 DEF BackfillCommit, Basic, TableType
<1>4. Basic'
  BY <1>2, <1>3, OutsideType DEF BackfillCommit, Outside
<1>5. TaskType'
  BY DEF BackfillCommit, TaskType
<1>6. AlertType'
  BY DEF BackfillCommit, AlertType
<1>7. OldRows'
  BY DEF BackfillCommit, OldRows
<1>8. HistoryType'
  BY <1>1 DEF BackfillCommit, HistoryType
<1> QED BY <1>4, <1>5, <1>6, <1>7, <1>8

LEMMA BackfillBasicStep == BackfillBasic /\ [BackfillNext]_backfillVars => BackfillBasic'
<1> SUFFICES ASSUME BackfillBasic, [BackfillNext]_backfillVars PROVE BackfillBasic'
  OBVIOUS
<1> USE DEF BackfillBasic
<1>1. ASSUME NEW p \in Pairs, Notify(p)
      PROVE  BackfillBasic'
  <2>1. Basic'
    BY <1>1, BasicStep DEF Notify
  <2> QED BY <1>1, <2>1 DEF Notify, vars, tableVars, taskVars, historyVars, TaskType,
                            AlertType, OldRows, HistoryType
<1>2. ASSUME NEW t \in Topics, CreateTopic(t)
      PROVE  BackfillBasic'
  <2>1. FaultsType'
    BY <1>2, FaultType DEF CreateTopic, Basic, FaultsType
  <2>2. RowType' /\ stored' \in SUBSET Pairs /\ topics' \in SUBSET Topics
    BY <1>2 DEF CreateTopic, Basic, RowType, TableType
  <2>3. Basic'
    BY <1>2, <2>1, <2>2, OutsideType DEF CreateTopic, Outside
  <2>4. TaskType'
    BY <1>2 DEF CreateTopic, TaskType
  <2> QED BY <1>2, <2>3, <2>4 DEF CreateTopic, historyVars, AlertType, OldRows, HistoryType
<1>3. ASSUME NEW t \in Topics, BackfillRead(t)
      PROVE  BackfillBasic'
  <2>1. Basic'
    BY <1>3, BasicStep DEF BackfillRead
  <2>2. TaskType'
    BY <1>3 DEF BackfillRead, Found, TaskType
  <2> QED BY <1>3, <2>1, <2>2 DEF BackfillRead, vars, tableVars, historyVars,
                                  AlertType, OldRows, HistoryType
<1>4. ASSUME NEW t \in Topics, BackfillFails(t)
      PROVE  BackfillBasic'
  <2>1. FaultsType'
    BY <1>4, FaultType DEF BackfillFails, Basic, FaultsType
  <2>2. RowType' /\ stored' \in SUBSET Pairs /\ topics' \in SUBSET Topics
    BY <1>4 DEF BackfillFails, tableVars, Basic, RowType, TableType
  <2>3. Basic'
    BY <1>4, <2>1, <2>2, OutsideType DEF BackfillFails, Outside
  <2>4. TaskType'
    BY <1>4, RetriedType DEF BackfillFails
  <2> QED BY <1>4, <2>3, <2>4 DEF BackfillFails, tableVars, historyVars, AlertType,
                                  OldRows, HistoryType
<1>5. ASSUME NEW t \in Topics, BackfillDies(t)
      PROVE  BackfillBasic'
  <2>1. FaultsType'
    BY <1>5, FaultType DEF BackfillDies, Basic
  <2>2. RowType' /\ stored' \in SUBSET Pairs /\ topics' \in SUBSET Topics
    BY <1>5 DEF BackfillDies, tableVars, Basic, RowType, TableType
  <2>3. Basic'
    BY <1>5, <2>1, <2>2, OutsideType DEF BackfillDies, Outside
  <2>4. TaskType'
    BY <1>5 DEF BackfillDies, TaskType
  <2> QED BY <1>5, <2>3, <2>4 DEF BackfillDies, tableVars, historyVars, AlertType,
                                  OldRows, HistoryType
<1>6. ASSUME NEW u \in Urls, Age(u)
      PROVE  BackfillBasic'
  <2>1. FaultsType'
    BY <1>6, FaultType DEF Age, Basic
  <2>2. RowType' /\ stored' \in SUBSET Pairs /\ topics' \in SUBSET Topics
    BY <1>6 DEF Age, tableVars, Basic, RowType, TableType
  <2>3. Basic'
    BY <1>6, <2>1, <2>2, OutsideType DEF Age, Outside
  <2>4. OldRows'
    BY <1>6 DEF Age, tableVars, OldRows
  <2> QED BY <1>6, <2>3, <2>4 DEF Age, taskVars, historyVars, TaskType, AlertType, HistoryType
<1>7. ASSUME NEW u \in Urls, PurgeDropped(u)
      PROVE  BackfillBasic'
  <2>1. RowType' /\ FaultsType' /\ stored' \in SUBSET Pairs /\ topics' \in SUBSET Topics
    BY <1>7 DEF PurgeDropped, Basic, RowType, FaultsType, TableType
  <2>2. Basic'
    BY <1>7, <2>1, OutsideType DEF PurgeDropped, Outside
  <2>3. OldRows' /\ HistoryType'
    BY <1>7 DEF PurgeDropped, OldRows, HistoryType, Basic, RowType
  <2> QED BY <1>7, <2>2, <2>3 DEF PurgeDropped, taskVars, TaskType, AlertType
<1>8. CASE UNCHANGED backfillVars
  <2>1. Basic'
    BY <1>8, BasicStep DEF backfillVars
  <2> QED BY <1>8, <2>1 DEF backfillVars, vars, tableVars, taskVars, historyVars,
                            TaskType, AlertType, OldRows, HistoryType
<1> QED BY <1>1, <1>2, <1>3, <1>4, <1>5, <1>6, <1>7, <1>8, PipelineStepType,
           BackfillCommitType DEF BackfillNext

\* Every step leaves every variable well-typed: what counts as old is a row the
\* consumers are done with, and what a backfill takes is over the threshold.
THEOREM BackfillTypeCorrect == BackfillSpec => []BackfillTypeOK
<1>1. BackfillInit => BackfillBasic
  BY BackfillBasicInit
<1>2. BackfillBasic /\ [BackfillNext]_backfillVars => BackfillBasic'
  BY BackfillBasicStep
<1>3. BackfillBasic => BackfillTypeOK
  BY BackfillBasicTypeOK
<1> QED BY <1>1, <1>2, <1>3, PTL DEF BackfillSpec

-----------------------------------------------------------------------------
(* Backfill implements ArticleLifecycle *)

\* What is known of a topic before create_topic: nothing.
Unknown(t) ==
    /\ t \notin topics
    /\ \A w \in Workers : t \notin cache[w] /\ t \notin found[w]
    /\ \A w \in Workers : \A p \in todo[w] \cup unsent[w] : p[2] # t
    /\ \A p \in stored : p[2] # t
    /\ \A p \in Pairs : published[p] > 0 => p[2] # t

Unborn == \A t \in Topics : task[t] = "none" => Unknown(t)

\* What a worker of the consumers remembers of topics comes from the tables.
LEMMA MemoryOf ==
    ASSUME Basic, NEW w \in Workers, WorkerStep(w)
    PROVE  \A v \in Workers :
               /\ cache'[v] \subseteq cache[v] \cup topics
               /\ todo'[v] \subseteq todo[v] \cup stored
               /\ found'[v] \subseteq found[v] \cup cache[v]
               /\ \A p \in unsent'[v] : p \in unsent[v] \/ p[2] \in found[v]
<1> USE DEF Basic
<1>1. CASE Start(w)
  BY <1>1 DEF Start, Pending, WorkType, MemoryType
<1>8. CASE ResumeNext(w)
  <2>1. PICK p \in todo[w] :
            /\ found' = [found EXCEPT ![w] = {t \in cache[w] : <<p[1], t>> \in todo[w]}]
            /\ todo' = [todo EXCEPT ![w] = {q \in @ : q[1] # p[1]}]
    BY <1>8 DEF ResumeNext
  <2> QED BY <1>8, <2>1 DEF ResumeNext, WorkType
<1>9. CASE ResumeDone(w) \/ Refresh(w) \/ Reap(w) \/ Claim(w)
  BY <1>9 DEF ResumeDone, Refresh, Reap, Claim, workVars, MemoryType
<1>2. CASE RefreshDies(w) \/ Crash(w)
  BY <1>2 DEF RefreshDies, Crash, Down, WorkType, MemoryType
<1>3. CASE Park(w) \/ Ack(w) \/ CheckFails(w)
  BY <1>3 DEF Park, Ack, CheckFails, GiveBack, Finish, WorkType
<1>4. CASE CheckUrl(w) \/ MatchFails(w) \/ Drop(w) \/ StoreFails(w)
           \/ Store(w) \/ Summarise(w) \/ BreakConn(w)
  BY <1>4 DEF CheckUrl, MatchFails, Drop, StoreFails, Store, Summarise, BreakConn,
              Return, Raise, Leave, workVars, WorkType
<1>10. CASE Match(w)
  <2>1. \/ UNCHANGED found
        \/ found' = [found EXCEPT ![w] = {t \in cache[w] : <<job[w], t>> \in Hits}]
    BY <1>10 DEF Match
  <2>2. \A v \in Workers : found'[v] \subseteq found[v] \cup cache[v]
    BY <2>1 DEF WorkType
  <2>3. UNCHANGED <<cache, todo, unsent>>
    BY <1>10 DEF Match
  <2> QED BY <2>2, <2>3
<1>5. CASE SummariseFails(w)
  BY <1>5 DEF SummariseFails, GiveBack, Finish, Down, WorkType, MemoryType
<1>6. CASE PublishMatch(w)
  BY <1>6 DEF PublishMatch, Return, Leave, WorkType, MemoryType
<1>7. CASE PublishFails(w)
  BY <1>7 DEF PublishFails, Raise, Leave, WorkType, MemoryType
<1> QED BY <1>1, <1>2, <1>3, <1>4, <1>5, <1>6, <1>7, <1>8, <1>9, <1>10 DEF WorkerStep, Quiet

\* A worker's step stores matches of the topics it found, and publishes those it
\* found or had in its buffer.
LEMMA TablesOf ==
    ASSUME Basic, NEW w \in Workers, WorkerStep(w)
    PROVE  /\ UNCHANGED topics
           /\ \A p \in stored' : p \in stored \/ p[2] \in found[w]
           /\ \A p \in Pairs : published'[p] > 0 =>
                 published[p] > 0 \/ p \in unsent[w] \/ p[2] \in found[w]
<1> USE DEF Basic
<1>1. CASE Quiet(w)
  BY <1>1, QuietTables
<1>2. CASE Drop(w) \/ Store(w) \/ Summarise(w)
  BY <1>2 DEF Drop, Store, Summarise
<1>3. CASE PublishMatch(w)
  <2>1. PICK t \in found[w] : \/ Count(unsent[w] \cup {<<job[w], t>>}, 1)
                              \/ Count(unsent[w] \cup {<<job[w], t>>}, 2)
    BY <1>3 DEF PublishMatch
  <2>2. ASSUME NEW p \in Pairs, p \notin unsent[w] \cup {<<job[w], t>>}
        PROVE  published'[p] = published[p]
    BY <2>1, <2>2 DEF Count
  <2> QED BY <1>3, <2>2 DEF PublishMatch, tableVars
<1> QED BY <1>1, <1>2, <1>3 DEF WorkerStep

LEMMA UnbornPipeline ==
    ASSUME BackfillBasic, Unborn, [Next]_vars, UNCHANGED task
    PROVE  Unborn'
<1> USE DEF BackfillBasic
<1>1. SUFFICES ASSUME NEW t \in Topics, Unknown(t)
               PROVE  Unknown(t)'
  BY DEF Unborn
<1>2. ASSUME NEW w \in Workers, WorkerStep(w)
      PROVE  Unknown(t)'
  BY <1>1, <1>2, MemoryOf, TablesOf DEF Unknown
<1>3. CASE Enqueue \/ UNCHANGED vars
  BY <1>1, <1>3 DEF Enqueue, vars, tableVars, workVars, Unknown
<1>4. CASE \E d \in Topics : DeleteTopic(d)
  BY <1>1, <1>4 DEF DeleteTopic, workVars, Unknown
<1> QED BY <1>2, <1>3, <1>4, NextSteps

LEMMA UnbornStep ==
    ASSUME BackfillBasic, Unborn, [BackfillNext]_backfillVars
    PROVE  Unborn'
<1> USE DEF BackfillBasic
<1>1. CASE PipelineStep
  BY <1>1, UnbornPipeline DEF PipelineStep, taskVars
<1>2. CASE UNCHANGED backfillVars
  BY <1>2, UnbornPipeline DEF backfillVars, taskVars
<1>3. CASE \E p \in Pairs : Notify(p)
  BY <1>3, UnbornPipeline DEF Notify, taskVars
\* What is not known stays unknown while the task of another topic runs.
<1>4. ASSUME UNCHANGED <<published, workVars, cache, unsent>>,
             NEW d \in Topics, task' = [task EXCEPT ![d] = task'[d]],
             task'[d] # "none",
             topics' \subseteq topics \cup {d},
             \A p \in stored' : p \in stored \/ p[2] = d
      PROVE  Unborn'
  <2>1. SUFFICES ASSUME NEW t \in Topics, task'[t] = "none"
                 PROVE  Unknown(t)'
    BY DEF Unborn
  <2>2. t # d /\ Unknown(t)
    BY <1>4, <2>1 DEF Unborn, TaskType
  <2> QED BY <1>4, <2>2 DEF Unknown, workVars
<1>5. ASSUME NEW d \in Topics, CreateTopic(d) PROVE Unborn'
  BY <1>4, <1>5 DEF CreateTopic, TaskType
<1>6. ASSUME NEW d \in Topics, BackfillRead(d) PROVE Unborn'
  BY <1>4, <1>6 DEF BackfillRead, TaskType, vars, tableVars
<1>7. ASSUME NEW d \in Topics, BackfillCommit(d) PROVE Unborn'
  BY <1>4, <1>7 DEF BackfillCommit, TaskType
<1>8. ASSUME NEW d \in Topics, BackfillFails(d) PROVE Unborn'
  BY <1>4, <1>8 DEF BackfillFails, Retried, TaskType, tableVars
<1>9. ASSUME NEW d \in Topics, BackfillDies(d) PROVE Unborn'
  BY <1>4, <1>9 DEF BackfillDies, TaskType, tableVars
<1>10. ASSUME NEW u \in Urls, Age(u) \/ PurgeDropped(u) PROVE Unborn'
  BY <1>10 DEF Age, PurgeDropped, taskVars, tableVars, workVars, Unborn, Unknown
<1> QED BY <1>1, <1>2, <1>3, <1>5, <1>6, <1>7, <1>8, <1>9, <1>10 DEF BackfillNext

\* What the workers know survives the steps of the others, as long as these take
\* no match away and no row that is in the table.
LEMMA StillKnown ==
    ASSUME Basic, ArticleInv, UNCHANGED <<workVars, unsent>>, NEW T,
           \A u \in Urls : /\ InTable(u) => InTable(u)'
                           /\ row[u] = "processed" => row'[u] = "processed",
           \A p \in Pairs : Backed(p) /\ p[2] \notin T => Backed(p)',
           \A w \in Workers : found[w] \cap T = {},
           \A w \in Workers : \A p \in todo[w] \cup unsent[w] : p[2] \notin T
    PROVE  ArticleInv'
<1> USE DEF Basic
<1>1. SUFFICES ASSUME NEW w \in Workers PROVE WorkInv(w)'
  BY DEF ArticleInv
<1>2. WorkInv(w)
  BY DEF ArticleInv
<1>3. UNCHANGED <<pc, job, found, todo, unsent>>
  BY DEF workVars
<1>4. \A p \in todo[w] \cup unsent[w] : p \in Pairs /\ p[1] \in Urls
  BY DEF WorkType, MemoryType, Pairs
<1>5. \A p \in todo'[w] : p[1] \notin Reddit /\ InTable(p[1])' /\ Backed(p)'
  BY <1>2, <1>3, <1>4 DEF WorkInv
<1>6. \A p \in unsent'[w] : row'[p[1]] = "processed" /\ Backed(p)'
  BY <1>2, <1>3, <1>4 DEF WorkInv
<1>7. CASE pc[w] \in {"summarise", "publish"}
  <2>1. PICK u \in Urls : u = job[w]
    BY <1>7 DEF WorkType, Working, Acking
  <2>2. \A t \in found[w] : <<u, t>> \in Pairs /\ t \notin T
    BY DEF WorkType, Pairs
  <2>3. \A t \in found[w] : Backed(<<u, t>>)'
    BY <1>2, <1>7, <2>1, <2>2 DEF WorkInv
  <2>4. u \notin Reddit /\ InTable(u)' /\ (pc[w] = "publish" => row'[u] = "processed")
    BY <1>2, <1>7, <2>1 DEF WorkInv
  <2>5. job'[w] = u
    BY <1>3, <2>1
  <2> QED BY <1>3, <1>5, <1>6, <1>7, <2>3, <2>4, <2>5 DEF WorkInv
<1>8. CASE pc[w] \notin {"summarise", "publish"}
  BY <1>2, <1>3, <1>5, <1>6, <1>8 DEF WorkInv
<1> QED BY <1>7, <1>8

LEMMA BackfillArticleInv ==
    ASSUME BackfillBasic, Unborn, ArticleInv, [BackfillNext]_backfillVars
    PROVE  ArticleInv'
<1> USE DEF BackfillBasic
<1>1. CASE PipelineStep \/ UNCHANGED backfillVars \/ \E p \in Pairs : Notify(p)
  <2>1. [Next]_vars
    BY <1>1 DEF PipelineStep, backfillVars, Notify
  <2> QED BY <2>1, ArticleInvStep
<1>2. ASSUME NEW t \in Topics, CreateTopic(t)
      PROVE  ArticleInv'
  <2>1. Unknown(t)
    BY <1>2 DEF CreateTopic, Unborn
  <2>2. \A p \in Pairs : Backed(p) /\ p[2] \notin {t} => Backed(p)'
    BY <1>2 DEF CreateTopic, Backed
  <2>3. UNCHANGED <<workVars, unsent, row>>
    BY <1>2 DEF CreateTopic
  <2>4. \A u \in Urls : /\ InTable(u) => InTable(u)'
                        /\ row[u] = "processed" => row'[u] = "processed"
    BY <2>3 DEF InTable
  <2>5. /\ \A w \in Workers : found[w] \cap {t} = {}
        /\ \A w \in Workers : \A p \in todo[w] \cup unsent[w] : p[2] \notin {t}
    BY <2>1 DEF Unknown
  <2> QED BY <2>2, <2>3, <2>4, <2>5, StillKnown
<1>3. ASSUME UNCHANGED <<workVars, unsent, topics>>, stored \subseteq stored',
             \A u \in Urls : row'[u] = row[u] \/ row[u] = "dropped"
      PROVE  ArticleInv'
  <2>1. \A p \in Pairs : Backed(p) /\ p[2] \notin {} => Backed(p)'
    BY <1>3 DEF Backed
  <2>2. \A u \in Urls : /\ InTable(u) => InTable(u)'
                        /\ row[u] = "processed" => row'[u] = "processed"
    BY <1>3 DEF InTable
  <2>3. /\ \A w \in Workers : found[w] \cap {} = {}
        /\ \A w \in Workers : \A p \in todo[w] \cup unsent[w] : p[2] \notin {}
    OBVIOUS
  <2> QED BY <1>3, <2>1, <2>2, <2>3, StillKnown
<1>4. ASSUME NEW t \in Topics, BackfillRead(t) \/ BackfillFails(t) \/ BackfillDies(t)
      PROVE  ArticleInv'
  BY <1>3, <1>4 DEF BackfillRead, BackfillFails, BackfillDies, vars, tableVars
<1>5. ASSUME NEW t \in Topics, BackfillCommit(t)
      PROVE  ArticleInv'
  BY <1>3, <1>5 DEF BackfillCommit
<1>6. ASSUME NEW u \in Urls, Age(u) \/ PurgeDropped(u)
      PROVE  ArticleInv'
  BY <1>3, <1>6 DEF Age, PurgeDropped, tableVars, Basic, RowType
<1> QED BY <1>1, <1>2, <1>4, <1>5, <1>6 DEF BackfillNext

LEMMA BackfillRefinesNext ==
    ASSUME BackfillBasic, Unborn, ArticleInv, [BackfillNext]_backfillVars
    PROVE  [Articles!Next]_articleVars
<1> USE DEF BackfillBasic
<1>1. CASE PipelineStep \/ UNCHANGED backfillVars \/ \E p \in Pairs : Notify(p)
  <2>1. [Next]_vars
    BY <1>1 DEF PipelineStep, backfillVars, Notify
  <2> QED BY <2>1, RefinesNext
<1>2. ASSUME NEW t \in Topics, CreateTopic(t)
      PROVE  Articles!Next
  <2>1. t \notin topics /\ UNCHANGED Sent
    BY <1>2 DEF CreateTopic, Unborn, Unknown, Sent
  <2>2. Articles!CreateTopic(t)
    BY <1>2, <2>1 DEF CreateTopic, Articles!CreateTopic
  <2> QED BY <2>2 DEF Articles!Next
<1>3. ASSUME NEW t \in Topics, BackfillRead(t) \/ BackfillFails(t) \/ BackfillDies(t)
      PROVE  UNCHANGED articleVars
  BY <1>3 DEF BackfillRead, BackfillFails, BackfillDies, vars, tableVars, articleVars, Sent
<1>4. ASSUME NEW t \in Topics, BackfillCommit(t)
      PROVE  Articles!Next
  <2>1. candidates[t] \in SUBSET Urls
    BY DEF TaskType
  <2>2. stored' = stored \cup (candidates[t] \X {t})
    BY <1>4 DEF BackfillCommit
  <2>3. UNCHANGED <<topics, Sent>>
    BY <1>4 DEF BackfillCommit, Sent
  <2>4. Articles!Collect(candidates[t], t)
    BY <1>4, <2>2, <2>3 DEF BackfillCommit, Insertable, Articles!Collect
  <2> QED BY <2>1, <2>4 DEF Articles!Next
<1>5. ASSUME NEW u \in Urls, Age(u)
      PROVE  UNCHANGED articleVars
  BY <1>5 DEF Age, tableVars, articleVars, Sent
<1>6. ASSUME NEW u \in Urls, PurgeDropped(u)
      PROVE  Articles!Next
  <2>1. Articles!Forget(u)
    BY <1>6 DEF PurgeDropped, Articles!Forget, Sent
  <2> QED BY <2>1 DEF Articles!Next
<1> QED BY <1>1, <1>2, <1>3, <1>4, <1>5, <1>6 DEF BackfillNext

LEMMA BackfillKnowledgeInit == BackfillInit => Unborn /\ ArticleInv
<1> SUFFICES ASSUME BackfillInit PROVE Unborn /\ ArticleInv
  OBVIOUS
<1>1. Unborn
  BY DEF BackfillInit, Init, Unborn, Unknown
<1>2. ArticleInv
  BY DEF BackfillInit, Init, ArticleInv, WorkInv
<1> QED BY <1>1, <1>2

\* The tables and the matched-articles queue still behave like ArticleLifecycle
\* when topics are created, backfilled and deleted and old rows are purged: a
\* backfill brings back dropped rows only, a purge takes dropped rows only, and no
\* match is published that the table does not hold.
THEOREM BackfillImplementsArticles == BackfillSpec => ImplementsArticles
<1>1. BackfillInit => BackfillBasic /\ Unborn /\ ArticleInv
  BY BackfillBasicInit, BackfillKnowledgeInit
<1>2. BackfillBasic /\ Unborn /\ ArticleInv /\ [BackfillNext]_backfillVars
        => (BackfillBasic /\ Unborn /\ ArticleInv)'
  BY BackfillBasicStep, UnbornStep, BackfillArticleInv
<1>3. BackfillBasic /\ Unborn /\ ArticleInv /\ [BackfillNext]_backfillVars
        => [Articles!Next]_articleVars
  BY BackfillRefinesNext
<1>4. BackfillInit => Articles!Init
  BY RefinesInit DEF BackfillInit
<1> QED BY <1>1, <1>2, <1>3, <1>4, PTL
        DEF BackfillSpec, ImplementsArticles, Articles!Spec, articleVars

-----------------------------------------------------------------------------
(* No notification for a match the backfill found *)

\* What matched-articles has messages for, the table holds, or its topic is gone.
SentBacked == \A p \in Pairs : published[p] > 0 => Backed(p)

\* A match that was notified was stored by a consumer; one a backfill inserted has
\* its alert row, and both rows go with the topic.
Silenced(p) ==
    /\ alerts[p] = "notified" => p \in stored
    /\ p[2] \notin topics => alerts[p] = "none"
    /\ p \in collected => /\ p[2] \in topics => alerts[p] = "shown"
                          /\ task[p[2]] # "none"

SilenceInv == SentBacked /\ \A p \in Pairs : Silenced(p)

\* A step of the consumers publishes what the table holds.
LEMMA PublishedBacked ==
    ASSUME Basic, ArticleInv, SentBacked, [Next]_vars
    PROVE  SentBacked'
<1> USE DEF Basic
<1>1. SUFFICES ASSUME NEW p \in Pairs, published'[p] > 0
               PROVE  Backed(p)
  BY Forward DEF SentBacked
<1>2. CASE published[p] > 0
  BY <1>2 DEF SentBacked
<1>3. ASSUME NEW w \in Workers, PublishMatch(w), ~ (published[p] > 0)
      PROVE  Backed(p)
  <2>1. PICK t \in found[w] : \/ Count(unsent[w] \cup {<<job[w], t>>}, 1)
                              \/ Count(unsent[w] \cup {<<job[w], t>>}, 2)
    BY <1>3 DEF PublishMatch
  <2>2. p \in unsent[w] \cup {<<job[w], t>>}
    BY <1>1, <1>3, <2>1 DEF Count
  <2> QED BY <1>3, <2>2 DEF PublishMatch, ArticleInv, WorkInv
<1>4. CASE UNCHANGED published
  BY <1>1, <1>4 DEF SentBacked
<1> QED BY <1>2, <1>3, <1>4, NextSteps, QuietTables
        DEF WorkerStep, Enqueue, DeleteTopic, Drop, Store, Summarise, vars

LEMMA SentBackedStep ==
    ASSUME BackfillBasic, Unborn, ArticleInv, SentBacked, [BackfillNext]_backfillVars
    PROVE  SentBacked'
<1> USE DEF BackfillBasic
<1>1. CASE PipelineStep \/ UNCHANGED backfillVars \/ \E p \in Pairs : Notify(p)
  <2>1. [Next]_vars
    BY <1>1 DEF PipelineStep, backfillVars, Notify
  <2> QED BY <2>1, PublishedBacked
<1>2. ASSUME NEW t \in Topics, CreateTopic(t)
      PROVE  SentBacked'
  <2>1. Unknown(t)
    BY <1>2 DEF CreateTopic, Unborn
  <2> QED BY <1>2, <2>1 DEF CreateTopic, Unknown, SentBacked, Backed
<1>3. ASSUME NEW t \in Topics, \/ BackfillRead(t) \/ BackfillFails(t) \/ BackfillDies(t)
                              \/ BackfillCommit(t)
      PROVE  SentBacked'
  BY <1>3 DEF BackfillRead, BackfillFails, BackfillDies, BackfillCommit, vars, tableVars,
              SentBacked, Backed
<1>4. ASSUME NEW u \in Urls, Age(u) \/ PurgeDropped(u)
      PROVE  SentBacked'
  BY <1>4 DEF Age, PurgeDropped, tableVars, SentBacked, Backed
<1> QED BY <1>1, <1>2, <1>3, <1>4 DEF BackfillNext

\* The consumers' steps.
LEMMA SilencedPipeline ==
    ASSUME BackfillBasic, PipelineStep, NEW p \in Pairs, Silenced(p)
    PROVE  Silenced(p)'
<1> USE DEF BackfillBasic
<1>1. /\ alerts'[p] = IF p[2] \in topics \ topics' THEN "none" ELSE alerts[p]
      /\ UNCHANGED <<collected, task>>
  BY DEF PipelineStep, taskVars
<1>2. topics' \subseteq topics /\ (p[2] \in topics' /\ p \in stored => p \in stored')
  <2>1. ASSUME NEW w \in Workers, WorkerStep(w)
        PROVE  UNCHANGED topics /\ stored \subseteq stored'
    BY <2>1, QuietTables DEF WorkerStep, Drop, Store, Summarise, PublishMatch, tableVars
  <2> QED BY <2>1, NextSteps DEF PipelineStep, Enqueue, DeleteTopic, vars, tableVars
<1> QED BY <1>1, <1>2 DEF Silenced

LEMMA SilencedStep ==
    ASSUME BackfillBasic, Unborn, SilenceInv, [BackfillNext]_backfillVars,
           NEW p \in Pairs
    PROVE  Silenced(p)'
<1> USE DEF BackfillBasic
<1>1. Silenced(p) /\ p[2] \in Topics
  BY DEF SilenceInv, Pairs
<1>2. CASE PipelineStep
  BY <1>1, <1>2, SilencedPipeline
<1>3. ASSUME NEW q \in Pairs, Notify(q)
      PROVE  Silenced(p)'
  <2>1. q \in stored /\ q[2] \in topics /\ alerts[q] = "none"
    BY <1>3 DEF Notify, SilenceInv, SentBacked, Backed
  <2>2. UNCHANGED <<stored, topics, collected, task>>
    BY <1>3 DEF Notify, vars, tableVars, taskVars, historyVars
  <2>3. alerts'[p] = IF p = q THEN "notified" ELSE alerts[p]
    BY <1>3 DEF Notify, AlertType
  <2> QED BY <1>1, <2>1, <2>2, <2>3 DEF Silenced
<1>4. ASSUME NEW t \in Topics, CreateTopic(t)
      PROVE  Silenced(p)'
  <2>1. t \notin topics /\ task[t] = "none"
    BY <1>4 DEF CreateTopic, Unborn, Unknown
  <2>2. task'[p[2]] = "none" => task[p[2]] = "none"
    BY <1>1, <1>4 DEF CreateTopic, TaskType
  <2> QED BY <1>1, <1>4, <2>1, <2>2 DEF CreateTopic, historyVars, Silenced
<1>5. ASSUME NEW t \in Topics, BackfillCommit(t)
      PROVE  Silenced(p)'
  <2>1. t \in topics /\ UNCHANGED topics /\ stored \subseteq stored'
    BY <1>5 DEF BackfillCommit, Insertable
  <2>2. task'[p[2]] = "none" => task[p[2]] = "none"
    BY <1>1, <1>5 DEF BackfillCommit, TaskType
  <2>3. CASE p \in candidates[t] \X {t}
    <3>1. p[2] = t /\ p \in stored' /\ task'[t] # "none"
      BY <1>5, <2>3 DEF BackfillCommit, TaskType
    <3>2. alerts'[p] = IF alerts[p] = "none" THEN "shown" ELSE alerts[p]
      BY <1>5, <2>3 DEF BackfillCommit
    <3>3. p \in collected' => p \in collected \/ p \notin stored
      BY <1>5 DEF BackfillCommit
    <3>4. alerts[p] \in {"none", "shown", "notified"}
      BY DEF AlertType
    <3> QED BY <1>1, <2>1, <3>1, <3>2, <3>3, <3>4 DEF Silenced
  <2>4. CASE p \notin candidates[t] \X {t}
    <3>1. alerts'[p] = alerts[p] /\ (p \in collected' => p \in collected)
      BY <1>5, <2>4 DEF BackfillCommit
    <3> QED BY <1>1, <2>1, <2>2, <3>1 DEF Silenced
  <2> QED BY <2>3, <2>4
<1>6. ASSUME NEW t \in Topics, BackfillRead(t) \/ BackfillFails(t) \/ BackfillDies(t)
      PROVE  Silenced(p)'
  <2>1. UNCHANGED <<stored, topics, alerts, collected>>
    BY <1>6 DEF BackfillRead, BackfillFails, BackfillDies, vars, tableVars, historyVars
  <2>2. task'[p[2]] = "none" => task[p[2]] = "none"
    BY <1>1, <1>6 DEF BackfillRead, BackfillFails, BackfillDies, Retried, TaskType
  <2> QED BY <1>1, <2>1, <2>2 DEF Silenced
<1>7. CASE (\E u \in Urls : Age(u) \/ PurgeDropped(u)) \/ UNCHANGED backfillVars
  <2>1. UNCHANGED <<stored, topics, alerts, collected, task>>
    BY <1>7 DEF Age, PurgeDropped, backfillVars, vars, tableVars, taskVars, historyVars
  <2> QED BY <1>1, <2>1 DEF Silenced
<1> QED BY <1>2, <1>3, <1>4, <1>5, <1>6, <1>7 DEF BackfillNext

\* A match the backfill found is never notified: not by its own alert row, and not
\* by the message of a consumer that finds the match in the table and publishes it.
THEOREM SilentBackfill == BackfillSpec => []BackfillIsSilent
<1> DEFINE Inv == BackfillBasic /\ Unborn /\ ArticleInv /\ SilenceInv
<1>1. BackfillInit => Inv
  <2> SUFFICES ASSUME BackfillInit PROVE SilenceInv
    BY BackfillBasicInit, BackfillKnowledgeInit
  <2>1. SentBacked
    BY DEF BackfillInit, Init, SentBacked
  <2>2. \A p \in Pairs : Silenced(p)
    BY DEF BackfillInit, Silenced
  <2> QED BY <2>1, <2>2 DEF SilenceInv
<1>2. Inv /\ [BackfillNext]_backfillVars => Inv'
  BY BackfillBasicStep, UnbornStep, BackfillArticleInv, SentBackedStep, SilencedStep
  DEF SilenceInv
<1>3. Inv => BackfillIsSilent
  <2> SUFFICES ASSUME Inv, NEW p \in collected PROVE alerts[p] # "notified"
    BY DEF BackfillIsSilent
  <2>1. p \in Pairs
    BY PipelineAssumption DEF BackfillBasic, HistoryType, Pairs
  <2> QED BY <2>1 DEF SilenceInv, Silenced
<1> QED BY <1>1, <1>2, <1>3, PTL DEF BackfillSpec

-----------------------------------------------------------------------------
(* Which matches are missed *)

\* What a consumer is about to write: a stored article goes with every topic of the
\* cache it hits, a dropped one that hits one was taken for a copy.
Decided(w) ==
    /\ pc[w] = "store" => found[w] = {t \in cache[w] : <<job[w], t>> \in Hits}
    /\ pc[w] = "drop" => \A t \in cache[w] \cap topics :
                            <<job[w], t>> \in Hits => <<job[w], t>> \in copies

\* From its read on, a backfill leaves no stored article to chance: what it did not
\* take was written later, by a consumer.
Met(u, t) ==
    task[t] \in {"read", "done"} /\ t \in topics /\ Wanted(u, t)
        => <<u, t>> \in stored \cup stale \cup copies \/ u \in candidates[t]

MissInv ==
    /\ \A w \in Workers : Decided(w)
    /\ \A u \in Urls, t \in Topics : Met(u, t)
    /\ \A t \in Topics : task[t] = "done" => candidates[t] = {}

LEMMA OthersCache ==
    ASSUME Basic, NEW w \in Workers, WorkerStep(w), NEW v \in Workers, v # w
    PROVE  cache'[v] = cache[v]
<1> USE DEF Basic
<1>1. CASE Start(w) \/ Refresh(w)
  BY <1>1 DEF Start, Refresh, MemoryType
<1>2. CASE RefreshDies(w) \/ Crash(w)
  BY <1>2 DEF RefreshDies, Crash, Down, MemoryType
<1>3. CASE SummariseFails(w)
  BY <1>3 DEF SummariseFails, Down, MemoryType
<1>4. CASE UNCHANGED cache
  BY <1>4
<1> QED BY <1>1, <1>2, <1>3, <1>4
        DEF WorkerStep, Quiet, ResumeNext, ResumeDone, Reap, Claim, Park, Ack, CheckUrl,
            CheckFails, Match, MatchFails, StoreFails, PublishFails, BreakConn, Drop,
            Store, Summarise, PublishMatch

\* Only Stages 1 to 4 lead to a write.
LEMMA DecidedBefore ==
    ASSUME Basic, NEW w \in Workers, WorkerStep(w), pc'[w] \in {"store", "drop"}
    PROVE  Match(w) \/ (/\ pc'[w] = pc[w] /\ job'[w] = job[w]
                        /\ found'[w] = found[w] /\ cache'[w] = cache[w])
<1> USE DEF Basic
<1>1. ~ (Start(w) \/ ResumeNext(w) \/ ResumeDone(w) \/ Claim(w) \/ CheckUrl(w))
  BY DEF Start, ResumeNext, ResumeDone, Claim, CheckUrl, Goto, WorkType
<1>2. ~ (RefreshDies(w) \/ Crash(w) \/ Park(w) \/ Ack(w) \/ CheckFails(w) \/ SummariseFails(w))
  BY DEF RefreshDies, Crash, Down, Park, Ack, CheckFails, SummariseFails, GiveBack, Finish,
         Goto, WorkType
<1>3. ~ (MatchFails(w) \/ Drop(w) \/ StoreFails(w) \/ PublishFails(w))
  BY DEF MatchFails, Drop, StoreFails, PublishFails, Return, Raise, Leave, Goto, WorkType
<1>4. ~ (Store(w) \/ Summarise(w) \/ PublishMatch(w))
  BY DEF Store, Summarise, PublishMatch, Return, Leave, Goto, WorkType
<1>5. Refresh(w) => pc[w] = "idle" /\ UNCHANGED pc
  BY DEF Refresh, workVars
<1>6. Reap(w) \/ BreakConn(w) => UNCHANGED <<pc, job, found, cache>>
  BY DEF Reap, BreakConn, workVars
<1> QED BY <1>1, <1>2, <1>3, <1>4, <1>5, <1>6 DEF WorkerStep, Quiet

LEMMA MatchDecides ==
    ASSUME BackfillBasic, PipelineStep, NEW w \in Workers, Match(w)
    PROVE  Decided(w)'
<1> USE DEF BackfillBasic, Basic
<1>1. UNCHANGED <<job, cache, topics>> /\ pc[w] = "match"
  BY DEF Match, tableVars
<1> DEFINE Copy == \E v \in Urls : row[v] # "none" /\ Story[v] = Story[job[w]]
           All == {t \in cache[w] : <<job[w], t>> \in Hits}
<1>2. \/ (Copy \/ All = {}) /\ pc'[w] = "drop"
      \/ pc'[w] = "store" /\ found'[w] = All
  BY DEF Match, Goto, WorkType
<1>3. CASE pc'[w] = "store" /\ found'[w] = All
  BY <1>1, <1>3 DEF Decided
<1>4. CASE Copy /\ pc'[w] = "drop"
  <2>1. w \in Deduplicated
    BY <1>1, <1>4 DEF Deduplicated
  <2>2. \A t \in topics : <<job[w], t>> \in Hits => <<job[w], t>> \in copies'
    BY <2>1 DEF PipelineStep
  <2> QED BY <1>1, <1>4, <2>2 DEF Decided
<1>5. CASE All = {} /\ pc'[w] = "drop"
  BY <1>1, <1>5 DEF Decided
<1> QED BY <1>2, <1>3, <1>4, <1>5

\* A decision stands until it is carried out.
LEMMA DecisionStands ==
    ASSUME NEW w \in Workers, Decided(w), pc'[w] = pc[w], job'[w] = job[w],
           found'[w] = found[w], cache'[w] = cache[w], copies \subseteq copies',
           \A t \in cache[w] : t \in topics' => t \in topics
    PROVE  Decided(w)'
BY DEF Decided

LEMMA TopicsOnlyGo ==
    ASSUME Basic, [Next]_vars
    PROVE  topics' \subseteq topics /\ \A p \in stored : p[2] \in topics' => p \in stored'
<1>1. ASSUME NEW w \in Workers, WorkerStep(w)
      PROVE  UNCHANGED topics /\ stored \subseteq stored'
  BY <1>1, QuietTables DEF WorkerStep, Drop, Store, Summarise, PublishMatch, tableVars
<1> QED BY <1>1, NextSteps DEF Enqueue, DeleteTopic, vars, tableVars

LEMMA DecidedPipeline ==
    ASSUME BackfillBasic, PipelineStep, NEW v \in Workers, Decided(v)
    PROVE  Decided(v)'
<1> USE DEF BackfillBasic
<1>1. [Next]_vars /\ copies \subseteq copies'
  BY DEF PipelineStep
<1>2. topics' \subseteq topics
  BY <1>1, TopicsOnlyGo
<1>3. CASE Enqueue \/ UNCHANGED vars \/ \E t \in Topics : DeleteTopic(t)
  <2>1. UNCHANGED <<pc, job, found, cache>>
    BY <1>3 DEF Enqueue, DeleteTopic, vars, workVars
  <2> QED BY <1>1, <1>2, <2>1, DecisionStands
<1>4. ASSUME NEW w \in Workers, WorkerStep(w), v # w
      PROVE  Decided(v)'
  <2>1. pc'[v] = pc[v] /\ job'[v] = job[v] /\ found'[v] = found[v] /\ cache'[v] = cache[v]
    BY <1>4, OthersStay, OthersCache
  <2> QED BY <1>1, <1>2, <2>1, DecisionStands
<1>5. CASE WorkerStep(v)
  <2>1. CASE Match(v)
    BY <2>1, MatchDecides
  <2>2. CASE pc'[v] \notin {"store", "drop"}
    BY <2>2 DEF Decided
  <2>3. CASE pc'[v] \in {"store", "drop"} /\ ~ Match(v)
    <3>1. pc'[v] = pc[v] /\ job'[v] = job[v] /\ found'[v] = found[v] /\ cache'[v] = cache[v]
      BY <1>5, <2>3, DecidedBefore
    <3> QED BY <1>1, <1>2, <3>1, DecisionStands
  <2> QED BY <2>1, <2>2, <2>3
<1> QED BY <1>1, <1>3, <1>4, <1>5, NextSteps

\* A row is born by a Drop or a Store.
LEMMA BornBy ==
    ASSUME Basic, ArticleInv, [Next]_vars, NEW u \in Urls, row[u] = "none", row'[u] # "none"
    PROVE  \E w \in Workers : (Drop(w) \/ Store(w)) /\ job[w] = u
<1> USE DEF Basic
<1>1. ASSUME NEW w \in Workers, Summarise(w)
      PROVE  row'[u] = "none"
  BY <1>1 DEF Summarise, ArticleInv, WorkInv, InTable, RowType
<1>2. ASSUME NEW w \in Workers, Drop(w) \/ Store(w)
      PROVE  job[w] = u
  BY <1>2 DEF Drop, Store, RowType
<1>3. ASSUME NEW w \in Workers, Quiet(w) \/ PublishMatch(w)
      PROVE  row'[u] = "none"
  BY <1>3, QuietTables DEF PublishMatch, tableVars
<1>4. ~ (Enqueue \/ UNCHANGED vars \/ \E t \in Topics : DeleteTopic(t))
  BY DEF Enqueue, DeleteTopic, vars, tableVars
<1> QED BY <1>1, <1>2, <1>3, <1>4, NextSteps DEF WorkerStep

LEMMA MetPipeline ==
    ASSUME BackfillBasic, ArticleInv, MissInv, PipelineStep,
           NEW u \in Urls, NEW t \in Topics
    PROVE  Met(u, t)'
<1> USE DEF BackfillBasic
<1>1. SUFFICES ASSUME task'[t] \in {"read", "done"}, t \in topics', Wanted(u, t)'
               PROVE  <<u, t>> \in stored' \cup stale' \cup copies' \/ u \in candidates'[t]
  BY DEF Met
<1>2. /\ [Next]_vars /\ UNCHANGED <<task, candidates, old>>
      /\ stale \subseteq stale' /\ copies \subseteq copies'
  BY DEF PipelineStep, taskVars
<1>3. t \in topics /\ (<<u, t>> \in stored => <<u, t>> \in stored')
  BY <1>1, <1>2, TopicsOnlyGo
<1>4. CASE row[u] # "none"
  <2>1. Wanted(u, t)
    BY <1>1, <1>2, <1>4 DEF Wanted
  <2> QED BY <1>1, <1>2, <1>3, <2>1 DEF MissInv, Met
<1>5. CASE row[u] = "none"
  <2>1. PICK w \in Workers : (Drop(w) \/ Store(w)) /\ job[w] = u
    BY <1>1, <1>2, <1>5, BornBy DEF Wanted
  <2>2. <<u, t>> \in Hits
    BY <1>1 DEF Wanted
  <2>3. CASE t \notin cache[w]
    <3>1. pc[w] \in {"drop", "store"} /\ pc'[w] # pc[w]
      BY <2>1 DEF Drop, Store, Return, Leave, Goto, Basic, WorkType
    <3>2. w \in Writers
      BY <1>1, <1>5, <2>1, <3>1 DEF Writers, Wanted
    <3> QED BY <1>3, <2>1, <2>2, <2>3, <3>2 DEF PipelineStep
  <2>4. CASE t \in cache[w] /\ Store(w)
    <3>1. t \in found[w]
      BY <2>1, <2>2, <2>4 DEF Store, MissInv, Decided
    <3> QED BY <2>1, <2>4, <3>1 DEF Store
  <2>5. CASE t \in cache[w] /\ Drop(w)
    BY <1>2, <1>3, <2>1, <2>2, <2>5 DEF Drop, MissInv, Decided
  <2> QED BY <2>1, <2>3, <2>4, <2>5
<1> QED BY <1>4, <1>5

\* The other steps: no worker's decision is touched, unless a topic is created that
\* no cache has.
LEMMA DecidedOutside ==
    ASSUME BackfillBasic, Unborn, MissInv, UNCHANGED <<workVars, cache, copies>>,
           NEW w \in Workers,
           \/ UNCHANGED topics
           \/ \E t \in Topics : task[t] = "none" /\ topics' = topics \cup {t}
    PROVE  Decided(w)'
<1>1. \A t \in cache[w] : t \in topics' => t \in topics
  BY DEF Unborn, Unknown
<1>2. Decided(w) /\ UNCHANGED <<pc, job, found>>
  BY DEF MissInv, workVars
<1> QED BY <1>1, <1>2, DecisionStands

LEMMA MetOutside ==
    ASSUME BackfillBasic, Unborn, MissInv, [BackfillNext]_backfillVars, ~ PipelineStep,
           NEW u \in Urls, NEW t \in Topics
    PROVE  Met(u, t)'
<1> USE DEF BackfillBasic
<1>1. SUFFICES ASSUME task'[t] \in {"read", "done"}, t \in topics', Wanted(u, t)'
               PROVE  <<u, t>> \in stored' \cup stale' \cup copies' \/ u \in candidates'[t]
  BY DEF Met
<1>2. Met(u, t) /\ <<u, t>> \in Hits
  BY <1>1 DEF MissInv, Wanted
\* Steps that leave the topic and its task alone.
<1>3. ASSUME task'[t] = task[t], candidates'[t] = candidates[t], t \in topics,
             row'[u] # "none" => row[u] # "none", u \notin old' => u \notin old,
             stored \subseteq stored', UNCHANGED copies,
             <<u, t>> \in stale => <<u, t>> \in stale'
      PROVE  <<u, t>> \in stored' \cup stale' \cup copies' \/ u \in candidates'[t]
  BY <1>1, <1>2, <1>3 DEF Met, Wanted
<1>4. CASE UNCHANGED backfillVars \/ \E p \in Pairs : Notify(p)
  <2>1. UNCHANGED <<task, candidates, topics, row, old, stored, stale, copies>>
    BY <1>4 DEF Notify, backfillVars, vars, tableVars, taskVars, historyVars
  <2> QED BY <1>1, <1>3, <2>1
<1>5. ASSUME NEW d \in Topics, CreateTopic(d)
      PROVE  <<u, t>> \in stored' \cup stale' \cup copies' \/ u \in candidates'[t]
  <2>1. t # d
    BY <1>1, <1>5 DEF CreateTopic, TaskType
  <2>2. task'[t] = task[t] /\ t \in topics
    BY <1>1, <1>5, <2>1 DEF CreateTopic, TaskType
  <2> QED BY <1>3, <1>5, <2>2 DEF CreateTopic, historyVars
<1>6. ASSUME NEW d \in Topics, BackfillRead(d)
      PROVE  <<u, t>> \in stored' \cup stale' \cup copies' \/ u \in candidates'[t]
  <2>1. UNCHANGED <<topics, row, old, stored, stale, copies>>
    BY <1>6 DEF BackfillRead, vars, tableVars, historyVars
  <2>2. CASE t # d
    <3>1. task'[t] = task[t] /\ candidates'[t] = candidates[t]
      BY <1>6, <2>2 DEF BackfillRead, TaskType
    <3> QED BY <1>1, <1>3, <2>1, <3>1
  <2>3. CASE t = d
    <3>1. candidates'[t] = Found(t)
      BY <1>1, <1>6, <2>1, <2>3 DEF BackfillRead, TaskType
    <3>2. u \in Found(t)
      BY <1>1, <2>1 DEF Wanted, Found
    <3> QED BY <3>1, <3>2
  <2> QED BY <2>2, <2>3
<1>7. ASSUME NEW d \in Topics, BackfillCommit(d)
      PROVE  <<u, t>> \in stored' \cup stale' \cup copies' \/ u \in candidates'[t]
  <2>1. UNCHANGED <<topics, old, stale, copies>> /\ stored' = stored \cup (candidates[d] \X {d})
    BY <1>7 DEF BackfillCommit
  <2>2. row'[u] # "none" => row[u] # "none"
    BY <1>7 DEF BackfillCommit
  <2>3. CASE t # d
    <3>1. task'[t] = task[t] /\ candidates'[t] = candidates[t]
      BY <1>7, <2>3 DEF BackfillCommit, TaskType
    <3> QED BY <1>1, <1>3, <2>1, <2>2, <3>1
  <2>4. CASE t = d
    <3>1. Wanted(u, t) /\ task[t] = "read" /\ t \in topics
      BY <1>1, <1>7, <2>1, <2>2, <2>4 DEF Wanted, BackfillCommit
    <3>2. <<u, t>> \in stored \cup stale \cup copies \/ u \in candidates[t]
      BY <1>2, <3>1 DEF Met
    <3> QED BY <2>1, <2>4, <3>2
  <2> QED BY <2>3, <2>4
<1>8. ASSUME NEW d \in Topics, BackfillFails(d) \/ BackfillDies(d)
      PROVE  <<u, t>> \in stored' \cup stale' \cup copies' \/ u \in candidates'[t]
  <2>1. t # d
    BY <1>1, <1>8 DEF BackfillFails, BackfillDies, Retried, TaskType
  <2>2. task'[t] = task[t] /\ candidates'[t] = candidates[t]
    BY <1>8, <2>1 DEF BackfillFails, BackfillDies, Retried, TaskType
  <2>3. UNCHANGED <<topics, row, old, stored, stale, copies>>
    BY <1>8 DEF BackfillFails, BackfillDies, tableVars, historyVars
  <2> QED BY <1>1, <1>3, <2>2, <2>3
<1>9. ASSUME NEW v \in Urls, Age(v)
      PROVE  <<u, t>> \in stored' \cup stale' \cup copies' \/ u \in candidates'[t]
  BY <1>1, <1>3, <1>9 DEF Age, tableVars, taskVars, historyVars
<1>10. ASSUME NEW v \in Urls, PurgeDropped(v)
       PROVE  <<u, t>> \in stored' \cup stale' \cup copies' \/ u \in candidates'[t]
  <2>1. u # v /\ row'[u] = row[u]
    BY <1>1, <1>10 DEF PurgeDropped, Wanted, Basic, RowType
  <2>2. UNCHANGED <<task, candidates, topics, stored, copies>> /\ (u \notin old' => u \notin old)
    BY <1>10, <2>1 DEF PurgeDropped, taskVars
  <2>3. <<u, t>> \in stale => <<u, t>> \in stale'
    BY <1>10, <2>1 DEF PurgeDropped
  <2> QED BY <1>1, <1>3, <2>1, <2>2, <2>3
<1> QED BY <1>4, <1>5, <1>6, <1>7, <1>8, <1>9, <1>10 DEF BackfillNext

LEMMA MissInvStep ==
    ASSUME BackfillBasic, Unborn, ArticleInv, MissInv, [BackfillNext]_backfillVars
    PROVE  MissInv'
<1> USE DEF BackfillBasic
<1>1. \A u \in Urls, t \in Topics : Met(u, t)'
  BY MetPipeline, MetOutside
<1>2. ASSUME NEW w \in Workers
      PROVE  Decided(w)'
  <2>1. CASE PipelineStep
    BY <2>1, DecidedPipeline DEF MissInv
  <2>2. CASE UNCHANGED backfillVars \/ \E p \in Pairs : Notify(p)
    <3>1. UNCHANGED <<workVars, cache, copies, topics>>
      BY <2>2 DEF Notify, backfillVars, vars, workVars, tableVars, historyVars
    <3> QED BY <3>1, DecidedOutside
  <2>3. ASSUME NEW t \in Topics, CreateTopic(t)
        PROVE  Decided(w)'
    <3>1. /\ UNCHANGED <<workVars, cache, copies>>
          /\ task[t] = "none" /\ topics' = topics \cup {t}
      BY <2>3 DEF CreateTopic, historyVars
    <3> QED BY <3>1, DecidedOutside
  <2>4. ASSUME NEW t \in Topics, \/ BackfillRead(t) \/ BackfillCommit(t)
                                \/ BackfillFails(t) \/ BackfillDies(t)
        PROVE  Decided(w)'
    <3>1. UNCHANGED <<workVars, cache, copies, topics>>
      BY <2>4 DEF BackfillRead, BackfillCommit, BackfillFails, BackfillDies, vars,
                  workVars, tableVars, historyVars
    <3> QED BY <3>1, DecidedOutside
  <2>5. ASSUME NEW u \in Urls, Age(u) \/ PurgeDropped(u)
        PROVE  Decided(w)'
    <3>1. UNCHANGED <<workVars, cache, copies, topics>>
      BY <2>5 DEF Age, PurgeDropped, workVars, tableVars, historyVars
    <3> QED BY <3>1, DecidedOutside
  <2> QED BY <2>1, <2>2, <2>3, <2>4, <2>5 DEF BackfillNext
<1>3. ASSUME NEW t \in Topics, task'[t] = "done"
      PROVE  candidates'[t] = {}
  <2>1. task[t] = "done" => candidates[t] = {}
    BY DEF MissInv
  <2>2. CASE PipelineStep \/ UNCHANGED backfillVars \/ (\E p \in Pairs : Notify(p))
             \/ (\E u \in Urls : Age(u) \/ PurgeDropped(u))
    BY <1>3, <2>1, <2>2 DEF PipelineStep, backfillVars, Notify, Age, PurgeDropped, taskVars
  <2>3. ASSUME NEW d \in Topics, CreateTopic(d) \/ BackfillFails(d) \/ BackfillDies(d)
        PROVE  candidates'[t] = {}
    BY <1>3, <2>1, <2>3 DEF CreateTopic, BackfillFails, BackfillDies, Retried, TaskType
  <2>4. ASSUME NEW d \in Topics, BackfillRead(d) \/ BackfillCommit(d)
        PROVE  candidates'[t] = {}
    BY <1>3, <2>1, <2>4 DEF BackfillRead, BackfillCommit, TaskType
  <2> QED BY <2>2, <2>3, <2>4 DEF BackfillNext
<1> QED BY <1>1, <1>2, <1>3 DEF MissInv

\* A topic that was backfilled has every stored article of the last seven days that
\* it hits, except those a consumer wrote with a cache older than the topic, and
\* those Stage 2 took for a copy: with any number of consumers, for every order of
\* inserts, purges, retries and crashes.
THEOREM MissesExplained == BackfillSpec => []OnlyStaleCachesMiss
<1> DEFINE Inv == BackfillBasic /\ Unborn /\ ArticleInv /\ MissInv
<1>1. BackfillInit => Inv
  <2> SUFFICES ASSUME BackfillInit PROVE MissInv
    BY BackfillBasicInit, BackfillKnowledgeInit
  <2>1. \A w \in Workers : Decided(w)
    BY DEF BackfillInit, Init, Decided
  <2>2. \A u \in Urls, t \in Topics : Met(u, t)
    BY DEF BackfillInit, Init, Met, Wanted
  <2>3. \A t \in Topics : candidates[t] = {}
    BY DEF BackfillInit
  <2> QED BY <2>1, <2>2, <2>3 DEF MissInv
<1>2. Inv /\ [BackfillNext]_backfillVars => Inv'
  BY BackfillBasicStep, UnbornStep, BackfillArticleInv, MissInvStep
<1>3. Inv => OnlyStaleCachesMiss
  <2> SUFFICES ASSUME Inv, NEW u \in Urls, NEW t \in topics,
                      task[t] = "done", Wanted(u, t)
               PROVE  <<u, t>> \in stored \cup stale \cup copies
    BY DEF OnlyStaleCachesMiss
  <2>1. t \in Topics
    BY DEF BackfillBasic, Basic, TableType
  <2> QED BY <2>1 DEF MissInv, Met
<1> QED BY <1>1, <1>2, <1>3, PTL DEF BackfillSpec
=============================================================================
