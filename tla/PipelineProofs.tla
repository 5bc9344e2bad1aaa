---------------------------- MODULE PipelineProofs ----------------------------
(***************************************************************************)
(* Theorems about Pipeline, for every number of consumers, messages,       *)
(* articles, topics and faults: its types, that it implements              *)
(* ArticleLifecycle, and, for the faults under which they hold, that       *)
(* nothing is lost and that no replica publishes a match twice.            *)
(***************************************************************************)
EXTENDS Pipeline, FiniteSetTheorems, TLAPS

-----------------------------------------------------------------------------
(* Type correctness *)

QueueType ==
    /\ state \in [Messages -> {"absent", "pending", "processing", "done", "failed"}]
    /\ holder \in [Messages -> Workers \cup {Nobody}]
    /\ attempts \in [Messages -> 0..MaxAttempts]

RowType == row \in [Urls -> {"none", "passed_dedup", "processed", "dropped"}]

TableType ==
    /\ stored \in SUBSET Pairs
    /\ topics \in SUBSET Topics
    /\ published \in [Pairs -> 0..PublishCap]

Working == {"url", "match", "drop", "store", "summarise", "publish"} \cup Acking

\* A worker that is working on an article has one.
WorkType ==
    /\ pc \in [Workers -> PCs]
    /\ job \in [Workers -> Urls \cup {NoUrl}]
    /\ found \in [Workers -> SUBSET Topics]
    /\ todo \in [Workers -> SUBSET Pairs]
    /\ \A w \in Workers : pc[w] \in Working => job[w] \in Urls

MemoryType ==
    /\ cache \in [Workers -> SUBSET Topics]
    /\ conn \in [Workers -> {"open", "broken", "closed"}]
    /\ unsent \in [Workers -> SUBSET Pairs]

FaultsType == faults \in 0..MaxFaults

Basic ==
    /\ QueueType /\ RowType /\ TableType
    /\ WorkType /\ MemoryType /\ FaultsType

LEMMA BasicTypeOK == Basic => TypeOK
BY DEF Basic, TypeOK, QueueType, RowType, TableType, WorkType, MemoryType, FaultsType

LEMMA BasicInit == Init => Basic
<1> SUFFICES ASSUME Init PROVE Basic
  OBVIOUS
<1> USE PipelineAssumption DEF Init, Pairs
<1>1. QueueType
  BY DEF Queue!Init, QueueType
<1>2. RowType /\ TableType /\ MemoryType /\ FaultsType
  BY DEF RowType, TableType, MemoryType, FaultsType
<1>3. WorkType
  BY DEF WorkType, PCs, Working, Acking
<1> QED BY <1>1, <1>2, <1>3 DEF Basic

LEMMA FaultType == \A k : FaultsType /\ Fault(k) => FaultsType'
BY PipelineAssumption DEF Fault, FaultsType

LEMMA FinishType ==
    ASSUME QueueType, WorkType, NEW w \in Workers,
           NEW to \in {"done", "failed", "pending"}, Finish(w, to)
    PROVE  QueueType' /\ WorkType'
<1>1. PICK m \in Held(w) : Queue!End(m, to)
  BY DEF Finish
<1>2. QueueType'
  BY <1>1 DEF Finish, Queue!End, Queue!Move, QueueType, Held
<1>3. WorkType'
  BY DEF Finish, Goto, WorkType, PCs, Working, Acking
<1> QED BY <1>2, <1>3

LEMMA GiveBackType ==
    ASSUME QueueType, WorkType, NEW w \in Workers, GiveBack(w)
    PROVE  QueueType' /\ WorkType'
<1>1. PICK m \in Held(w) :
          Finish(w, IF attempts[m] >= MaxAttempts THEN "failed" ELSE "pending")
  BY DEF GiveBack
<1>2. Finish(w, "failed") \/ Finish(w, "pending")
  BY <1>1
<1> QED BY <1>2, FinishType

LEMMA DownType ==
    ASSUME QueueType, WorkType, MemoryType, NEW w \in Workers, Down(w), UNCHANGED attempts
    PROVE  QueueType' /\ WorkType' /\ MemoryType'
<1>1. QueueType'
  BY DEF Down, Queue!Abandon, QueueType
<1>2. WorkType' /\ MemoryType'
  BY DEF Down, Goto, WorkType, MemoryType, PCs, Working, Acking
<1> QED BY <1>1, <1>2

LEMMA ReturnType ==
    ASSUME WorkType, NEW w \in Workers, pc[w] \in Working, Return(w) \/ Raise(w), UNCHANGED <<job, todo>>
    PROVE  WorkType'
BY DEF Return, Raise, Leave, Goto, WorkType, PCs, Working, Acking

LEMMA CountType ==
    ASSUME TableType, NEW S, NEW n \in {1, 2}, Count(S, n)
    PROVE  published' \in [Pairs -> 0..PublishCap]
BY PipelineAssumption DEF Count, TableType

\* Startup, the consumer loop and the faults.
LEMMA LoopType ==
    ASSUME Basic, NEW w \in Workers,
           \/ Start(w) \/ ResumeNext(w) \/ ResumeDone(w)
           \/ Refresh(w) \/ RefreshDies(w) \/ Reap(w)
           \/ Claim(w) \/ Park(w) \/ Ack(w) \/ Crash(w) \/ BreakConn(w)
    PROVE  Basic'
<1> USE DEF Basic
<1>1. CASE Start(w)
  <2>1. WorkType' /\ MemoryType'
    BY <1>1 DEF Start, Pending, Goto, WorkType, MemoryType, TableType, PCs, Working, Acking
  <2> QED BY <1>1, <2>1 DEF Start, queueVars, tableVars, QueueType, RowType, TableType, FaultsType
<1>2. CASE ResumeNext(w)
  <2>1. PICK p \in todo[w] :
            /\ job' = [job EXCEPT ![w] = p[1]]
            /\ found' = [found EXCEPT ![w] = {t \in cache[w] : <<p[1], t>> \in todo[w]}]
            /\ todo' = [todo EXCEPT ![w] = {q \in @ : q[1] # p[1]}]
    BY <1>2 DEF ResumeNext
  <2>2. p[1] \in Urls
    BY DEF WorkType, Pairs
  <2>3. WorkType'
    BY <1>2, <2>1, <2>2 DEF ResumeNext, Goto, WorkType, MemoryType, PCs, Working, Acking
  <2> QED BY <1>2, <2>3 DEF ResumeNext, queueVars, tableVars, QueueType, RowType,
                            TableType, FaultsType, MemoryType
<1>3. CASE ResumeDone(w)
  <2>1. WorkType'
    BY <1>3 DEF ResumeDone, Goto, WorkType, PCs, Working, Acking
  <2> QED BY <1>3, <2>1 DEF ResumeDone, queueVars, tableVars, QueueType, RowType,
                            TableType, FaultsType, MemoryType
<1>4. CASE Refresh(w)
  <2>1. MemoryType'
    BY <1>4 DEF Refresh, Readable, MemoryType, TableType
  <2> QED BY <1>4, <2>1 DEF Refresh, queueVars, tableVars, workVars, QueueType,
                            RowType, TableType, FaultsType, WorkType
<1>5. CASE RefreshDies(w)
  <2>1. QueueType' /\ WorkType' /\ MemoryType'
    BY <1>5, DownType DEF RefreshDies
  <2> QED BY <1>5, <2>1 DEF RefreshDies, tableVars, RowType, TableType, FaultsType
<1>6. CASE Reap(w)
  <2>1. QueueType'
    BY <1>6 DEF Reap, Queue!Recover, Queue!Move, QueueType
  <2> QED BY <1>6, <2>1 DEF Reap, tableVars, workVars, RowType, TableType, FaultsType,
                            WorkType, MemoryType
<1>7. CASE Claim(w)
  <2>1. PICK m \in Messages :
            /\ Queue!Lease({m}, w)
            /\ attempts' = [attempts EXCEPT ![m] = IF @ < MaxAttempts THEN @ + 1 ELSE @]
            /\ job' = [job EXCEPT ![w] = Url[m]]
    BY <1>7 DEF Claim
  <2>2. state' \in [Messages -> {"absent", "pending", "processing", "done", "failed"}]
        /\ holder' \in [Messages -> Workers \cup {Nobody}]
    BY <2>1 DEF Queue!Lease, Queue!Move, QueueType
  <2>3. attempts' \in [Messages -> 0..MaxAttempts]
    BY <2>1, PipelineAssumption DEF QueueType
  <2>4. WorkType'
    BY <1>7, <2>1, PipelineAssumption DEF Claim, Goto, WorkType, PCs, Working, Acking
  <2> QED BY <1>7, <2>2, <2>3, <2>4
          DEF Claim, tableVars, QueueType, RowType, TableType, FaultsType, MemoryType
<1>8. CASE Park(w) \/ Ack(w)
  <2>1. QueueType' /\ WorkType'
    BY <1>8, FinishType DEF Park, Ack
  <2> QED BY <1>8, <2>1 DEF Park, Ack, tableVars, RowType, TableType, FaultsType, MemoryType
<1>9. CASE Crash(w)
  <2>1. QueueType' /\ WorkType' /\ MemoryType'
    BY <1>9, DownType DEF Crash
  <2>2. FaultsType'
    BY <1>9, FaultType DEF Crash
  <2> QED BY <1>9, <2>1, <2>2 DEF Crash, tableVars, RowType, TableType
<1>10. CASE BreakConn(w)
  <2>1. FaultsType'
    BY <1>10, FaultType DEF BreakConn
  <2>2. MemoryType'
    BY <1>10 DEF BreakConn, MemoryType
  <2> QED BY <1>10, <2>1, <2>2 DEF BreakConn, queueVars, tableVars, workVars,
                                   QueueType, RowType, TableType, WorkType
<1> QED BY <1>1, <1>2, <1>3, <1>4, <1>5, <1>6, <1>7, <1>8, <1>9, <1>10

\* The stages of an article.
LEMMA StageType ==
    ASSUME Basic, NEW w \in Workers,
           \/ CheckUrl(w) \/ CheckFails(w) \/ Match(w) \/ MatchFails(w) \/ Drop(w)
           \/ Store(w) \/ StoreFails(w) \/ Summarise(w) \/ SummariseFails(w)
           \/ PublishMatch(w) \/ PublishFails(w)
    PROVE  Basic'
<1> USE DEF Basic
<1>1. CASE CheckUrl(w)
  <2>1. WorkType' /\ MemoryType'
    BY <1>1 DEF CheckUrl, Readable, Goto, WorkType, MemoryType, PCs, Working, Acking
  <2> QED BY <1>1, <2>1 DEF CheckUrl, queueVars, tableVars, QueueType, RowType,
                            TableType, FaultsType
<1>2. CASE CheckFails(w)
  <2>1. QueueType' /\ WorkType'
    BY <1>2, GiveBackType DEF CheckFails
  <2> QED BY <1>2, <2>1 DEF CheckFails, tableVars, RowType, TableType, FaultsType, MemoryType
<1>3. CASE Match(w)
  <2>1. {t \in cache[w] : <<job[w], t>> \in Hits} \in SUBSET Topics
    BY DEF MemoryType
  <2>2. WorkType' /\ MemoryType'
    BY <1>3, <2>1 DEF Match, Readable, Goto, WorkType, MemoryType, PCs, Working, Acking
  <2> QED BY <1>3, <2>2 DEF Match, queueVars, tableVars, QueueType, RowType,
                            TableType, FaultsType
<1>4. CASE MatchFails(w)
  <2>1. WorkType'
    BY <1>4, ReturnType DEF MatchFails, Working, Acking
  <2>2. FaultsType'
    BY <1>4, FaultType DEF MatchFails
  <2> QED BY <1>4, <2>1, <2>2 DEF MatchFails, queueVars, tableVars, QueueType,
                                  RowType, TableType, MemoryType
<1>5. CASE Drop(w)
  <2>1. WorkType'
    BY <1>5, ReturnType DEF Drop, Working, Acking
  <2>2. RowType' /\ MemoryType'
    BY <1>5 DEF Drop, WriteDies, RowType, MemoryType
  <2> QED BY <1>5, <2>1, <2>2 DEF Drop, queueVars, QueueType, TableType, FaultsType
<1>6. CASE Store(w)
  <2>1. job[w] \in Urls
    BY <1>6 DEF Store, WorkType, Working, Acking
  <2>2. WorkType'
    <3>1. CASE Return(w)
      BY <1>6, <3>1, ReturnType DEF Store, Working, Acking
    <3>2. CASE Goto(w, "summarise") /\ UNCHANGED found
      BY <1>6, <2>1, <3>2 DEF Store, Goto, WorkType, PCs, Working, Acking
    <3> QED BY <1>6, <3>1, <3>2 DEF Store
  <2>3. RowType' /\ stored' \in SUBSET Pairs
    BY <1>6, <2>1 DEF Store, RowType, TableType, WorkType, Pairs
  <2> QED BY <1>6, <2>2, <2>3 DEF Store, queueVars, QueueType, TableType, FaultsType, MemoryType
<1>7. CASE StoreFails(w)
  <2>1. WorkType'
    BY <1>7, ReturnType DEF StoreFails, Working, Acking
  <2>2. MemoryType'
    BY <1>7 DEF StoreFails, WriteDies, MemoryType
  <2> QED BY <1>7, <2>1, <2>2 DEF StoreFails, queueVars, tableVars, QueueType,
                                  RowType, TableType, FaultsType
<1>8. CASE Summarise(w)
  <2>1. WorkType'
    <3>1. CASE Return(w)
      BY <1>8, <3>1, ReturnType DEF Summarise, Working, Acking
    <3>2. CASE Goto(w, "publish") /\ UNCHANGED found
      BY <1>8, <3>2 DEF Summarise, Goto, WorkType, PCs, Working, Acking
    <3> QED BY <1>8, <3>1, <3>2 DEF Summarise
  <2>2. RowType'
    BY <1>8 DEF Summarise, RowType
  <2> QED BY <1>8, <2>1, <2>2 DEF Summarise, queueVars, QueueType, TableType,
                                  FaultsType, MemoryType
<1>9. CASE SummariseFails(w)
  <2>1. QueueType' /\ WorkType' /\ MemoryType'
    <3>1. CASE WriteDies(w) /\ GiveBack(w) /\ UNCHANGED <<cache, unsent>>
      BY <3>1, GiveBackType DEF WriteDies, MemoryType
    <3>2. CASE Down(w) /\ UNCHANGED attempts
      BY <3>2, DownType
    <3> QED BY <1>9, <3>1, <3>2 DEF SummariseFails
  <2> QED BY <1>9, <2>1 DEF SummariseFails, tableVars, RowType, TableType, FaultsType
<1>10. CASE PublishMatch(w)
  <2>1. PICK t \in found[w] :
            /\ \/ Count(unsent[w] \cup {<<job[w], t>>}, 1) /\ UNCHANGED faults
               \/ Count(unsent[w] \cup {<<job[w], t>>}, 2) /\ Fault("publish")
            /\ IF found[w] = {t} THEN Return(w)
               ELSE found' = [found EXCEPT ![w] = @ \ {t}] /\ UNCHANGED pc
    BY <1>10 DEF PublishMatch
  <2>2. published' \in [Pairs -> 0..PublishCap]
    BY <2>1, CountType
  <2>3. FaultsType'
    BY <2>1, FaultType DEF FaultsType
  <2>4. WorkType'
    <3>1. CASE Return(w)
      BY <1>10, <3>1, ReturnType DEF PublishMatch, Working, Acking
    <3>2. CASE found' = [found EXCEPT ![w] = @ \ {t}] /\ UNCHANGED pc
      BY <1>10, <3>2 DEF PublishMatch, WorkType
    <3> QED BY <2>1, <3>1, <3>2
  <2>5. MemoryType'
    BY <1>10 DEF PublishMatch, MemoryType
  <2> QED BY <1>10, <2>2, <2>3, <2>4, <2>5
          DEF PublishMatch, queueVars, tableVars, QueueType, RowType, TableType
<1>11. CASE PublishFails(w)
  <2>1. WorkType'
    BY <1>11, ReturnType DEF PublishFails, Working, Acking
  <2>2. FaultsType'
    BY <1>11, FaultType DEF PublishFails
  <2>3. job[w] \in Urls
    BY <1>11 DEF PublishFails, WorkType, Working, Acking
  <2>4. MemoryType'
    BY <1>11, <2>3 DEF PublishFails, MemoryType, WorkType, Pairs
  <2> QED BY <1>11, <2>1, <2>2, <2>4
          DEF PublishFails, queueVars, tableVars, QueueType, RowType, TableType
<1> QED BY <1>1, <1>2, <1>3, <1>4, <1>5, <1>6, <1>7, <1>8, <1>9, <1>10, <1>11

LEMMA BasicStep == Basic /\ [Next]_vars => Basic'
<1> SUFFICES ASSUME Basic, [Next]_vars PROVE Basic'
  OBVIOUS
<1>1. CASE Enqueue
  <2>1. QueueType'
    BY <1>1 DEF Basic, Enqueue, Queue!Enqueue, Queue!Move, QueueType
  <2> QED BY <1>1, <2>1 DEF Basic, Enqueue, tableVars, workVars, RowType, TableType,
                            WorkType, MemoryType, FaultsType
<1>2. ASSUME NEW t \in Topics, DeleteTopic(t)
      PROVE  Basic'
  <2>1. FaultsType'
    BY <1>2, FaultType DEF Basic, DeleteTopic
  <2>2. TableType'
    BY <1>2 DEF Basic, DeleteTopic, TableType
  <2> QED BY <1>2, <2>1, <2>2 DEF Basic, DeleteTopic, queueVars, workVars, QueueType,
                                  RowType, WorkType, MemoryType
<1>3. CASE UNCHANGED vars
  BY <1>3 DEF vars, Basic, queueVars, tableVars, workVars, QueueType, RowType,
              TableType, WorkType, MemoryType, FaultsType
<1> QED BY <1>1, <1>2, <1>3, LoopType, StageType DEF Next

\* Every step leaves every variable well-typed: in particular what is summarised,
\* stored or published is always an article, and never a worker's leftover.
THEOREM TypeCorrect == Spec => []TypeOK
<1>1. Init => Basic
  BY BasicInit
<1>2. Basic /\ [Next]_vars => Basic'
  BY BasicStep
<1>3. Basic => TypeOK
  BY BasicTypeOK
<1> QED BY <1>1, <1>2, <1>3, PTL DEF Spec

-----------------------------------------------------------------------------
(* Pipeline implements ArticleLifecycle *)

\* The steps of a worker that write neither a table nor the matched-articles queue.
Quiet(w) ==
    \/ Start(w) \/ ResumeNext(w) \/ ResumeDone(w)
    \/ Refresh(w) \/ RefreshDies(w) \/ Reap(w)
    \/ Claim(w) \/ Park(w) \/ Ack(w)
    \/ CheckUrl(w) \/ CheckFails(w) \/ Match(w) \/ MatchFails(w)
    \/ StoreFails(w) \/ SummariseFails(w) \/ PublishFails(w)
    \/ Crash(w) \/ BreakConn(w)

WorkerStep(w) ==
    Quiet(w) \/ Drop(w) \/ Store(w) \/ Summarise(w) \/ PublishMatch(w)

LEMMA NextSteps ==
    ASSUME [Next]_vars
    PROVE  \/ Enqueue \/ UNCHANGED vars
           \/ \E t \in Topics : DeleteTopic(t)
           \/ \E w \in Workers : WorkerStep(w)
BY DEF Next, WorkerStep, Quiet

LEMMA QuietTables ==
    ASSUME NEW w \in Workers, Quiet(w)
    PROVE  UNCHANGED <<row, stored, topics, published>>
BY DEF Quiet, Start, ResumeNext, ResumeDone, Refresh, RefreshDies, Reap, Claim, Park,
       Ack, CheckUrl, CheckFails, Match, MatchFails, StoreFails, SummariseFails,
       PublishFails, Crash, BreakConn, tableVars

LEMMA FinishOthers ==
    ASSUME WorkType, NEW w \in Workers, NEW to, Finish(w, to), NEW v \in Workers, v # w
    PROVE  pc'[v] = pc[v] /\ job'[v] = job[v] /\ found'[v] = found[v] /\ todo'[v] = todo[v]
BY DEF Finish, Goto, WorkType

LEMMA DownOthers ==
    ASSUME WorkType, MemoryType, NEW w \in Workers, Down(w), NEW v \in Workers, v # w
    PROVE  /\ pc'[v] = pc[v] /\ job'[v] = job[v] /\ found'[v] = found[v]
           /\ todo'[v] = todo[v] /\ cache'[v] = cache[v] /\ unsent'[v] = unsent[v]
BY DEF Down, Goto, WorkType, MemoryType

\* A worker's step leaves the memory of the others alone.
LEMMA OthersStay ==
    ASSUME Basic, NEW w \in Workers, WorkerStep(w), NEW v \in Workers, v # w
    PROVE  /\ pc'[v] = pc[v] /\ job'[v] = job[v] /\ found'[v] = found[v]
           /\ todo'[v] = todo[v] /\ unsent'[v] = unsent[v]
<1> USE DEF Basic
<1>1. CASE Start(w) \/ ResumeNext(w) \/ ResumeDone(w) \/ Claim(w)
  BY <1>1 DEF Start, ResumeNext, ResumeDone, Claim, Goto, WorkType
<1>2. CASE Refresh(w) \/ Reap(w) \/ BreakConn(w)
  BY <1>2 DEF Refresh, Reap, BreakConn, workVars
<1>3. CASE RefreshDies(w) \/ Crash(w)
  BY <1>3, DownOthers DEF RefreshDies, Crash
<1>4. CASE Park(w) \/ Ack(w) \/ CheckFails(w)
  BY <1>4, FinishOthers DEF Park, Ack, CheckFails, GiveBack
<1>5. CASE CheckUrl(w) \/ Match(w) \/ MatchFails(w) \/ Drop(w) \/ StoreFails(w)
  BY <1>5 DEF CheckUrl, Match, MatchFails, Drop, StoreFails, Return, Raise, Leave, Goto, WorkType
<1>6. CASE Store(w) \/ Summarise(w)
  BY <1>6 DEF Store, Summarise, Return, Raise, Leave, Goto, WorkType
<1>7. CASE SummariseFails(w)
  BY <1>7, FinishOthers, DownOthers DEF SummariseFails, GiveBack
<1>8. CASE PublishMatch(w) \/ PublishFails(w)
  BY <1>8 DEF PublishMatch, PublishFails, Return, Raise, Leave, Goto, WorkType, MemoryType
<1> QED BY <1>1, <1>2, <1>3, <1>4, <1>5, <1>6, <1>7, <1>8 DEF WorkerStep, Quiet

InTable(u) == row[u] \in {"passed_dedup", "processed"}

\* A match the table holds, unless its topic was deleted.
Backed(p) == p[2] \in topics => p \in stored

\* What a worker knows at each step of the articles it remembers.
WorkInv(w) ==
    /\ pc[w] = "store" => found[w] # {}
    /\ pc[w] \in {"summarise", "publish"} =>
        /\ job[w] \notin Reddit /\ InTable(job[w])
        /\ \A t \in found[w] : Backed(<<job[w], t>>)
    /\ pc[w] = "publish" => row[job[w]] = "processed"
    /\ \A p \in todo[w] : p[1] \notin Reddit /\ InTable(p[1]) /\ Backed(p)
    /\ \A p \in unsent[w] : row[p[1]] = "processed" /\ Backed(p)

ArticleInv == \A w \in Workers : WorkInv(w)

\* Rows only move forward, topics only go, and a match goes with its topic only.
LEMMA Forward ==
    ASSUME Basic, [Next]_vars
    PROVE  /\ \A u \in Urls : /\ InTable(u) => InTable(u)'
                              /\ row[u] = "processed" => row'[u] = "processed"
                              /\ row[u] # "none" => row'[u] # "none"
           /\ \A p \in Pairs : Backed(p) => Backed(p)'
<1> USE DEF Basic, InTable, Backed
<1>1. CASE UNCHANGED <<row, stored, topics>>
  BY <1>1
<1>2. ASSUME NEW t \in Topics, DeleteTopic(t)
      PROVE  /\ UNCHANGED row
             /\ \A p \in Pairs : Backed(p) => Backed(p)'
  BY <1>2 DEF DeleteTopic
<1>3. ASSUME NEW w \in Workers, Drop(w) \/ Store(w) \/ Summarise(w)
      PROVE  /\ \A u \in Urls : /\ InTable(u) => InTable(u)'
                                /\ row[u] = "processed" => row'[u] = "processed"
                                /\ row[u] # "none" => row'[u] # "none"
             /\ stored \subseteq stored' /\ UNCHANGED topics
  BY <1>3 DEF Drop, Store, Summarise, RowType
<1>4. CASE Enqueue \/ UNCHANGED vars
  BY <1>1, <1>4 DEF Enqueue, vars, tableVars
<1>5. ASSUME NEW w \in Workers, PublishMatch(w)
      PROVE  UNCHANGED <<row, stored, topics>>
  BY <1>5 DEF PublishMatch, tableVars
<1> QED BY <1>1, <1>2, <1>3, <1>4, <1>5, NextSteps, QuietTables DEF WorkerStep

\* What a worker that does nothing knows stays true.
LEMMA IdleKnows ==
    ASSUME Basic, [Next]_vars, NEW v \in Workers, WorkInv(v),
           pc'[v] = pc[v] \/ pc'[v] \notin {"store", "summarise", "publish"},
           job'[v] = job[v] \/ pc'[v] \notin {"store", "summarise", "publish"},
           found'[v] = found[v] \/ pc'[v] \notin {"store", "summarise", "publish"},
           todo'[v] \subseteq todo[v], unsent'[v] \subseteq unsent[v]
    PROVE  WorkInv(v)'
<1> USE DEF Basic
<1>1. \A p \in todo[v] \cup unsent[v] : p \in Pairs /\ p[1] \in Urls
  BY DEF WorkType, MemoryType, Pairs
<1>2. \A p \in todo'[v] : p[1] \notin Reddit /\ InTable(p[1])' /\ Backed(p)'
  BY <1>1, Forward DEF WorkInv
<1>3. \A p \in unsent'[v] : row'[p[1]] = "processed" /\ Backed(p)'
  BY <1>1, Forward DEF WorkInv
<1>4. CASE pc'[v] \notin {"store", "summarise", "publish"}
  BY <1>2, <1>3, <1>4 DEF WorkInv
<1>5. CASE pc'[v] \in {"store", "summarise", "publish"}
  <2>1. pc'[v] = pc[v] /\ job'[v] = job[v] /\ found'[v] = found[v]
    BY <1>5
  <2>2. pc[v] = "store" => found'[v] # {}
    BY <2>1 DEF WorkInv
  <2>3. PICK u \in Urls : u = job[v]
    BY <1>5, <2>1 DEF WorkType, Working, Acking
  <2>4. pc[v] \in {"summarise", "publish"} => u \notin Reddit /\ InTable(u)'
    BY <2>3, Forward DEF WorkInv
  <2>5. pc[v] = "publish" => row'[u] = "processed"
    BY <2>3, Forward DEF WorkInv
  <2>6. pc[v] \in {"summarise", "publish"} => \A t \in found[v] : Backed(<<u, t>>)'
    <3>1. \A t \in found[v] : <<u, t>> \in Pairs
      BY DEF WorkType, Pairs
    <3> QED BY <2>3, <3>1, Forward DEF WorkInv
  <2>7. job'[v] = u
    BY <2>1, <2>3
  <2> QED BY <1>2, <1>3, <2>1, <2>2, <2>4, <2>5, <2>6, <2>7 DEF WorkInv
<1> QED BY <1>4, <1>5

LEMMA ArticleInvStep ==
    ASSUME Basic, ArticleInv, [Next]_vars
    PROVE  ArticleInv'
<1> USE DEF Basic
<1>1. CASE Enqueue \/ UNCHANGED vars \/ \E t \in Topics : DeleteTopic(t)
  <2>1. UNCHANGED <<pc, job, found, todo, unsent>>
    BY <1>1 DEF Enqueue, DeleteTopic, vars, workVars
  <2> QED BY <2>1, IdleKnows DEF ArticleInv
<1>2. ASSUME NEW w \in Workers, WorkerStep(w), WorkInv(w)'
      PROVE  ArticleInv'
  <2>1. ASSUME NEW v \in Workers, v # w
        PROVE  WorkInv(v)'
    <3>1. WorkInv(v)
      BY DEF ArticleInv
    <3> QED BY <1>2, <2>1, <3>1, OthersStay, IdleKnows
  <2> QED BY <1>2, <2>1 DEF ArticleInv
<1>3. ASSUME NEW w \in Workers, WorkerStep(w)
      PROVE  WorkInv(w)'
  <2>1. WorkInv(w)
    BY DEF ArticleInv
  <2> DEFINE Elsewhere == pc'[w] \notin {"store", "summarise", "publish"}
  <2>2. CASE Start(w)
    <3>1. todo'[w] = Pending /\ UNCHANGED <<row, stored, topics, unsent>> /\ pc'[w] = "resuming"
      BY <2>2 DEF Start, Goto, WorkType, tableVars
    <3>2. \A p \in Pending : p[1] \notin Reddit /\ InTable(p[1])' /\ Backed(p)'
      BY <3>1 DEF Pending, InTable, Backed
    <3>3. \A p \in unsent'[w] : row'[p[1]] = "processed" /\ Backed(p)'
      BY <2>1, <3>1 DEF WorkInv, Backed
    <3> QED BY <3>1, <3>2, <3>3 DEF WorkInv
  <2>3. CASE ResumeNext(w)
    <3>1. PICK p \in todo[w] :
            /\ job' = [job EXCEPT ![w] = p[1]]
            /\ found' = [found EXCEPT ![w] = {t \in cache[w] : <<p[1], t>> \in todo[w]}]
            /\ todo' = [todo EXCEPT ![w] = {q \in @ : q[1] # p[1]}]
      BY <2>3 DEF ResumeNext
    <3>2. UNCHANGED <<row, stored, topics, unsent>> /\ pc'[w] = "summarise"
      BY <2>3 DEF ResumeNext, Goto, WorkType, tableVars
    <3>3. job'[w] = p[1] /\ todo'[w] \subseteq todo[w]
          /\ \A t \in found'[w] : <<p[1], t>> \in todo[w]
      BY <3>1 DEF WorkType
    <3>4. \A q \in todo[w] : q[1] \notin Reddit /\ InTable(q[1])' /\ Backed(q)'
      BY <2>1, <3>2 DEF WorkInv, InTable, Backed
    <3>5. \A q \in unsent'[w] : row'[q[1]] = "processed" /\ Backed(q)'
      BY <2>1, <3>2 DEF WorkInv, Backed
    <3>6. job'[w] \notin Reddit /\ InTable(job[w])'
      BY <3>3, <3>4 DEF InTable
    <3>7. \A t \in found'[w] : Backed(<<job[w], t>>)'
      BY <3>3, <3>4 DEF Backed
    <3> QED BY <3>2, <3>3, <3>4, <3>5, <3>6, <3>7 DEF WorkInv
  <2>4. CASE \/ ResumeDone(w) \/ Refresh(w) \/ RefreshDies(w) \/ Reap(w)
             \/ Claim(w) \/ Park(w) \/ Ack(w) \/ Crash(w) \/ BreakConn(w)
             \/ CheckUrl(w) \/ CheckFails(w)
    <3>1. /\ todo'[w] \subseteq todo[w] /\ unsent'[w] \subseteq unsent[w]
          /\ Elsewhere \/ (pc'[w] = pc[w] /\ job'[w] = job[w] /\ found'[w] = found[w])
      BY <2>4
      DEF ResumeDone, Refresh, RefreshDies, Reap, Claim, Park, Ack, Crash, BreakConn,
          CheckUrl, CheckFails, GiveBack, Finish, Down, Goto, workVars, WorkType, MemoryType
    <3> QED BY <2>1, <3>1, IdleKnows
  <2>5. CASE Match(w)
    <3>1. /\ UNCHANGED <<todo, unsent>>
          /\ Elsewhere \/ (pc'[w] = "store" /\ found'[w] # {})
      BY <2>5 DEF Match, Goto, WorkType
    <3>2. CASE Elsewhere
      BY <2>1, <3>1, <3>2, IdleKnows
    <3>3. CASE pc'[w] = "store" /\ found'[w] # {}
      <4>1. \A p \in todo[w] \cup unsent[w] : p \in Pairs /\ p[1] \in Urls
        BY DEF WorkType, MemoryType, Pairs
      <4>2. \A p \in todo'[w] : p[1] \notin Reddit /\ InTable(p[1])' /\ Backed(p)'
        BY <2>1, <3>1, <4>1, Forward DEF WorkInv
      <4>3. \A p \in unsent'[w] : row'[p[1]] = "processed" /\ Backed(p)'
        BY <2>1, <3>1, <4>1, Forward DEF WorkInv
      <4> QED BY <3>3, <4>2, <4>3 DEF WorkInv
    <3> QED BY <3>1, <3>2, <3>3
  <2>6. CASE MatchFails(w) \/ Drop(w) \/ StoreFails(w)
    <3>1. UNCHANGED <<todo, unsent>> /\ Elsewhere
      BY <2>6 DEF MatchFails, Drop, StoreFails, Return, Raise, Leave, Goto, WorkType
    <3> QED BY <2>1, <3>1, IdleKnows
  <2>7. CASE Store(w)
    <3>1. PICK u \in Urls : u = job[w]
      BY <2>7 DEF Store, WorkType, Working, Acking
    <3>2. UNCHANGED <<job, todo, unsent>>
      BY <2>7 DEF Store
    <3>3. CASE u \in Reddit
      BY <2>1, <2>7, <3>1, <3>2, <3>3, IdleKnows DEF Store, Return, Raise, Leave, Goto, WorkType
    <3>4. CASE u \notin Reddit
      <4>1. pc'[w] = "summarise" /\ UNCHANGED found
        BY <2>7, <3>1, <3>4 DEF Store, Goto, WorkType
      <4>2. row'[u] = "passed_dedup" /\ \A t \in found[w] : <<u, t>> \in stored'
        BY <2>7, <3>1 DEF Store, RowType
      <4>3. \A p \in todo[w] \cup unsent[w] : p \in Pairs /\ p[1] \in Urls
        BY DEF WorkType, MemoryType, Pairs
      <4>4. \A p \in todo'[w] : p[1] \notin Reddit /\ InTable(p[1])' /\ Backed(p)'
        BY <2>1, <3>2, <4>3, Forward DEF WorkInv
      <4>5. \A p \in unsent'[w] : row'[p[1]] = "processed" /\ Backed(p)'
        BY <2>1, <3>2, <4>3, Forward DEF WorkInv
      <4>6. job'[w] = u
        BY <3>1, <3>2
      <4> QED BY <3>4, <4>1, <4>2, <4>4, <4>5, <4>6 DEF WorkInv, InTable, Backed
    <3> QED BY <3>3, <3>4
  <2>8. CASE Summarise(w)
    <3>1. PICK u \in Urls : u = job[w]
      BY <2>8 DEF Summarise, WorkType, Working, Acking
    <3>2. UNCHANGED <<job, todo, unsent>>
      BY <2>8 DEF Summarise
    <3>3. CASE Return(w)
      BY <2>1, <2>8, <3>2, <3>3, IdleKnows DEF Return, Raise, Leave, Goto, WorkType
    <3>4. CASE Goto(w, "publish") /\ UNCHANGED found
      <4>1. pc'[w] = "publish" /\ row'[u] = "processed"
        BY <2>8, <3>1, <3>4 DEF Summarise, Goto, WorkType, RowType
      <4>2. u \notin Reddit /\ \A t \in found[w] : <<u, t>> \in Pairs /\ Backed(<<u, t>>)
        BY <2>1, <2>8, <3>1 DEF WorkInv, Summarise, WorkType, Pairs
      <4>3. \A t \in found[w] : Backed(<<u, t>>)'
        BY <4>2, Forward
      <4>4. \A p \in todo[w] \cup unsent[w] : p \in Pairs /\ p[1] \in Urls
        BY DEF WorkType, MemoryType, Pairs
      <4>5. \A p \in todo'[w] : p[1] \notin Reddit /\ InTable(p[1])' /\ Backed(p)'
        BY <2>1, <3>2, <4>4, Forward DEF WorkInv
      <4>6. \A p \in unsent'[w] : row'[p[1]] = "processed" /\ Backed(p)'
        BY <2>1, <3>2, <4>4, Forward DEF WorkInv
      <4>7. job'[w] = u /\ found'[w] = found[w]
        BY <3>1, <3>2, <3>4
      <4> QED BY <4>1, <4>2, <4>3, <4>5, <4>6, <4>7 DEF WorkInv, InTable
    <3> QED BY <2>8, <3>3, <3>4 DEF Summarise
  <2>9. CASE SummariseFails(w)
    <3>1. todo'[w] \subseteq todo[w] /\ unsent'[w] \subseteq unsent[w] /\ Elsewhere
      BY <2>9 DEF SummariseFails, GiveBack, Finish, Down, Goto, WorkType, MemoryType
    <3> QED BY <2>1, <3>1, IdleKnows
  <2>10. CASE PublishMatch(w)
    <3>1. UNCHANGED <<row, stored, topics, job, todo>> /\ unsent'[w] = {}
      BY <2>10 DEF PublishMatch, tableVars, MemoryType
    <3>2. Elsewhere \/ (pc'[w] = pc[w] /\ found'[w] \subseteq found[w])
      BY <2>10 DEF PublishMatch, Return, Raise, Leave, Goto, WorkType
    <3> QED BY <2>1, <2>10, <3>1, <3>2 DEF WorkInv, PublishMatch, InTable, Backed
  <2>11. CASE PublishFails(w)
    <3>1. PICK t \in found[w] : unsent' = [unsent EXCEPT ![w] = @ \cup {<<job[w], t>>}]
      BY <2>11 DEF PublishFails
    <3>2. UNCHANGED <<row, stored, topics, job, todo>> /\ Elsewhere
      BY <2>11 DEF PublishFails, tableVars, Return, Raise, Leave, Goto, WorkType
    <3>3. row[job[w]] = "processed" /\ Backed(<<job[w], t>>)
      BY <2>1, <2>11 DEF WorkInv, PublishFails
    <3>4. \A p \in unsent'[w] : row[p[1]] = "processed" /\ Backed(p)
      BY <2>1, <3>1, <3>3 DEF WorkInv, MemoryType
    <3> QED BY <2>1, <3>2, <3>4 DEF WorkInv, InTable, Backed
  <2> QED BY <1>3, <2>2, <2>3, <2>4, <2>5, <2>6, <2>7, <2>8, <2>9, <2>10, <2>11
          DEF WorkerStep, Quiet
<1> QED BY <1>1, <1>2, <1>3, NextSteps

LEMMA CountSent ==
    ASSUME Basic, NEW S \in SUBSET Pairs, NEW n \in {1, 2}, Count(S, n)
    PROVE  Sent' = Sent \cup S
<1>1. \A p \in Pairs : published[p] \in 0..PublishCap
  BY DEF Basic, TableType
<1>2. \A p \in Pairs : published'[p] > 0 <=> published[p] > 0 \/ p \in S
  BY <1>1, PipelineAssumption DEF Count
<1> QED BY <1>2 DEF Sent

articleVars == <<row, stored, topics, Sent>>

LEMMA RefinesInit == Init => Articles!Init
BY DEF Init, Articles!Init, Sent

LEMMA RefinesNext ==
    ASSUME Basic, ArticleInv, [Next]_vars
    PROVE  [Articles!Next]_articleVars
<1> USE DEF Basic, articleVars
<1>1. CASE UNCHANGED <<row, stored, topics, published>>
  BY <1>1 DEF Sent
<1>2. CASE Enqueue \/ UNCHANGED vars
  BY <1>1, <1>2 DEF Enqueue, vars, tableVars
<1>3. ASSUME NEW t \in Topics, DeleteTopic(t)
      PROVE  Articles!Next
  <2>1. Articles!DeleteTopic(t)
    BY <1>3 DEF DeleteTopic, Articles!DeleteTopic, Sent
  <2> QED BY <2>1 DEF Articles!Next
<1>4. ASSUME NEW w \in Workers, Drop(w)
      PROVE  [Articles!Next]_articleVars
  <2>1. PICK u \in Urls : u = job[w]
    BY <1>4 DEF Drop, WorkType, Working, Acking
  <2>2. UNCHANGED <<stored, topics, Sent>>
    BY <1>4 DEF Drop, Sent
  <2>3. UNCHANGED row \/ (row[u] = "none" /\ row' = [row EXCEPT ![u] = "dropped"])
    BY <1>4, <2>1 DEF Drop, RowType
  <2>4. UNCHANGED row \/ Articles!Drop(u)
    BY <2>2, <2>3 DEF Articles!Drop
  <2> QED BY <2>2, <2>4 DEF Articles!Next
<1>5. ASSUME NEW w \in Workers, Store(w)
      PROVE  Articles!Next
  <2>1. PICK u \in Urls : u = job[w]
    BY <1>5 DEF Store, WorkType, Working, Acking
  <2>2. UNCHANGED <<topics, Sent>>
    BY <1>5 DEF Store, Sent
  <2>3. found[w] # {} /\ found[w] \in SUBSET Topics
    BY <1>5 DEF Store, ArticleInv, WorkInv, WorkType
  <2>4. Articles!Keep(u, found[w])
    BY <1>5, <2>1, <2>2, <2>3 DEF Store, Articles!Keep
  <2> QED BY <2>3, <2>4 DEF Articles!Next
<1>6. ASSUME NEW w \in Workers, Summarise(w)
      PROVE  [Articles!Next]_articleVars
  <2>1. PICK u \in Urls : u = job[w]
    BY <1>6 DEF Summarise, WorkType, Working, Acking
  <2>2. UNCHANGED <<stored, topics, Sent>>
    BY <1>6 DEF Summarise, Sent
  <2>3. u \notin Reddit /\ InTable(u)
    BY <1>6, <2>1 DEF Summarise, ArticleInv, WorkInv
  <2>4. row' = [row EXCEPT ![u] = "processed"]
    BY <1>6, <2>1 DEF Summarise
  <2>5. UNCHANGED row \/ Articles!Summarise(u)
    <3>1. CASE row[u] = "processed"
      BY <2>4, <3>1 DEF RowType
    <3>2. CASE row[u] = "passed_dedup"
      BY <2>1, <2>2, <2>3, <2>4, <3>2 DEF Articles!Summarise, Articles!News
    <3> QED BY <2>3, <3>1, <3>2 DEF InTable
  <2> QED BY <2>2, <2>5 DEF Articles!Next
<1>7. ASSUME NEW w \in Workers, PublishMatch(w)
      PROVE  Articles!Next
  <2>1. PICK t \in found[w] : \/ Count(unsent[w] \cup {<<job[w], t>>}, 1)
                              \/ Count(unsent[w] \cup {<<job[w], t>>}, 2)
    BY <1>7 DEF PublishMatch
  <2> DEFINE S == unsent[w] \cup {<<job[w], t>>}
  <2>2. S \in SUBSET Pairs
    BY <1>7 DEF PublishMatch, WorkType, MemoryType, Working, Pairs
  <2>3. Sent' = Sent \cup S
    BY <2>1, <2>2, CountSent
  <2>4. \A p \in S : row[p[1]] = "processed" /\ Backed(p)
    BY <1>7 DEF PublishMatch, ArticleInv, WorkInv
  <2>5. UNCHANGED <<row, stored, topics>>
    BY <1>7 DEF PublishMatch, tableVars
  <2>6. Articles!Send(S)
    BY <2>3, <2>4, <2>5 DEF Articles!Send, Backed
  <2> QED BY <2>2, <2>6 DEF Articles!Next, Pairs
<1> QED BY <1>1, <1>2, <1>3, <1>4, <1>5, <1>6, <1>7, NextSteps, QuietTables DEF WorkerStep

\* The tables and the matched-articles queue behave like ArticleLifecycle for any
\* number of replicas and whatever crashes, redeliveries and races happen: a row
\* is written once and only moves forward, and a match is published only when its
\* news article is summarised and the table holds it.
THEOREM PipelineImplementsArticles == Spec => ImplementsArticles
<1>1. Init => Basic /\ ArticleInv
  BY BasicInit DEF Init, ArticleInv, WorkInv
<1>2. Basic /\ ArticleInv /\ [Next]_vars => (Basic /\ ArticleInv)'
  BY BasicStep, ArticleInvStep
<1>3. Basic /\ ArticleInv /\ [Next]_vars => [Articles!Next]_articleVars
  BY RefinesNext
<1>4. Init => Articles!Init
  BY RefinesInit
<1> QED BY <1>1, <1>2, <1>3, <1>4, PTL
        DEF Spec, ImplementsArticles, Articles!Spec, articleVars

-----------------------------------------------------------------------------
(* Only the errors the code swallows lose an article *)

\* A worker holds one message at most, and works on its article.
HoldsOne ==
    \A m \in Messages, w \in Workers : holder[m] = w =>
        /\ pc[w] \in Working
        /\ job[w] = Url[m]
        /\ \A n \in Messages : holder[n] = w => n = m

\* An article whose worker is past Stage 5 has a row, and so has one that
\* process_article returned from, unless a write found the connection dead, and
\* every one a startup takes up.
TracedAt(w) ==
    /\ pc[w] \in {"summarise", "publish"} => row[job[w]] # "none"
    /\ pc[w] = "ack" => row[job[w]] # "none" \/ conn[w] = "closed"
    /\ \A p \in todo[w] : row[p[1]] # "none"

Traced == \A w \in Workers : TracedAt(w)

LEMMA HoldsOneStep ==
    ASSUME Basic, HoldsOne, [Next]_vars
    PROVE  HoldsOne'
<1> USE PipelineAssumption DEF HoldsOne, Basic, QueueType, WorkType
<1>1. CASE Enqueue \/ UNCHANGED vars \/ \E t \in Topics : DeleteTopic(t)
  <2>1. UNCHANGED <<holder, pc, job>>
    BY <1>1 DEF Enqueue, Queue!Enqueue, DeleteTopic, vars, queueVars, workVars
  <2> QED BY <2>1
\* The lease stays, and so does the article, or there was no lease.
<1>2. ASSUME NEW w \in Workers, WorkerStep(w), UNCHANGED holder,
             \/ pc'[w] \in Working /\ job'[w] = job[w]
             \/ \A m \in Messages : holder[m] # w
      PROVE  HoldsOne'
  BY <1>2, OthersStay
\* The lease ends.
<1>3. ASSUME NEW w \in Workers, WorkerStep(w),
             \A n \in Messages : holder'[n] \in {holder[n], Nobody} /\ holder'[n] # w
      PROVE  HoldsOne'
  BY <1>3, OthersStay
<1>4. ASSUME NEW w \in Workers, WorkerStep(w)
      PROVE  HoldsOne'
  <2>1. CASE Claim(w)
    <3>1. PICK m \in Messages : Queue!Lease({m}, w) /\ job' = [job EXCEPT ![w] = Url[m]]
      BY <2>1 DEF Claim
    <3>2. \A n \in Messages : holder'[n] = IF n = m THEN w ELSE holder[n]
      BY <3>1 DEF Queue!Lease
    <3>3. \A n \in Messages : holder[n] # w
      BY <2>1 DEF Claim, Working, Acking
    <3>4. pc'[w] = "url" /\ job'[w] = Url[m]
      BY <2>1, <3>1 DEF Claim, Goto
    <3> QED BY <1>4, <3>2, <3>3, <3>4, OthersStay DEF Working, Acking
  <2>2. CASE Start(w) \/ ResumeNext(w) \/ ResumeDone(w) \/ Refresh(w) \/ Reap(w)
    <3>1. UNCHANGED holder /\ \A m \in Messages : holder[m] # w
      BY <2>2 DEF Start, ResumeNext, ResumeDone, Refresh, Reap, Queue!Recover,
                  queueVars, Working, Acking
    <3> QED BY <1>2, <1>4, <3>1
  <2>3. CASE \/ CheckUrl(w) \/ Match(w) \/ MatchFails(w) \/ Drop(w) \/ Store(w)
             \/ StoreFails(w) \/ Summarise(w) \/ PublishMatch(w) \/ PublishFails(w)
             \/ BreakConn(w)
    <3>1. UNCHANGED <<holder, job>>
      BY <2>3 DEF CheckUrl, Match, MatchFails, Drop, Store, StoreFails, Summarise,
                  PublishMatch, PublishFails, BreakConn, queueVars, workVars
    <3>2. ASSUME Return(w) \/ Raise(w)
          PROVE  pc'[w] \in Working \/ \A m \in Messages : holder[m] # w
      BY <3>2 DEF Return, Raise, Leave, Resuming, Held, Goto, Working, Acking
    <3>3. CASE CheckUrl(w) \/ Match(w) \/ BreakConn(w) \/ PublishFails(w)
      BY <1>2, <1>4, <3>1, <3>2, <3>3
      DEF CheckUrl, Match, BreakConn, PublishFails, Goto, workVars, Working, Acking
    <3>4. CASE MatchFails(w) \/ Drop(w) \/ StoreFails(w)
      BY <1>2, <1>4, <3>1, <3>2, <3>4 DEF MatchFails, Drop, StoreFails
    <3>5. CASE Store(w) \/ Summarise(w) \/ PublishMatch(w)
      <4>1. Return(w) \/ UNCHANGED pc \/ Goto(w, "summarise") \/ Goto(w, "publish")
        BY <3>5 DEF Store, Summarise, PublishMatch
      <4> QED BY <1>2, <1>4, <3>1, <3>2, <3>5, <4>1
              DEF Store, Summarise, PublishMatch, Goto, Working, Acking
    <3> QED BY <2>3, <3>3, <3>4, <3>5
  <2>4. ASSUME NEW to, Finish(w, to)
        PROVE  HoldsOne'
    <3>1. PICK m \in Held(w) : Queue!End(m, to)
      BY <2>4 DEF Finish
    <3>2. m \in Messages /\ holder[m] = w /\ holder' = [holder EXCEPT ![m] = Nobody]
      BY <3>1 DEF Held, Queue!End
    <3>3. \A n \in Messages : holder'[n] \in {holder[n], Nobody} /\ holder'[n] # w
      BY <3>2
    <3> QED BY <1>3, <1>4, <3>3
  <2>5. CASE Down(w)
    <3>1. \A n \in Messages : holder'[n] \in {holder[n], Nobody} /\ holder'[n] # w
      BY <2>5 DEF Down, Queue!Abandon
    <3> QED BY <1>3, <1>4, <3>1
  <2>6. CASE Park(w) \/ Ack(w) \/ CheckFails(w) \/ SummariseFails(w)
    BY <2>4, <2>5, <2>6 DEF Park, Ack, CheckFails, SummariseFails, GiveBack
  <2>7. CASE RefreshDies(w) \/ Crash(w)
    BY <2>5, <2>7 DEF RefreshDies, Crash
  <2> QED BY <1>4, <2>1, <2>2, <2>3, <2>6, <2>7 DEF WorkerStep, Quiet
<1> QED BY <1>1, <1>4, NextSteps

LEMMA TracedStep ==
    ASSUME Basic, Traced, [Next]_vars
    PROVE  Traced'
<1> USE DEF Basic
\* Whoever keeps its place, its article and its connection, and learns of no
\* other article to resume, is where it was: rows are never deleted.
<1>1. ASSUME NEW v \in Workers, todo'[v] \subseteq todo[v],
             \/ pc'[v] \notin {"summarise", "publish", "ack"}
             \/ pc'[v] = pc[v] /\ job'[v] = job[v] /\ conn'[v] = conn[v]
      PROVE  TracedAt(v)'
  <2>1. TracedAt(v)
    BY DEF Traced
  <2>2. \A p \in todo'[v] : row'[p[1]] # "none"
    <3>1. \A p \in todo'[v] : p[1] \in Urls /\ row[p[1]] # "none"
      BY <1>1, <2>1 DEF TracedAt, WorkType, Pairs
    <3> QED BY <3>1, Forward
  <2>3. pc[v] \in {"summarise", "publish", "ack"} => job[v] \in Urls
    BY DEF WorkType, Working, Acking
  <2>4. ASSUME pc[v] \in {"summarise", "publish", "ack"}, row[job[v]] # "none"
        PROVE  row'[job[v]] # "none"
    BY <2>3, <2>4, Forward
  <2> QED BY <1>1, <2>1, <2>2, <2>4 DEF TracedAt
<1>2. ASSUME NEW w \in Workers, WorkerStep(w)
      PROVE  TracedAt(w)'
  <2>1. TracedAt(w)
    BY DEF Traced
  <2>2. \A p \in todo'[w] : row'[p[1]] # "none"
    <3>1. CASE Start(w)
      BY <3>1 DEF Start, Pending, WorkType, tableVars
    <3>2. CASE ~ Start(w)
      <4>1. todo'[w] \subseteq todo[w]
        BY <1>2, <3>2
        DEF WorkerStep, Quiet, ResumeNext, ResumeDone, Refresh, RefreshDies, Reap,
            Claim, Park, Ack, CheckUrl, CheckFails, Match, MatchFails, StoreFails,
            SummariseFails, PublishFails, Crash, BreakConn, Drop, Store, Summarise,
            PublishMatch, Down, GiveBack, Finish, workVars, WorkType
      <4>2. \A p \in todo'[w] : p[1] \in Urls /\ row[p[1]] # "none"
        BY <2>1, <4>1 DEF TracedAt, WorkType, Pairs
      <4> QED BY <4>2, Forward
    <3> QED BY <3>1, <3>2
  <2>3. /\ pc'[w] \in {"summarise", "publish"} => row'[job'[w]] # "none"
        /\ pc'[w] = "ack" => row'[job'[w]] # "none" \/ conn'[w] = "closed"
    <3>1. CASE ResumeNext(w)
      <4>1. PICK p \in todo[w] : job' = [job EXCEPT ![w] = p[1]]
        BY <3>1 DEF ResumeNext
      <4>2. p[1] \in Urls /\ row[p[1]] # "none" /\ job'[w] = p[1]
        BY <2>1, <4>1 DEF TracedAt, WorkType, Pairs
      <4> QED BY <4>2, Forward
    <3>2. CASE Drop(w) \/ Store(w) \/ Summarise(w)
      <4>1. job[w] \in Urls /\ UNCHANGED job
        BY <3>2 DEF Drop, Store, Summarise, WorkType, Working, Acking
      <4>2. row'[job[w]] # "none" \/ (Drop(w) /\ WriteDies(w))
        BY <3>2, <4>1 DEF Drop, Store, Summarise, RowType
      <4>3. ASSUME Drop(w), WriteDies(w)
            PROVE  conn'[w] = "closed" /\ pc'[w] \in {"ack", "resuming"}
        BY <4>3 DEF Drop, WriteDies, Return, Raise, Leave, Goto, WorkType, MemoryType
      <4> QED BY <4>1, <4>2, <4>3
    <3>3. CASE \/ CheckUrl(w) \/ PublishMatch(w)
      <4>1. job[w] \in Urls /\ UNCHANGED <<job, row>>
        BY <3>3 DEF CheckUrl, PublishMatch, WorkType, Working, tableVars
      <4>2. pc'[w] \in {"summarise", "publish", "ack"} => row[job[w]] # "none"
        BY <2>1, <3>3 DEF CheckUrl, PublishMatch, Goto, WorkType, TracedAt
      <4> QED BY <4>1, <4>2
    <3>4. CASE BreakConn(w)
      <4>1. conn[w] = "open" /\ UNCHANGED <<pc, job, row>>
        BY <3>4 DEF BreakConn, workVars, tableVars
      <4> QED BY <2>1, <4>1 DEF TracedAt
    <3>5. CASE MatchFails(w) \/ StoreFails(w) \/ PublishFails(w)
      <4>1. pc'[w] \in {"swallow", "resuming"}
        BY <3>5 DEF MatchFails, StoreFails, PublishFails, Return, Raise, Leave, Goto, WorkType
      <4> QED BY <4>1
    <3>6. CASE \/ Start(w) \/ ResumeDone(w) \/ Refresh(w) \/ RefreshDies(w) \/ Reap(w)
               \/ Claim(w) \/ Park(w) \/ Ack(w) \/ CheckFails(w) \/ Match(w)
               \/ SummariseFails(w) \/ Crash(w)
      <4>1. pc'[w] \notin {"summarise", "publish", "ack"}
        BY <3>6
        DEF Start, ResumeDone, Refresh, RefreshDies, Reap, Claim, Park, Ack, CheckFails,
            Match, SummariseFails, Crash, Down, GiveBack, Finish, Goto, workVars, WorkType
      <4> QED BY <4>1
    <3> QED BY <1>2, <3>1, <3>2, <3>3, <3>4, <3>5, <3>6 DEF WorkerStep, Quiet
  <2> QED BY <2>2, <2>3 DEF TracedAt
<1>3. ASSUME NEW w \in Workers, WorkerStep(w), NEW v \in Workers, v # w
      PROVE  TracedAt(v)'
  <2>1. conn'[v] = conn[v]
    BY <1>3
    DEF WorkerStep, Quiet, Start, ResumeNext, ResumeDone, Refresh, RefreshDies, Reap,
        Claim, Park, Ack, CheckUrl, CheckFails, Match, MatchFails, StoreFails,
        SummariseFails, PublishFails, Crash, BreakConn, Drop, Store, Summarise,
        PublishMatch, Down, Readable, WriteDies, MemoryType
  <2> QED BY <1>1, <1>3, <2>1, OthersStay
<1>4. \A v \in Workers : TracedAt(v)'
  <2>1. CASE Enqueue \/ UNCHANGED vars \/ \E t \in Topics : DeleteTopic(t)
    <3>1. UNCHANGED <<pc, job, todo, conn>>
      BY <2>1 DEF Enqueue, DeleteTopic, vars, workVars
    <3> QED BY <1>1, <3>1
  <2> QED BY <1>2, <1>3, <2>1, NextSteps
<1> QED BY <1>4 DEF Traced

\* Only the holder of a message finishes it.
LEMMA DoneByAck ==
    ASSUME Basic, [Next]_vars, NEW m \in Messages, state'[m] = "done"
    PROVE  state[m] = "done" \/ \E w \in Workers : Ack(w) /\ holder[m] = w
<1> USE DEF Basic, QueueType, Queue!Move
<1>1. CASE Enqueue \/ UNCHANGED vars \/ \E t \in Topics : DeleteTopic(t)
  BY <1>1 DEF Enqueue, DeleteTopic, Queue!Enqueue, vars, queueVars
<1>2. ASSUME NEW w \in Workers, Claim(w) \/ Reap(w)
      PROVE  state[m] = "done"
  BY <1>2 DEF Claim, Reap, Queue!Lease, Queue!Recover
<1>3. ASSUME NEW w \in Workers, NEW to \in {"failed", "pending"}, Finish(w, to)
      PROVE  state[m] = "done"
  BY <1>3 DEF Finish, Queue!End
<1>4. ASSUME NEW w \in Workers, GiveBack(w)
      PROVE  state[m] = "done"
  BY <1>3, <1>4 DEF GiveBack
<1>5. ASSUME NEW w \in Workers, Down(w)
      PROVE  state[m] = "done"
  BY <1>5 DEF Down, Queue!Abandon
<1>6. ASSUME NEW w \in Workers,
             \/ Park(w) \/ CheckFails(w) \/ SummariseFails(w)
             \/ RefreshDies(w) \/ Crash(w)
      PROVE  state[m] = "done"
  BY <1>3, <1>4, <1>5, <1>6 DEF Park, CheckFails, SummariseFails, RefreshDies, Crash
<1>7. ASSUME NEW w \in Workers,
             \/ Start(w) \/ ResumeNext(w) \/ ResumeDone(w) \/ Refresh(w)
             \/ CheckUrl(w) \/ Match(w) \/ MatchFails(w) \/ Drop(w) \/ Store(w)
             \/ StoreFails(w) \/ Summarise(w) \/ PublishMatch(w) \/ PublishFails(w)
             \/ BreakConn(w)
      PROVE  state[m] = "done"
  BY <1>7
  DEF Start, ResumeNext, ResumeDone, Refresh, CheckUrl, Match, MatchFails, Drop,
      Store, StoreFails, Summarise, PublishMatch, PublishFails, BreakConn, queueVars
<1>8. ASSUME NEW w \in Workers, Ack(w)
      PROVE  state[m] = "done" \/ holder[m] = w
  BY <1>8 DEF Ack, Finish, Held, Queue!End
<1> QED BY <1>1, <1>2, <1>6, <1>7, <1>8, NextSteps DEF WorkerStep, Quiet

\* Whatever crashes, breaks, is deleted or arrives twice: a message whose article
\* left no row is acked only after a PipelineError, or after the write of a
\* dropped article failed on a dead connection.
THEOREM OnlyErrorsLoseHolds == Spec => OnlyErrorsLose
<1> DEFINE Inv == Basic /\ HoldsOne /\ Traced
<1>1. Init => Inv
  <2> SUFFICES ASSUME Init PROVE HoldsOne /\ Traced
    BY BasicInit
  <2> QED BY PipelineAssumption DEF Init, Queue!Init, HoldsOne, Traced, TracedAt
<1>2. Inv /\ [Next]_vars => Inv'
  BY BasicStep, HoldsOneStep, TracedStep
<1>3. Inv /\ [Next]_vars =>
        [\A m \in Messages :
            state[m] # "done" /\ state'[m] = "done" /\ row[Url[m]] = "none" =>
                \E w \in Workers :
                    /\ holder[m] = w
                    /\ pc[w] = "swallow" \/ (pc[w] = "ack" /\ conn[w] = "closed")]_vars
  <2> SUFFICES ASSUME Inv, [Next]_vars, NEW m \in Messages,
                      state[m] # "done", state'[m] = "done", row[Url[m]] = "none"
               PROVE  \E w \in Workers :
                          /\ holder[m] = w
                          /\ pc[w] = "swallow" \/ (pc[w] = "ack" /\ conn[w] = "closed")
    OBVIOUS
  <2>1. PICK w \in Workers : Ack(w) /\ holder[m] = w
    BY DoneByAck
  <2>2. job[w] = Url[m] /\ TracedAt(w)
    BY <2>1 DEF HoldsOne, Traced
  <2>3. pc[w] \in {"ack", "swallow"}
    BY <2>1 DEF Ack, Acking
  <2> QED BY <2>1, <2>2, <2>3 DEF TracedAt
<1> QED BY <1>1, <1>2, <1>3, PTL DEF Spec, OnlyErrorsLose

-----------------------------------------------------------------------------
(* No replica publishes a match twice, unless a commit's answer is lost *)

\* The replicas that can still publish p: all, until its article is summarised,
\* and then those that remember it from before.
Able(p) ==
    {w \in Workers :
        \/ row[p[1]] # "processed"
        \/ p \in todo[w]
        \/ pc[w] \in {"summarise", "publish"} /\ job[w] = p[1] /\ p[2] \in found[w]}

\* What a startup has to resume is not published by another way.
Resumption ==
    \A w \in Workers :
        /\ unsent[w] = {}
        /\ todo[w] # {} => /\ pc[w] \in {"resuming", "summarise", "publish"}
                           /\ \A m \in Messages : holder[m] # w
        /\ pc[w] \in {"summarise", "publish"} => \A p \in todo[w] : p[1] # job[w]

Counted ==
    \A p \in Pairs : published[p] + Cardinality(Able(p)) <= Cardinality(Workers)

CountInv == HoldsOne /\ ArticleInv /\ Resumption /\ Counted

AtMostOnce == IsFiniteSet(Workers) /\ "publish" \notin FaultKinds

LEMMA ResumptionStep ==
    ASSUME Basic, HoldsOne, Resumption, AtMostOnce, [Next]_vars
    PROVE  Resumption'
<1> USE DEF Basic
<1> DEFINE ResumptionOf(w) ==
        /\ unsent[w] = {}
        /\ todo[w] # {} => /\ pc[w] \in {"resuming", "summarise", "publish"}
                           /\ \A m \in Messages : holder[m] # w
        /\ pc[w] \in {"summarise", "publish"} => \A p \in todo[w] : p[1] # job[w]
<1>1. \A w \in Workers : ~ PublishFails(w)
  BY DEF PublishFails, Fault, AtMostOnce
<1>2. ASSUME NEW w \in Workers, WorkerStep(w)
      PROVE  ResumptionOf(w)'
  <2>1. ResumptionOf(w)
    BY DEF Resumption
  <2>2. unsent'[w] = {}
    BY <1>1, <1>2, <2>1
    DEF WorkerStep, Quiet, Start, ResumeNext, ResumeDone, Refresh, RefreshDies, Reap,
        Claim, Park, Ack, CheckUrl, CheckFails, Match, MatchFails, StoreFails,
        SummariseFails, Crash, BreakConn, Drop, Store, Summarise, PublishMatch, Down,
        MemoryType
  <2>3. CASE Start(w)
    <3>1. pc'[w] = "resuming" /\ UNCHANGED holder /\ \A m \in Messages : holder[m] # w
      BY <2>3 DEF Start, Goto, HoldsOne, Working, Acking, WorkType, queueVars
    <3> QED BY <2>2, <3>1
  <2>4. CASE ResumeNext(w)
    <3>1. PICK p \in todo[w] :
            /\ job' = [job EXCEPT ![w] = p[1]]
            /\ todo' = [todo EXCEPT ![w] = {q \in @ : q[1] # p[1]}]
      BY <2>4 DEF ResumeNext
    <3>2. job'[w] = p[1] /\ todo'[w] = {q \in todo[w] : q[1] # p[1]}
      BY <3>1 DEF WorkType
    <3>3. pc'[w] = "summarise" /\ UNCHANGED holder
      BY <2>4 DEF ResumeNext, Goto, WorkType, queueVars
    <3> QED BY <2>1, <2>2, <3>2, <3>3
  <2>5. CASE todo'[w] = {}
    BY <2>2, <2>5
  <2>6. CASE Summarise(w) \/ PublishMatch(w)
    <3>1. UNCHANGED <<holder, job, todo>>
      BY <2>6 DEF Summarise, PublishMatch, queueVars
    <3>2. pc[w] \in {"summarise", "publish"}
      BY <2>6 DEF Summarise, PublishMatch
    <3>3. CASE Return(w)
      <4>1. (\A m \in Messages : holder[m] # w) => pc'[w] = "resuming"
        BY <3>3 DEF Return, Raise, Leave, Resuming, Held, Goto, WorkType
      <4>2. pc'[w] \in {"resuming", "ack"}
        BY <3>3 DEF Return, Raise, Leave, Goto, WorkType
      <4> QED BY <2>1, <2>2, <3>1, <4>1, <4>2
    <3>4. CASE UNCHANGED pc \/ Goto(w, "publish")
      BY <2>1, <2>2, <3>1, <3>2, <3>4 DEF Goto, WorkType
    <3> QED BY <2>6, <3>3, <3>4 DEF Summarise, PublishMatch
  <2>7. CASE Refresh(w) \/ Reap(w) \/ BreakConn(w)
    BY <2>1, <2>2, <2>7 DEF Refresh, Reap, BreakConn, queueVars, workVars, Queue!Recover
  <2>8. CASE SummariseFails(w)
    <3>1. ASSUME NEW to, Finish(w, to)
          PROVE  todo'[w] = {}
      BY <2>1, <3>1 DEF Finish, Held
    <3>2. ASSUME Down(w)
          PROVE  todo'[w] = {}
      BY <3>2 DEF Down, WorkType
    <3> QED BY <2>5, <2>8, <3>1, <3>2 DEF SummariseFails, GiveBack
  <2>9. CASE \/ ResumeDone(w) \/ Claim(w) \/ Park(w) \/ Ack(w) \/ CheckUrl(w)
             \/ CheckFails(w) \/ Match(w) \/ MatchFails(w) \/ Drop(w) \/ Store(w)
             \/ StoreFails(w)
    <3>1. todo[w] = {} /\ UNCHANGED todo
      BY <2>1, <2>9
      DEF Acking, ResumeDone, Claim, Park, Ack, CheckUrl, CheckFails, Match, MatchFails, Drop,
          Store, StoreFails, GiveBack, Finish
    <3> QED BY <2>5, <3>1
  <2>10. CASE RefreshDies(w) \/ Crash(w)
    BY <2>5, <2>10 DEF RefreshDies, Crash, Down, WorkType
  <2> QED BY <1>1, <1>2, <2>3, <2>4, <2>6, <2>7, <2>8, <2>9, <2>10 DEF WorkerStep, Quiet
<1>3. ASSUME NEW w \in Workers, WorkerStep(w), NEW v \in Workers, v # w
      PROVE  ResumptionOf(v)'
  <2>1. ResumptionOf(v)
    BY DEF Resumption
  <2>2. todo[v] # {} => \A m \in Messages : holder'[m] # v
    <3>1. \A m \in Messages : holder'[m] \in {holder[m], Nobody, w}
      BY <1>3
      DEF WorkerStep, Quiet, Start, ResumeNext, ResumeDone, Refresh, RefreshDies, Reap,
          Claim, Park, Ack, CheckUrl, CheckFails, Match, MatchFails, StoreFails,
          SummariseFails, PublishFails, Crash, BreakConn, Drop, Store, Summarise,
          PublishMatch, Down, GiveBack, Finish, queueVars, QueueType,
          Queue!Lease, Queue!Recover, Queue!End, Queue!Abandon
    <3> QED BY <1>3, <2>1, <3>1, PipelineAssumption
  <2> QED BY <1>3, <2>1, <2>2, OthersStay
<1>4. CASE Enqueue \/ UNCHANGED vars \/ \E t \in Topics : DeleteTopic(t)
  <2>1. UNCHANGED <<holder, pc, job, todo, unsent>>
    BY <1>4 DEF Enqueue, DeleteTopic, Queue!Enqueue, vars, queueVars, workVars
  <2> QED BY <2>1 DEF Resumption
<1> QED BY <1>2, <1>3, <1>4, NextSteps DEF Resumption

\* A step that publishes nothing makes no replica able again.
LEMMA AbleShrinks ==
    ASSUME Basic, [Next]_vars, NEW p \in Pairs,
           \A w \in Workers : ~ PublishMatch(w)
    PROVE  Able(p)' \subseteq Able(p)
<1> USE DEF Basic
<1>1. SUFFICES ASSUME NEW v \in Workers, v \in Able(p)', row[p[1]] = "processed"
               PROVE  v \in Able(p)
  BY DEF Able
<1>2. p[1] \in Urls /\ row'[p[1]] = "processed"
  BY <1>1, Forward DEF Pairs
<1>3. CASE UNCHANGED <<pc, job, found, todo>>
  BY <1>1, <1>2, <1>3 DEF Able
<1>4. ASSUME NEW w \in Workers, WorkerStep(w), v # w
      PROVE  v \in Able(p)
  BY <1>1, <1>2, <1>4, OthersStay DEF Able
<1>5. ASSUME WorkerStep(v)
      PROVE  v \in Able(p)
  <2>1. CASE p \in todo'[v]
    <3>1. CASE Start(v)
      BY <1>1, <2>1, <3>1 DEF Start, Pending, WorkType
    <3>2. CASE ~ Start(v)
      <4>1. todo'[v] \subseteq todo[v]
        BY <1>5, <3>2
        DEF WorkerStep, Quiet, ResumeNext, ResumeDone, Refresh, RefreshDies, Reap,
            Claim, Park, Ack, CheckUrl, CheckFails, Match, MatchFails, StoreFails,
            SummariseFails, PublishFails, Crash, BreakConn, Drop, Store, Summarise,
            PublishMatch, Down, GiveBack, Finish, workVars, WorkType
      <4> QED BY <2>1, <4>1 DEF Able
    <3> QED BY <3>1, <3>2
  <2>2. CASE pc'[v] \in {"summarise", "publish"} /\ job'[v] = p[1] /\ p[2] \in found'[v]
    <3>1. CASE ResumeNext(v)
      <4>1. PICK q \in todo[v] :
              /\ job' = [job EXCEPT ![v] = q[1]]
              /\ found' = [found EXCEPT ![v] = {t \in cache[v] : <<q[1], t>> \in todo[v]}]
        BY <3>1 DEF ResumeNext
      <4>2. <<p[1], p[2]>> \in todo[v]
        BY <2>2, <4>1 DEF WorkType
      <4>3. p = <<p[1], p[2]>>
        BY DEF Pairs
      <4> QED BY <4>2, <4>3 DEF Able
    <3>2. CASE Store(v)
      BY <1>1, <2>2, <3>2 DEF Store
    <3>3. CASE ~ ResumeNext(v) /\ ~ Store(v)
      <4>1. pc[v] \in {"summarise", "publish"} /\ job'[v] = job[v] /\ found'[v] = found[v]
        BY <1>5, <2>2, <3>3
        DEF WorkerStep, Quiet, Start, ResumeDone, Refresh, RefreshDies, Reap,
            Claim, Park, Ack, CheckUrl, CheckFails, Match, MatchFails, StoreFails,
            SummariseFails, PublishFails, Crash, BreakConn, Drop, Summarise,
            Down, GiveBack, Finish, Return, Raise, Leave, Goto, workVars, WorkType
      <4> QED BY <2>2, <4>1 DEF Able
    <3> QED BY <3>1, <3>2, <3>3
  <2> QED BY <1>1, <1>2, <2>1, <2>2 DEF Able
<1>6. CASE Enqueue \/ UNCHANGED vars \/ \E t \in Topics : DeleteTopic(t)
  BY <1>3, <1>6 DEF Enqueue, DeleteTopic, vars, workVars
<1> QED BY <1>4, <1>5, <1>6, NextSteps

LEMMA CountedStep ==
    ASSUME Basic, CountInv, AtMostOnce, [Next]_vars
    PROVE  Counted'
<1> USE DEF Basic
<1>1. ASSUME NEW p \in Pairs
      PROVE  /\ IsFiniteSet(Able(p)) /\ Cardinality(Able(p)) \in Nat
             /\ published[p] \in Nat
             /\ published[p] + Cardinality(Able(p)) <= Cardinality(Workers)
  <2>1. Able(p) \in SUBSET Workers
    BY DEF Able
  <2>2. IsFiniteSet(Able(p))
    BY <2>1, FS_Subset DEF AtMostOnce
  <2>3. Cardinality(Able(p)) \in Nat
    BY <2>2, FS_CardinalityType
  <2> QED BY <2>2, <2>3 DEF CountInv, Counted, TableType
<1>2. Cardinality(Workers) \in Nat
  BY FS_CardinalityType DEF AtMostOnce
\* The pairs a step leaves alone.
<1>3. ASSUME NEW p \in Pairs, published'[p] = published[p], Able(p)' \subseteq Able(p)
      PROVE  published'[p] + Cardinality(Able(p)') <= Cardinality(Workers)
  <2>1. Cardinality(Able(p)') <= Cardinality(Able(p)) /\ IsFiniteSet(Able(p)')
    BY <1>1, <1>3, FS_Subset
  <2>2. Cardinality(Able(p)') \in Nat
    BY <2>1, FS_CardinalityType
  <2> QED BY <1>1, <1>2, <1>3, <2>1, <2>2
<1>4. CASE \A w \in Workers : ~ PublishMatch(w)
  <2>1. UNCHANGED published
    BY <1>4, NextSteps, QuietTables
    DEF WorkerStep, Enqueue, DeleteTopic, Drop, Store, Summarise, vars
  <2> QED BY <1>3, <1>4, <2>1, AbleShrinks DEF Counted
<1>5. ASSUME NEW w \in Workers, PublishMatch(w)
      PROVE  Counted'
  <2>1. PICK t \in found[w] :
            /\ Count(unsent[w] \cup {<<job[w], t>>}, 1)
            /\ IF found[w] = {t} THEN Return(w)
               ELSE found' = [found EXCEPT ![w] = @ \ {t}] /\ UNCHANGED pc
    BY <1>5 DEF PublishMatch, Fault, AtMostOnce
  <2>2. PICK q \in Pairs : q = <<job[w], t>>
    BY <1>5 DEF PublishMatch, WorkType, Working, Pairs
  <2>3. Count({q}, 1)
    <3>1. unsent[w] = {}
      BY DEF CountInv, Resumption
    <3>2. unsent[w] \cup {<<job[w], t>>} = {q}
      BY <2>2, <3>1
    <3> QED BY <2>1, <3>2
  <2>4. /\ \A p \in Pairs : p # q => published'[p] = published[p]
        /\ published'[q] \in Nat /\ published'[q] <= published[q] + 1
    BY <2>3, PipelineAssumption DEF Count, TableType
  <2>5. UNCHANGED <<row, job, todo>> /\ pc[w] = "publish"
    BY <1>5 DEF PublishMatch, tableVars
  <2>6. \A v \in Workers : v # w => pc'[v] = pc[v] /\ found'[v] = found[v]
    BY <1>5, OthersStay DEF WorkerStep
  <2>7. \/ pc'[w] \in {"resuming", "ack"}
        \/ pc'[w] = pc[w] /\ found'[w] = found[w] \ {t}
    <3>1. CASE Return(w)
      BY <3>1 DEF Return, Raise, Leave, Goto, WorkType
    <3>2. CASE found' = [found EXCEPT ![w] = @ \ {t}] /\ UNCHANGED pc
      BY <3>2 DEF WorkType
    <3> QED BY <2>1, <3>1, <3>2
  <2>8. \A p \in Pairs : Able(p)' \subseteq Able(p)
    BY <2>5, <2>6, <2>7 DEF Able
  <2>9. w \in Able(q)
    BY <2>2, <2>5 DEF Able
  <2>10. w \notin Able(q)'
    <3>1. row'[q[1]] = "processed"
      BY <2>2, <2>5 DEF CountInv, ArticleInv, WorkInv
    <3>2. q \notin todo'[w]
      BY <2>2, <2>5 DEF CountInv, Resumption
    <3>3. ~ (pc'[w] \in {"summarise", "publish"} /\ q[2] \in found'[w])
      BY <2>2, <2>7
    <3> QED BY <3>1, <3>2, <3>3 DEF Able
  <2>11. published'[q] + Cardinality(Able(q)') <= Cardinality(Workers)
    <3>1. Able(q)' \in SUBSET (Able(q) \ {w})
      BY <2>8, <2>10
    <3>2. /\ IsFiniteSet(Able(q) \ {w})
          /\ Cardinality(Able(q) \ {w}) = Cardinality(Able(q)) - 1
      BY <1>1, <2>9, FS_RemoveElement
    <3>3. Cardinality(Able(q)') <= Cardinality(Able(q)) - 1 /\ IsFiniteSet(Able(q)')
      BY <3>1, <3>2, FS_Subset
    <3>4. Cardinality(Able(q)') \in Nat
      BY <3>3, FS_CardinalityType
    <3> QED BY <1>1, <1>2, <2>4, <3>3, <3>4
  <2> QED BY <1>3, <2>4, <2>8, <2>11 DEF Counted
<1> QED BY <1>4, <1>5

\* An article reaches Stage 7 by the loop and by the resume at startup, and its
\* messages are redelivered after crashes; still no replica publishes a match
\* twice, unless the answer to a commit is lost.
THEOREM OncePerReplicaHolds == ASSUME AtMostOnce PROVE Spec => []OncePerReplica
<1>1. Init => Basic /\ CountInv
  <2> SUFFICES ASSUME Init PROVE CountInv
    BY BasicInit
  <2>1. HoldsOne
    BY PipelineAssumption DEF Init, Queue!Init, HoldsOne
  <2>2. ArticleInv /\ Resumption
    BY DEF Init, ArticleInv, WorkInv, Resumption
  <2>3. Counted
    <3>1. \A p \in Pairs : published[p] = 0 /\ Able(p) \in SUBSET Workers
      BY DEF Init, Able
    <3>2. \A p \in Pairs : /\ IsFiniteSet(Able(p))
                           /\ Cardinality(Able(p)) <= Cardinality(Workers)
      BY <3>1, FS_Subset DEF AtMostOnce
    <3>3. \A p \in Pairs : Cardinality(Able(p)) \in Nat
      BY <3>2, FS_CardinalityType
    <3> QED BY <3>1, <3>2, <3>3 DEF Counted
  <2> QED BY <2>1, <2>2, <2>3 DEF CountInv
<1>2. Basic /\ CountInv /\ [Next]_vars => (Basic /\ CountInv)'
  BY BasicStep, HoldsOneStep, ArticleInvStep, ResumptionStep, CountedStep DEF CountInv
<1>3. Basic /\ CountInv => OncePerReplica
  <2> SUFFICES ASSUME Basic, CountInv, NEW p \in Pairs
               PROVE  published[p] <= Cardinality(Workers)
    BY DEF OncePerReplica
  <2>1. Cardinality(Able(p)) \in Nat
    <3>1. Able(p) \in SUBSET Workers
      BY DEF Able
    <3> QED BY <3>1, FS_Subset, FS_CardinalityType DEF AtMostOnce
  <2>2. Cardinality(Workers) \in Nat
    BY FS_CardinalityType DEF AtMostOnce
  <2>3. published[p] \in Nat /\ published[p] + Cardinality(Able(p)) <= Cardinality(Workers)
    BY DEF Basic, TableType, CountInv, Counted
  <2> QED BY <2>1, <2>2, <2>3
<1> QED BY <1>1, <1>2, <1>3, PTL DEF Spec

-----------------------------------------------------------------------------
(* Acked is published, as long as nobody dies and no article comes twice *)

\* No process dies, no connection breaks, every publication is written, and every
\* article is sent once.
Undisturbed ==
    /\ FaultKinds \cap {"crash", "conn", "publish"} = {}
    /\ \A m, n \in Messages : Url[m] = Url[n] => m = n

\* The topics u is stored with, of those there still are.
TopicsOf(u) == {t \in topics : <<u, t>> \in stored}

Given(u) == \A t \in TopicsOf(u) : published[<<u, t>>] > 0

\* Nothing of u is left to publish by its own message.
Over(u) == u \in Reddit \/ Given(u)

\* The stages at which a worker has a message: none of them is Stage 6 or 7,
\* which a startup reaches without one.
Fresh == {"url", "match", "drop", "store"}

Employed ==
    \A w \in Workers :
        pc[w] \in Fresh \cup Acking => \E m \in Messages : holder[m] = w

TablesInv ==
    /\ \A u \in Reddit : row[u] # "processed"
    /\ \A p \in stored : row[p[1]] # "none"

LeaseInv ==
    /\ \A w \in Workers : conn[w] = "open"
    /\ \A m \in Messages : holder[m] = Nobody <=> state[m] # "processing"

\* A message that is waiting has not touched the tables; the matches of one that
\* is worked on are published or still in its worker's hands; those of one that
\* is acked are published.
Untouched(m) == state[m] \in {"absent", "pending"} => row[Url[m]] = "none"

Finished(m) == state[m] = "done" => Over(Url[m])

InHand(m, w) ==
    /\ pc[w] \in Fresh => row[Url[m]] = "none"
    /\ pc[w] = "summarise" => TopicsOf(Url[m]) \subseteq found[w]
    /\ pc[w] = "publish" =>
        \A t \in TopicsOf(Url[m]) : t \in found[w] \/ published[<<Url[m], t>>] > 0
    /\ pc[w] \in Acking => Over(Url[m])

MessageOf(m) ==
    /\ Untouched(m) /\ Finished(m)
    /\ \A w \in Workers : holder[m] = w => InHand(m, w)

MessageInv == \A m \in Messages : MessageOf(m)

PublishInv ==
    HoldsOne /\ ArticleInv /\ Employed /\ TablesInv /\ LeaseInv /\ MessageInv

Calm(w) ==
    \/ Start(w) \/ ResumeNext(w) \/ ResumeDone(w) \/ Refresh(w)
    \/ CheckUrl(w) \/ Match(w) \/ MatchFails(w) \/ Drop(w) \/ Store(w) \/ StoreFails(w)
    \/ Summarise(w) \/ PublishMatch(w)

\* Undisturbed, a worker goes down, gives back or loses nothing.
LEMMA CalmSteps ==
    ASSUME Basic, LeaseInv, Undisturbed, NEW w \in Workers, WorkerStep(w)
    PROVE  Calm(w) \/ Claim(w) \/ Park(w) \/ Ack(w)
<1>1. ~ Crash(w) /\ ~ BreakConn(w) /\ ~ PublishFails(w)
  BY DEF Crash, BreakConn, PublishFails, Fault, Undisturbed
<1>2. conn[w] = "open"
  BY DEF LeaseInv
<1>3. ~ RefreshDies(w) /\ ~ CheckFails(w) /\ ~ SummariseFails(w)
  BY <1>2 DEF RefreshDies, CheckFails, SummariseFails, WriteDies
<1>4. ~ Reap(w)
  BY DEF Reap, Queue!Recover, Queue!Move, LeaseInv
<1> QED BY <1>1, <1>3, <1>4 DEF WorkerStep, Quiet, Calm

LEMMA CalmQueue ==
    ASSUME NEW w \in Workers, Calm(w)
    PROVE  UNCHANGED <<state, holder>>
BY DEF Calm, Start, ResumeNext, ResumeDone, Refresh, CheckUrl, Match, MatchFails, Drop,
       Store, StoreFails, Summarise, PublishMatch, queueVars

\* A worker takes one message, and ends the lease of its own.
LEMMA ClaimOf ==
    ASSUME Basic, NEW w \in Workers, Claim(w)
    PROVE  \E m \in Messages :
               /\ state[m] = "pending"
               /\ job' = [job EXCEPT ![w] = Url[m]]
               /\ \A n \in Messages :
                    /\ state'[n] = IF n = m THEN "processing" ELSE state[n]
                    /\ holder'[n] = IF n = m THEN w ELSE holder[n]
<1>1. PICK m \in Messages : Queue!Lease({m}, w) /\ job' = [job EXCEPT ![w] = Url[m]]
  BY DEF Claim
<1> QED BY <1>1 DEF Queue!Lease, Queue!Move

LEMMA FinishOf ==
    ASSUME Basic, NEW w \in Workers, NEW to, Finish(w, to)
    PROVE  \E m \in Messages :
               /\ holder[m] = w
               /\ \A n \in Messages :
                    /\ state'[n] = IF n = m THEN to ELSE state[n]
                    /\ holder'[n] = IF n = m THEN Nobody ELSE holder[n]
<1>1. PICK m \in Held(w) : Queue!End(m, to)
  BY DEF Finish
<1> QED BY <1>1 DEF Queue!End, Queue!Move, Held, Basic, QueueType

LEMMA LeaseInvStep ==
    ASSUME Basic, LeaseInv, Undisturbed, [Next]_vars
    PROVE  LeaseInv'
<1> USE DEF LeaseInv
<1>1. CASE Enqueue \/ UNCHANGED vars \/ \E t \in Topics : DeleteTopic(t)
  BY <1>1 DEF Enqueue, Queue!Enqueue, Queue!Move, DeleteTopic, vars, queueVars
<1>2. ASSUME NEW w \in Workers, WorkerStep(w)
      PROVE  LeaseInv'
  <2>1. \A v \in Workers : conn'[v] = "open"
    BY <1>2, CalmSteps
    DEF Basic, MemoryType, Calm, Start, ResumeNext, ResumeDone, Refresh, CheckUrl, Match,
        MatchFails, Drop, Store, StoreFails, Summarise, PublishMatch, Claim, Park, Ack,
        Readable, WriteDies
  <2>2. CASE Calm(w)
    BY <2>1, <2>2, CalmQueue
  <2>3. CASE Claim(w)
    BY <2>1, <2>3, ClaimOf, PipelineAssumption
  <2>4. CASE Park(w) \/ Ack(w)
    <3>1. \A m \in Messages : holder'[m] = Nobody <=> state'[m] # "processing"
      BY <2>4, FinishOf, PipelineAssumption DEF Park, Ack
    <3> QED BY <2>1, <3>1
  <2> QED BY <1>2, <2>2, <2>3, <2>4, CalmSteps
<1> QED BY <1>1, <1>2, NextSteps

LEMMA EmployedStep ==
    ASSUME Basic, HoldsOne, LeaseInv, Employed, Undisturbed, [Next]_vars
    PROVE  Employed'
<1> USE DEF Basic, WorkType
<1>1. CASE Enqueue \/ UNCHANGED vars \/ \E t \in Topics : DeleteTopic(t)
  <2>1. UNCHANGED <<pc, holder>>
    BY <1>1 DEF Enqueue, Queue!Enqueue, DeleteTopic, vars, queueVars, workVars
  <2> QED BY <2>1 DEF Employed
<1>2. ASSUME NEW w \in Workers, WorkerStep(w), NEW v \in Workers, v # w,
             pc'[v] \in Fresh \cup Acking
      PROVE  \E m \in Messages : holder'[m] = v
  <2>1. PICK m \in Messages : holder[m] = v
    BY <1>2, OthersStay DEF Employed
  <2>2. state[m] = "processing"
    BY <2>1, PipelineAssumption DEF LeaseInv
  <2>3. holder'[m] = v
    BY <1>2, <2>1, <2>2, CalmSteps, CalmQueue, ClaimOf, FinishOf DEF Park, Ack
  <2> QED BY <2>3
<1>3. ASSUME NEW w \in Workers, WorkerStep(w), pc'[w] \in Fresh \cup Acking
      PROVE  \E m \in Messages : holder'[m] = w
  <2>1. CASE Calm(w)
    <3>1. ASSUME Return(w) \/ Raise(w)
          PROVE  \E m \in Messages : holder[m] = w
      BY <1>3, <3>1 DEF Return, Raise, Leave, Resuming, Held, Goto, Fresh, Acking
    <3>2. CASE pc[w] \in Fresh
      BY <2>1, <3>2, CalmQueue DEF Employed
    <3>3. CASE Start(w) \/ ResumeNext(w) \/ ResumeDone(w) \/ Refresh(w)
      BY <1>3, <3>3
      DEF Start, ResumeNext, ResumeDone, Refresh, Goto, workVars, Fresh, Acking
    <3>4. CASE Summarise(w) \/ PublishMatch(w)
      BY <1>3, <2>1, <3>1, <3>4, CalmQueue DEF Summarise, PublishMatch, Goto, Fresh, Acking
    <3> QED BY <2>1, <3>2, <3>3, <3>4
            DEF Calm, CheckUrl, Match, MatchFails, Drop, Store, StoreFails, Fresh
  <2>2. CASE Claim(w)
    BY <2>2, ClaimOf
  <2>3. CASE Park(w) \/ Ack(w)
    BY <1>3, <2>3 DEF Park, Ack, Finish, Goto, Fresh, Acking
  <2> QED BY <1>3, <2>1, <2>2, <2>3, CalmSteps
<1> QED BY <1>1, <1>2, <1>3, NextSteps DEF Employed

\* A worker that stores or drops an article does it for a message it holds.
LEMMA WriterHolds ==
    ASSUME HoldsOne, Employed, NEW w \in Workers, Drop(w) \/ Store(w)
    PROVE  \E m \in Messages : holder[m] = w /\ Url[m] = job[w]
<1>1. PICK m \in Messages : holder[m] = w
  BY DEF Employed, Drop, Store, Fresh
<1> QED BY <1>1 DEF HoldsOne

LEMMA TablesInvStep ==
    ASSUME Basic, ArticleInv, TablesInv, [Next]_vars
    PROVE  TablesInv'
<1> USE DEF Basic
<1>1. ASSUME NEW p \in stored', p \notin stored
      PROVE  row'[p[1]] # "none"
  <2>1. CASE UNCHANGED stored
    BY <1>1, <2>1
  <2>2. ASSUME NEW w \in Workers, Store(w)
        PROVE  row'[p[1]] # "none"
    <3>1. p[1] = job[w] /\ job[w] \in Urls
      BY <1>1, <2>2 DEF Store, WorkType, Working, Acking
    <3> QED BY <2>2, <3>1 DEF Store, RowType
  <2>3. CASE Enqueue \/ UNCHANGED vars \/ \E t \in Topics : DeleteTopic(t)
    BY <1>1, <2>3 DEF Enqueue, DeleteTopic, vars, tableVars
  <2> QED BY <2>1, <2>2, <2>3, NextSteps, QuietTables
          DEF WorkerStep, Drop, Summarise, PublishMatch, tableVars
<1>2. ASSUME NEW p \in stored
      PROVE  row'[p[1]] # "none"
  <2>1. p[1] \in Urls /\ row[p[1]] # "none"
    BY DEF TableType, Pairs, TablesInv
  <2> QED BY <2>1, Forward
<1>3. ASSUME NEW u \in Reddit
      PROVE  row'[u] # "processed"
  <2>1. u \in Urls /\ row[u] # "processed"
    BY PipelineAssumption DEF TablesInv
  <2>2. CASE UNCHANGED row
    BY <2>1, <2>2
  <2>3. ASSUME NEW w \in Workers, Drop(w) \/ Store(w)
        PROVE  row'[u] # "processed"
    BY <2>1, <2>3 DEF Drop, Store, RowType
  <2>4. ASSUME NEW w \in Workers, Summarise(w)
        PROVE  row'[u] # "processed"
    <3>1. job[w] # u
      BY <2>4 DEF Summarise, ArticleInv, WorkInv
    <3> QED BY <2>1, <2>4, <3>1 DEF Summarise, RowType
  <2>5. CASE Enqueue \/ UNCHANGED vars \/ \E t \in Topics : DeleteTopic(t)
    BY <2>2, <2>5 DEF Enqueue, DeleteTopic, vars, tableVars
  <2> QED BY <2>2, <2>3, <2>4, <2>5, NextSteps, QuietTables
          DEF WorkerStep, PublishMatch, tableVars
<1> QED BY <1>1, <1>2, <1>3 DEF TablesInv

\* What is published stays published.
LEMMA SentStays ==
    ASSUME Basic, [Next]_vars, NEW p \in Pairs, published[p] > 0
    PROVE  published'[p] > 0
<1>1. published[p] \in 0..PublishCap
  BY DEF Basic, TableType
<1>2. ASSUME NEW S, NEW n \in {1, 2}, Count(S, n)
      PROVE  published'[p] > 0
  BY <1>1, <1>2, PipelineAssumption DEF Count
<1>3. CASE UNCHANGED published
  BY <1>3
<1>4. CASE Enqueue \/ UNCHANGED vars \/ \E t \in Topics : DeleteTopic(t)
  BY <1>3, <1>4 DEF Enqueue, DeleteTopic, vars
<1> QED BY <1>2, <1>3, <1>4, NextSteps, QuietTables
        DEF WorkerStep, Drop, Store, Summarise, PublishMatch

\* A step of others leaves what a message has reached: only its worker writes its
\* article's row first and its matches.
LEMMA TablesMove ==
    ASSUME Basic, PublishInv, Undisturbed, [Next]_vars, NEW m \in Messages,
           \A w \in Workers : holder[m] = w => ~ Drop(w) /\ ~ Store(w)
    PROVE  /\ row[Url[m]] = "none" => row'[Url[m]] = "none"
           /\ TopicsOf(Url[m])' \subseteq TopicsOf(Url[m])
           /\ Over(Url[m]) => Over(Url[m])'
<1> USE DEF Basic
<1>1. PICK u \in Urls : u = Url[m]
  BY PipelineAssumption
<1>2. \A w \in Workers : Drop(w) \/ Store(w) => job[w] # u
  BY <1>1, WriterHolds DEF PublishInv, Undisturbed
<1>3. row[u] = "none" => row'[u] = "none"
  <2>1. SUFFICES ASSUME row[u] = "none" PROVE row'[u] = "none"
    OBVIOUS
  <2>2. ASSUME NEW w \in Workers, Drop(w) \/ Store(w) \/ Summarise(w)
        PROVE  row'[u] = "none"
    <3>1. Summarise(w) => job[w] # u
      BY <2>1 DEF Summarise, PublishInv, ArticleInv, WorkInv, InTable
    <3> QED BY <1>2, <2>1, <2>2, <3>1 DEF Drop, Store, Summarise, RowType
  <2>3. CASE Enqueue \/ UNCHANGED vars \/ \E t \in Topics : DeleteTopic(t)
    BY <2>1, <2>3 DEF Enqueue, DeleteTopic, vars, tableVars
  <2> QED BY <2>1, <2>2, <2>3, NextSteps, QuietTables
          DEF WorkerStep, PublishMatch, tableVars
<1>4. \A t \in topics' : t \in topics /\ (<<u, t>> \in stored' => <<u, t>> \in stored)
  <2>1. CASE UNCHANGED <<topics, stored>>
    BY <2>1
  <2>2. ASSUME NEW w \in Workers, Store(w)
        PROVE  UNCHANGED topics /\ \A t : <<u, t>> \in stored' => <<u, t>> \in stored
    BY <1>2, <2>2 DEF Store
  <2>3. CASE Enqueue \/ UNCHANGED vars
    BY <2>1, <2>3 DEF Enqueue, vars, tableVars
  <2>4. ASSUME NEW t \in Topics, DeleteTopic(t)
        PROVE  topics' \subseteq topics /\ stored' \subseteq stored
    BY <2>4 DEF DeleteTopic
  <2> QED BY <2>1, <2>2, <2>3, <2>4, NextSteps, QuietTables
          DEF WorkerStep, Drop, Summarise, PublishMatch, tableVars
<1>5. TopicsOf(u)' \subseteq TopicsOf(u)
  BY <1>4 DEF TopicsOf
<1>6. \A t \in TopicsOf(u) : <<u, t>> \in Pairs
  BY DEF TopicsOf, TableType, Pairs
<1>7. \A t \in TopicsOf(u) : published[<<u, t>>] > 0 => published'[<<u, t>>] > 0
  BY <1>6, SentStays
<1>8. Given(u) => Given(u)'
  BY <1>5, <1>7 DEF Given
<1> QED BY <1>1, <1>3, <1>5, <1>8 DEF Over

\* What is in a worker's hand stays there while it does nothing with it.
LEMMA StillInHand ==
    ASSUME Basic, PublishInv, Undisturbed, [Next]_vars,
           NEW m \in Messages, NEW v \in Workers, holder[m] = v,
           pc'[v] = pc[v], found'[v] = found[v], ~ Drop(v), ~ Store(v)
    PROVE  InHand(m, v)'
<1>1. InHand(m, v)
  BY DEF PublishInv, MessageInv, MessageOf
<1>2. /\ row[Url[m]] = "none" => row'[Url[m]] = "none"
      /\ TopicsOf(Url[m])' \subseteq TopicsOf(Url[m])
      /\ Over(Url[m]) => Over(Url[m])'
  BY TablesMove
<1>3. \A t \in TopicsOf(Url[m]) : <<Url[m], t>> \in Pairs
  BY DEF TopicsOf, Basic, TableType
<1>4. \A t \in TopicsOf(Url[m]) :
          published[<<Url[m], t>>] > 0 => published'[<<Url[m], t>>] > 0
  BY <1>3, SentStays
<1> QED BY <1>1, <1>2, <1>4 DEF InHand

\* An article without a row has nothing to publish.
LEMMA NothingStored ==
    ASSUME TablesInv, NEW u, row[u] = "none"
    PROVE  TopicsOf(u) = {}
BY DEF TablesInv, TopicsOf

\* A worker with a message returns to its ack.
LEMMA ReturnsToAck ==
    ASSUME Basic, NEW w \in Workers, NEW m \in Messages, holder[m] = w,
           Return(w) \/ Raise(w)
    PROVE  pc'[w] \in Acking
BY DEF Acking, Return, Raise, Leave, Resuming, Held, Goto, Basic, WorkType

\* A worker's own step on the message it holds.
LEMMA OwnStep ==
    ASSUME Basic, PublishInv, Undisturbed, [Next]_vars,
           NEW w \in Workers, NEW m \in Messages, holder[m] = w, Calm(w)
    PROVE  InHand(m, w)'
<1> USE DEF Basic, WorkType
<1>1. PICK u \in Urls : u = Url[m]
  BY PipelineAssumption
<1>2. InHand(m, w) /\ pc[w] \in Working /\ job[w] = u
  BY <1>1 DEF PublishInv, MessageInv, MessageOf, HoldsOne
<1>3. Return(w) \/ Raise(w) => pc'[w] \in Acking
  BY ReturnsToAck
<1>4. ASSUME pc'[w] \in Acking, Over(u)'
      PROVE  InHand(m, w)'
  BY <1>1, <1>4 DEF InHand, Fresh, Acking
<1>5. ASSUME row[u] = "none", UNCHANGED <<topics, stored>>
      PROVE  Over(u)'
  <2>1. TopicsOf(u) = {}
    BY <1>5, NothingStored DEF PublishInv
  <2> QED BY <1>5, <2>1 DEF Over, Given, TopicsOf
<1>6. CASE CheckUrl(w) \/ Match(w)
  <2>1. row'[u] = "none" /\ pc'[w] \in Fresh
    BY <1>1, <1>2, <1>6 DEF CheckUrl, Match, InHand, Goto, tableVars, Fresh
  <2> QED BY <1>1, <2>1 DEF InHand, Fresh, Acking
<1>7. CASE MatchFails(w) \/ Drop(w) \/ StoreFails(w)
  <2>1. row[u] = "none" /\ UNCHANGED <<topics, stored>> /\ (Return(w) \/ Raise(w))
    BY <1>1, <1>2, <1>7 DEF MatchFails, Drop, StoreFails, InHand, tableVars, Fresh
  <2> QED BY <1>3, <1>4, <1>5, <2>1
<1>8. CASE Store(w)
  <2>1. CASE u \in Reddit
    BY <1>2, <1>3, <1>4, <1>8, <2>1 DEF Store, Over
  <2>2. CASE u \notin Reddit
    <3>1. pc'[w] = "summarise" /\ found'[w] = found[w]
      BY <1>2, <1>8, <2>2 DEF Store, Goto
    <3>2. TopicsOf(u) = {}
      BY <1>2, <1>8, NothingStored DEF Store, PublishInv
    <3>3. UNCHANGED topics /\ stored' = stored \cup ({u} \X found[w])
      BY <1>2, <1>8 DEF Store
    <3>4. TopicsOf(u)' \subseteq found[w]
      BY <3>2, <3>3 DEF TopicsOf
    <3> QED BY <1>1, <3>1, <3>4 DEF InHand, Fresh, Acking
  <2> QED BY <2>1, <2>2
<1>9. CASE Summarise(w)
  <2>1. UNCHANGED <<topics, stored>> /\ TopicsOf(u) \subseteq found[w]
    BY <1>1, <1>2, <1>9 DEF Summarise, InHand
  <2>2. TopicsOf(u)' = TopicsOf(u)
    BY <2>1 DEF TopicsOf
  <2>3. CASE found[w] = {}
    BY <1>3, <1>4, <1>9, <2>1, <2>2, <2>3 DEF Summarise, Over, Given
  <2>4. CASE found[w] # {}
    <3>1. pc'[w] = "publish" /\ found'[w] = found[w]
      BY <1>9, <2>4 DEF Summarise, Goto
    <3> QED BY <1>1, <2>1, <2>2, <3>1 DEF InHand, Fresh, Acking
  <2> QED BY <2>3, <2>4
<1>10. CASE PublishMatch(w)
  <2>1. PICK t \in found[w] :
            /\ \/ Count(unsent[w] \cup {<<job[w], t>>}, 1)
               \/ Count(unsent[w] \cup {<<job[w], t>>}, 2)
            /\ IF found[w] = {t} THEN Return(w)
               ELSE found' = [found EXCEPT ![w] = @ \ {t}] /\ UNCHANGED pc
    BY <1>10 DEF PublishMatch
  <2>2. <<u, t>> \in Pairs
    BY DEF Pairs
  <2>3. published'[<<u, t>>] > 0
    <3>1. published[<<u, t>>] \in 0..PublishCap
      BY <2>2 DEF TableType
    <3> QED BY <1>2, <2>1, <2>2, <3>1, PipelineAssumption DEF Count
  <2>4. TopicsOf(u)' = TopicsOf(u) /\ pc[w] = "publish"
    BY <1>10 DEF PublishMatch, tableVars, TopicsOf
  <2>5. \A s \in TopicsOf(u) : s \in found[w] \/ published'[<<u, s>>] > 0
    <3>1. \A s \in TopicsOf(u) : <<u, s>> \in Pairs
      BY DEF TopicsOf, TableType
    <3> QED BY <1>1, <1>2, <2>4, <3>1, SentStays DEF InHand
  <2>6. CASE found[w] = {t}
    <3>1. Given(u)'
      BY <2>3, <2>4, <2>5, <2>6 DEF Given
    <3> QED BY <1>3, <1>4, <2>1, <2>6, <3>1 DEF Over
  <2>7. CASE found[w] # {t}
    <3>1. pc'[w] = "publish" /\ found'[w] = found[w] \ {t}
      BY <2>1, <2>4, <2>7
    <3> QED BY <1>1, <2>3, <2>4, <2>5, <3>1 DEF InHand, Fresh, Acking
  <2> QED BY <2>6, <2>7
<1>11. ~ Start(w) /\ ~ ResumeNext(w) /\ ~ ResumeDone(w) /\ ~ Refresh(w)
  BY <1>2 DEF Start, ResumeNext, ResumeDone, Refresh, Working, Acking
<1> QED BY <1>6, <1>7, <1>8, <1>9, <1>10, <1>11 DEF Calm

LEMMA MessageInvStep ==
    ASSUME Basic, PublishInv, Undisturbed, [Next]_vars
    PROVE  MessageInv'
<1>1. \A m \in Messages :
          /\ Untouched(m) /\ Finished(m)
          /\ holder[m] \in Workers => state[m] = "processing"
  BY PipelineAssumption DEF PublishInv, MessageInv, MessageOf, LeaseInv
\* The messages that stay where they are.
<1>2. ASSUME NEW m \in Messages, holder'[m] = holder[m],
             state'[m] = state[m] \/ (state[m] = "absent" /\ state'[m] = "pending"),
             \A v \in Workers : holder[m] = v =>
                 pc'[v] = pc[v] /\ found'[v] = found[v] /\ ~ Drop(v) /\ ~ Store(v)
      PROVE  MessageOf(m)'
  <2>1. \A v \in Workers : holder'[m] = v => InHand(m, v)'
    BY <1>2, StillInHand
  <2>2. Untouched(m)' /\ Finished(m)'
    BY <1>1, <1>2, TablesMove DEF Untouched, Finished
  <2> QED BY <2>1, <2>2 DEF MessageOf
<1>3. CASE Enqueue \/ UNCHANGED vars \/ \E t \in Topics : DeleteTopic(t)
  <2>1. \A w \in Workers : ~ Drop(w) /\ ~ Store(w)
    <3>1. UNCHANGED pc
      BY <1>3 DEF Enqueue, DeleteTopic, vars, workVars
    <3>2. ASSUME NEW w \in Workers, Drop(w) \/ Store(w)
          PROVE  pc'[w] # pc[w]
      BY <3>2 DEF Drop, Store, Return, Raise, Leave, Goto, Basic, WorkType
    <3> QED BY <3>1, <3>2
  <2>2. UNCHANGED <<holder, pc, found>>
    BY <1>3 DEF Enqueue, Queue!Enqueue, DeleteTopic, vars, queueVars, workVars
  <2>3. \A m \in Messages :
            state'[m] = state[m] \/ (state[m] = "absent" /\ state'[m] = "pending")
    BY <1>3 DEF Enqueue, Queue!Enqueue, Queue!Move, DeleteTopic, vars, queueVars
  <2>4. \A m \in Messages : MessageOf(m)'
    BY <1>2, <2>1, <2>2, <2>3
  <2> QED BY <2>4 DEF MessageInv
<1>4. ASSUME NEW w \in Workers, WorkerStep(w)
      PROVE  MessageInv'
  <2>1. \A v \in Workers : v # w => /\ pc'[v] = pc[v] /\ found'[v] = found[v]
                                    /\ ~ Drop(v) /\ ~ Store(v)
    <3>1. ASSUME NEW v \in Workers, v # w, Drop(v) \/ Store(v)
          PROVE  pc'[v] # pc[v]
      BY <3>1 DEF Drop, Store, Return, Raise, Leave, Goto, Basic, WorkType
    <3> QED BY <1>4, <3>1, OthersStay
  <2>2. ASSUME NEW m \in Messages, holder[m] # w,
               holder'[m] = holder[m], state'[m] = state[m]
        PROVE  MessageOf(m)'
    BY <1>2, <2>1, <2>2
  <2>3. CASE Calm(w)
    <3>1. ASSUME NEW m \in Messages, holder[m] = w
          PROVE  MessageOf(m)'
      <4>1. state'[m] = "processing" /\ holder'[m] = w
        BY <1>1, <2>3, <3>1, CalmQueue
      <4>2. InHand(m, w)'
        BY <2>3, <3>1, OwnStep
      <4> QED BY <4>1, <4>2 DEF MessageOf, Untouched, Finished
    <3>2. \A m \in Messages : MessageOf(m)'
      BY <2>2, <2>3, <3>1, CalmQueue
    <3> QED BY <3>2 DEF MessageInv
  <2>4. CASE Claim(w)
    <3>1. PICK m \in Messages :
              /\ state[m] = "pending"
              /\ job' = [job EXCEPT ![w] = Url[m]]
              /\ \A n \in Messages :
                   /\ state'[n] = IF n = m THEN "processing" ELSE state[n]
                   /\ holder'[n] = IF n = m THEN w ELSE holder[n]
      BY <2>4, ClaimOf
    <3>2. pc'[w] = "url" /\ UNCHANGED row
      BY <2>4 DEF Claim, Goto, Basic, WorkType, tableVars
    <3>3. InHand(m, w)'
      BY <1>1, <3>1, <3>2 DEF Untouched, InHand, Acking
    <3>4. MessageOf(m)'
      BY <3>1, <3>3 DEF MessageOf, Untouched, Finished
    <3>5. \A n \in Messages : holder[n] # w
      BY <2>4 DEF Claim, PublishInv, HoldsOne, Working, Acking
    <3>6. \A n \in Messages : MessageOf(n)'
      BY <2>2, <3>1, <3>4, <3>5
    <3> QED BY <3>6 DEF MessageInv
  <2>5. ASSUME NEW to \in {"failed", "done"}, Finish(w, to),
               to = "done" => pc[w] \in Acking /\ UNCHANGED <<tableVars, published>>
        PROVE  MessageInv'
    <3>1. PICK m \in Messages :
              /\ holder[m] = w
              /\ \A n \in Messages :
                   /\ state'[n] = IF n = m THEN to ELSE state[n]
                   /\ holder'[n] = IF n = m THEN Nobody ELSE holder[n]
      BY <2>5, FinishOf
    <3>2. MessageOf(m)'
      <4>1. holder'[m] \notin Workers
        BY <3>1, PipelineAssumption
      <4>2. to = "done" => Over(Url[m])
        BY <2>5, <3>1 DEF PublishInv, MessageInv, MessageOf, InHand
      <4>3. to = "done" => Over(Url[m])'
        BY <2>5, <4>2 DEF Over, Given, TopicsOf, tableVars
      <4> QED BY <3>1, <4>1, <4>3 DEF MessageOf, Untouched, Finished
    <3>3. \A n \in Messages : n # m => holder[n] # w
      BY <3>1 DEF PublishInv, HoldsOne
    <3>4. \A n \in Messages : MessageOf(n)'
      BY <2>2, <3>1, <3>2, <3>3
    <3> QED BY <3>4 DEF MessageInv
  <2>6. CASE Park(w) \/ Ack(w)
    BY <2>5, <2>6 DEF Park, Ack
  <2> QED BY <1>4, <2>3, <2>4, <2>6, CalmSteps DEF PublishInv
<1> QED BY <1>3, <1>4, NextSteps

\* "Acked only after its matches are written", which a crash, a lost publication
\* or a duplicate breaks, is what the code does without them: the failures of the
\* stages, deleted topics and a second replica that resumes the same article do
\* not make a worker ack a message with a match unpublished.
THEOREM AckedIsPublishedHolds == ASSUME Undisturbed PROVE Spec => []AckedIsPublished
<1>1. Init => Basic /\ PublishInv
  <2> SUFFICES ASSUME Init PROVE PublishInv
    BY BasicInit
  <2>1. HoldsOne /\ LeaseInv
    BY PipelineAssumption DEF Init, Queue!Init, HoldsOne, LeaseInv
  <2>2. ArticleInv /\ Employed
    BY DEF Init, ArticleInv, WorkInv, Employed, Fresh, Acking
  <2>3. TablesInv
    BY PipelineAssumption DEF Init, TablesInv
  <2>4. MessageInv
    BY PipelineAssumption DEF Init, Queue!Init, MessageInv, MessageOf, Untouched, Finished
  <2> QED BY <2>1, <2>2, <2>3, <2>4 DEF PublishInv
<1>2. Basic /\ PublishInv /\ [Next]_vars => (Basic /\ PublishInv)'
  <2> SUFFICES ASSUME Basic, PublishInv, [Next]_vars PROVE (Basic /\ PublishInv)'
    OBVIOUS
  <2>1. HoldsOne' /\ ArticleInv' /\ Employed'
    BY HoldsOneStep, ArticleInvStep, EmployedStep DEF PublishInv
  <2>2. TablesInv' /\ LeaseInv'
    BY TablesInvStep, LeaseInvStep DEF PublishInv
  <2> QED BY BasicStep, MessageInvStep, <2>1, <2>2 DEF PublishInv
<1>3. PublishInv => AckedIsPublished
  <2> SUFFICES ASSUME PublishInv, NEW m \in Messages, NEW t \in topics,
                      state[m] = "done", row[Url[m]] = "processed",
                      <<Url[m], t>> \in stored
               PROVE  published[<<Url[m], t>>] > 0
    BY DEF AckedIsPublished
  <2>1. Over(Url[m]) /\ Url[m] \notin Reddit
    BY DEF PublishInv, MessageInv, MessageOf, Finished, TablesInv
  <2> QED BY <2>1 DEF Over, Given, TopicsOf
<1> QED BY <1>1, <1>2, <1>3, PTL DEF Spec
=============================================================================
