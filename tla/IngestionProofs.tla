--------------------------- MODULE IngestionProofs ----------------------------
(***************************************************************************)
(* Theorems about Ingestion, for every number of sources, articles and     *)
(* Celery processes, every poll interval, buffer size and number of        *)
(* retries and faults.                                                     *)
(***************************************************************************)
EXTENDS Ingestion, TLAPS

-----------------------------------------------------------------------------
(* Type correctness *)

SourceType ==
    /\ kind \in [Sources -> Kinds]
    /\ listed \in SUBSET Articles
    /\ active \in [Sources -> BOOLEAN]
    /\ elapsed \in [Sources -> 0..PollInterval]
    /\ asked \in [Sources -> 0..PollInterval]

BrokerType ==
    /\ beats \in SUBSET Sources
    /\ crawls \in SUBSET (Sources \X (0..MaxRetries))

TaskType ==
    /\ pc \in [Workers -> {"idle", "dispatch", "mark", "fetch", "publish"}]
    /\ src \in [Workers -> Sources \cup {NoSource}]
    /\ \A w \in Workers : pc[w] # "idle" => src[w] # NoSource
    /\ retries \in [Workers -> 0..MaxRetries]
    /\ began \in [Workers -> 0..PollInterval]
    /\ todo \in [Workers -> SUBSET Articles]

PublisherType ==
    /\ buffer \in [Workers -> [Articles -> 0..CountCap]]
    /\ taken \in [Workers -> SUBSET Articles]
    /\ queued \in SUBSET Articles

RestType == db \in {"up", "down"} /\ faults \in 0..MaxFaults

Typed == SourceType /\ BrokerType /\ TaskType /\ PublisherType /\ RestType

LEMMA TypedTypeOK == Typed <=> TypeOK
BY DEF Typed, TypeOK, SourceType, BrokerType, TaskType, PublisherType, RestType

LEMMA TypedInit == Init => Typed
<1> SUFFICES ASSUME Init PROVE Typed
  OBVIOUS
<1> USE IngestionAssumption DEF Init
<1>1. SourceType /\ BrokerType /\ RestType
  BY DEF SourceType, BrokerType, RestType
<1>2. TaskType
  BY DEF TaskType
<1>3. PublisherType
  BY DEF PublisherType, Empty
<1> QED BY <1>1, <1>2, <1>3 DEF Typed

LEMMA FaultType == \A k : RestType /\ Fault(k) => faults' \in 0..MaxFaults
BY IngestionAssumption DEF Fault, RestType

LEMMA OlderType ==
    \A n \in 0..PollInterval : Older(n) \in 0..PollInterval
BY IngestionAssumption DEF Older

LEMMA OlderMonotone ==
    \A m, n \in 0..PollInterval : m <= n => Older(m) <= Older(n)
BY IngestionAssumption DEF Older

LEMMA EndTaskType ==
    ASSUME TaskType, NEW w \in Workers, EndTask(w)
    PROVE  TaskType'
BY IngestionAssumption DEF EndTask, Goto, TaskType

LEMMA RetryType ==
    ASSUME TaskType, BrokerType, NEW w \in Workers, pc[w] # "idle", RetryCrawl(w)
    PROVE  TaskType' /\ crawls' \in SUBSET (Sources \X (0..MaxRetries))
<1>1. TaskType'
  BY EndTaskType DEF RetryCrawl
<1>2. src[w] \in Sources /\ (retries[w] < MaxRetries => retries[w] + 1 \in 0..MaxRetries)
  BY IngestionAssumption DEF TaskType
<1>3. crawls' \in SUBSET (Sources \X (0..MaxRetries))
  BY <1>2 DEF RetryCrawl, BrokerType
<1> QED BY <1>1, <1>3

LEMMA WriteType ==
    ASSUME PublisherType, NEW w \in Workers, NEW b \in [Articles -> 0..CountCap],
           Write(w, b)
    PROVE  /\ buffer' \in [Workers -> [Articles -> 0..CountCap]]
           /\ queued' \in SUBSET Articles
<1>1. Empty \in [Articles -> 0..CountCap]
  BY IngestionAssumption DEF Empty
<1> QED BY <1>1 DEF Write, PublisherType

\* The publishers of the feeds, the admin, the clock, the database.
LEMMA OutsideType ==
    ASSUME Typed,
           \/ \E a \in Articles : Appear(a) \/ Rotate(a)
           \/ \E s \in Sources : SetActive(s)
           \/ Heartbeat \/ DbDown \/ DbUp \/ UNCHANGED vars
    PROVE  Typed'
<1> USE DEF Typed
<1>1. ASSUME NEW a \in Articles, Appear(a) \/ Rotate(a)
      PROVE  Typed'
  BY <1>1 DEF Appear, Rotate, brokerVars, taskVars, publisherVars, SourceType,
              BrokerType, TaskType, PublisherType, RestType
<1>2. ASSUME NEW s \in Sources, SetActive(s)
      PROVE  Typed'
  <2>1. RestType'
    BY <1>2, FaultType DEF SetActive, RestType
  <2>2. SourceType'
    BY <1>2 DEF SetActive, SourceType
  <2> QED BY <1>2, <2>1, <2>2 DEF SetActive, brokerVars, taskVars, publisherVars,
                                  BrokerType, TaskType, PublisherType
<1>3. CASE Heartbeat
  <2>1. SourceType'
    BY <1>3, OlderType DEF Heartbeat, SourceType
  <2>2. TaskType'
    BY <1>3, OlderType DEF Heartbeat, TaskType
  <2> QED BY <1>3, <2>1, <2>2 DEF Heartbeat, publisherVars, BrokerType,
                                  PublisherType, RestType
<1>4. CASE DbDown \/ DbUp
  <2>1. RestType'
    BY <1>4, FaultType DEF DbDown, DbUp, RestType
  <2> QED BY <1>4, <2>1 DEF DbDown, DbUp, sourceVars, brokerVars, taskVars,
                            publisherVars, SourceType, BrokerType, TaskType, PublisherType
<1>5. CASE UNCHANGED vars
  BY <1>5 DEF vars, sourceVars, brokerVars, taskVars, publisherVars, SourceType,
              BrokerType, TaskType, PublisherType, RestType
<1> QED BY <1>1, <1>2, <1>3, <1>4, <1>5

LEMMA DispatcherType ==
    ASSUME Typed, NEW w \in Workers,
           \/ \E s \in Sources : Dispatch(w, s)
           \/ Enqueue(w) \/ EnqueueFails(w) \/ Mark(w)
    PROVE  Typed'
<1> USE DEF Typed
<1>1. ASSUME NEW s \in Sources, Dispatch(w, s)
      PROVE  Typed'
  <2>1. TaskType'
    BY <1>1, IngestionAssumption DEF Dispatch, Goto, TaskType
  <2> QED BY <1>1, <2>1 DEF Dispatch, sourceVars, publisherVars, SourceType,
                            BrokerType, PublisherType, RestType
<1>2. CASE Enqueue(w)
  <2>1. src[w] \in Sources
    BY <1>2 DEF Enqueue, TaskType
  <2>2. SourceType' /\ BrokerType'
    BY <1>2, <2>1, IngestionAssumption DEF Enqueue, SourceType, BrokerType
  <2>3. TaskType'
    BY <1>2 DEF Enqueue, Goto, TaskType
  <2> QED BY <1>2, <2>2, <2>3 DEF Enqueue, publisherVars, PublisherType, RestType
<1>3. CASE EnqueueFails(w)
  BY <1>3, FaultType, EndTaskType
  DEF EnqueueFails, sourceVars, brokerVars, publisherVars, SourceType, BrokerType,
      PublisherType, RestType
<1>4. CASE Mark(w)
  <2>1. SourceType'
    BY <1>4 DEF Mark, SourceType, TaskType
  <2> QED BY <1>4, <2>1, EndTaskType DEF Mark, brokerVars, publisherVars, BrokerType,
                                         PublisherType, RestType
<1> QED BY <1>1, <1>2, <1>3, <1>4

LEMMA CrawlType ==
    ASSUME Typed, NEW w \in Workers,
           \/ \E s \in Sources, r \in 0..MaxRetries : TakeCrawl(w, s, r)
           \/ Fetch(w) \/ RssUnreachable(w) \/ ApiUnreachable(w) \/ RedditUnreachable(w)
           \/ Flush(w) \/ PartialWrite(w) \/ Crash(w)
           \/ \E a \in Articles : Publish(w, a)
    PROVE  Typed'
<1> USE DEF Typed
<1>1. ASSUME NEW s \in Sources, NEW r \in 0..MaxRetries, TakeCrawl(w, s, r)
      PROVE  Typed'
  <2>1. TaskType'
    BY <1>1, IngestionAssumption DEF TakeCrawl, Goto, TaskType
  <2> QED BY <1>1, <2>1 DEF TakeCrawl, sourceVars, publisherVars, SourceType,
                            BrokerType, PublisherType, RestType
<1>2. CASE Fetch(w)
  <2>1. TaskType'
    BY <1>2, EndTaskType DEF Fetch, Entries, Goto, TaskType
  <2> QED BY <1>2, <2>1 DEF Fetch, sourceVars, brokerVars, publisherVars, SourceType,
                            BrokerType, PublisherType, RestType
<1>3. CASE RssUnreachable(w)
  BY <1>3, EndTaskType, FaultType
  DEF RssUnreachable, sourceVars, brokerVars, publisherVars, SourceType, BrokerType,
      PublisherType, RestType
<1>4. CASE ApiUnreachable(w)
  <2>1. TaskType' /\ BrokerType'
    BY <1>4, RetryType DEF ApiUnreachable, BrokerType
  <2> QED BY <1>4, <2>1, FaultType DEF ApiUnreachable, sourceVars, publisherVars,
                                       SourceType, PublisherType, RestType
<1>5. CASE RedditUnreachable(w)
  <2>1. TaskType'
    BY <1>5 DEF RedditUnreachable, Goto, TaskType
  <2> QED BY <1>5, <2>1, FaultType
          DEF RedditUnreachable, sourceVars, brokerVars, publisherVars, SourceType,
              BrokerType, PublisherType, RestType
<1>6. CASE Flush(w)
  <2>1. buffer[w] \in [Articles -> 0..CountCap]
    BY DEF PublisherType
  <2>2. PublisherType'
    BY <1>6, <2>1, WriteType DEF Flush, PublisherType
  <2>3. TaskType' /\ BrokerType'
    BY <1>6, RetryType, EndTaskType DEF Flush, BrokerType
  <2> QED BY <1>6, <2>2, <2>3 DEF Flush, sourceVars, SourceType, RestType
<1>7. CASE PartialWrite(w)
  <2>1. TaskType' /\ BrokerType'
    BY <1>7, RetryType DEF PartialWrite, BrokerType
  <2>2. PublisherType'
    BY <1>7 DEF PartialWrite, PublisherType, Buffered
  <2> QED BY <1>7, <2>1, <2>2, FaultType DEF PartialWrite, sourceVars, SourceType, RestType
<1>8. CASE Crash(w)
  <2>1. PublisherType'
    BY <1>8, IngestionAssumption DEF Crash, PublisherType, Empty
  <2> QED BY <1>8, <2>1, EndTaskType, FaultType
          DEF Crash, sourceVars, brokerVars, SourceType, BrokerType, RestType
<1>9. ASSUME NEW a \in Articles, Publish(w, a)
      PROVE  Typed'
  <2> DEFINE longer == [buffer[w] EXCEPT ![a] = IF @ < CountCap THEN @ + 1 ELSE @]
             full == Length(longer) >= MaxBuffered
  <2>1. longer \in [Articles -> 0..CountCap]
    BY IngestionAssumption DEF PublisherType
  <2> HIDE DEF full
  <2>2. buffer' \in [Workers -> [Articles -> 0..CountCap]] /\ queued' \in SUBSET Articles
    <3>1. CASE Write(w, longer)
      BY <2>1, <3>1, WriteType
    <3>2. CASE buffer' = [buffer EXCEPT ![w] = longer] /\ UNCHANGED queued
      BY <2>1, <3>2 DEF PublisherType
    <3> QED BY <1>9, <3>1, <3>2 DEF Publish, full
  <2>3. PublisherType'
    BY <1>9, <2>2 DEF Publish, PublisherType
  <2>4. TaskType' /\ BrokerType'
    <3>1. CASE RetryCrawl(w)
      BY <1>9, <3>1, RetryType DEF Publish, BrokerType
    <3>2. CASE /\ todo' = [todo EXCEPT ![w] = @ \ {a}]
               /\ UNCHANGED <<pc, src, retries, began, crawls>>
      BY <1>9, <3>2 DEF Publish, TaskType, BrokerType
    <3> QED BY <1>9, <3>1, <3>2 DEF Publish
  <2> QED BY <1>9, <2>3, <2>4 DEF Publish, sourceVars, SourceType, RestType
<1> QED BY <1>1, <1>2, <1>3, <1>4, <1>5, <1>6, <1>7, <1>8, <1>9

LEMMA TypedStep == Typed /\ [Next]_vars => Typed'
BY OutsideType, DispatcherType, CrawlType DEF Next

\* Every step leaves every variable well-typed: a process at work always has a
\* source, and no crawl waits with more retries than max_retries.
THEOREM TypeCorrect == Spec => []TypeOK
<1>1. Init => Typed
  BY TypedInit
<1>2. Typed /\ [Next]_vars => Typed'
  BY TypedStep
<1>3. Typed => TypeOK
  BY TypedTypeOK
<1> QED BY <1>1, <1>2, <1>3, PTL DEF Spec

-----------------------------------------------------------------------------
(* A source is held back only on account of a crawl *)

\* A dispatcher on its way to write last_crawled_at will write a time that is no
\* later than its own crawl, and so no later than the last one.
MarksPast ==
    \A w \in Workers : pc[w] = "mark" => asked[src[w]] <= began[w]

ThrottleInv == MarksPast /\ ThrottledIsCrawled

\* What a process does with its own task changes no other task.
OthersKept(w) ==
    \A v \in Workers : v # w =>
        pc'[v] = pc[v] /\ src'[v] = src[v] /\ began'[v] = began[v]

LEMMA EndTaskOthers ==
    ASSUME TaskType, NEW w \in Workers, EndTask(w)
    PROVE  OthersKept(w) /\ pc'[w] = "idle"
BY DEF EndTask, Goto, TaskType, OthersKept

LEMMA CrawlOthers ==
    ASSUME TaskType, NEW w \in Workers,
           \/ EnqueueFails(w) \/ Fetch(w) \/ RssUnreachable(w) \/ ApiUnreachable(w)
           \/ RedditUnreachable(w) \/ Flush(w) \/ PartialWrite(w) \/ Crash(w)
           \/ \E s \in Sources : Dispatch(w, s)
           \/ \E s \in Sources, r \in 0..MaxRetries : TakeCrawl(w, s, r)
           \/ \E a \in Articles : Publish(w, a)
    PROVE  OthersKept(w)
<1>1. CASE EndTask(w)
  BY <1>1, EndTaskOthers
<1>2. CASE UNCHANGED <<pc, src, began>>
  BY <1>2 DEF OthersKept
<1>3. CASE EnqueueFails(w) \/ RssUnreachable(w) \/ ApiUnreachable(w) \/ Flush(w)
           \/ PartialWrite(w) \/ Crash(w)
  BY <1>1, <1>3 DEF EnqueueFails, RssUnreachable, ApiUnreachable, Flush, PartialWrite,
                    Crash, RetryCrawl
<1>4. ASSUME NEW l, Goto(w, l), UNCHANGED <<src, began>>
      PROVE  OthersKept(w)
  BY <1>4 DEF Goto, TaskType, OthersKept
<1>5. CASE Fetch(w)
  BY <1>1, <1>4, <1>5 DEF Fetch
<1>6. CASE RedditUnreachable(w)
  BY <1>4, <1>6 DEF RedditUnreachable
<1>7. ASSUME NEW s \in Sources, Dispatch(w, s)
      PROVE  OthersKept(w)
  BY <1>7 DEF Dispatch, Goto, TaskType, OthersKept
<1>8. ASSUME NEW s \in Sources, NEW r \in 0..MaxRetries, TakeCrawl(w, s, r)
      PROVE  OthersKept(w)
  BY <1>8 DEF TakeCrawl, Goto, TaskType, OthersKept
<1>9. ASSUME NEW a \in Articles, Publish(w, a)
      PROVE  OthersKept(w)
  BY <1>1, <1>2, <1>9 DEF Publish, RetryCrawl
<1> QED BY <1>3, <1>5, <1>6, <1>7, <1>8, <1>9

LEMMA ThrottleStep ==
    ASSUME Typed, ThrottleInv, [Next]_vars
    PROVE  ThrottleInv'
<1> USE DEF Typed, ThrottleInv, MarksPast, ThrottledIsCrawled
<1>1. CASE Heartbeat
  <2> USE DEF SourceType, TaskType
  <2>1. \A s \in Sources : asked'[s] <= elapsed'[s]
    BY <1>1, OlderMonotone DEF Heartbeat
  <2>2. \A w \in Workers : pc[w] = "mark" =>
            src[w] \in Sources /\ began'[w] = Older(began[w])
    BY <1>1 DEF Heartbeat
  <2>3. \A w \in Workers : pc'[w] = "mark" => asked'[src'[w]] <= began'[w]
    BY <1>1, <2>2, OlderMonotone DEF Heartbeat
  <2> QED BY <2>1, <2>3
<1>2. CASE UNCHANGED <<asked, elapsed, pc, src, began>>
  BY <1>2
<1>3. CASE \/ DbDown \/ DbUp \/ UNCHANGED vars
           \/ \E a \in Articles : Appear(a) \/ Rotate(a)
           \/ \E s \in Sources : SetActive(s)
  BY <1>2, <1>3 DEF DbDown, DbUp, Appear, Rotate, SetActive, vars, sourceVars, taskVars
\* A task that is not about to write the time leaves the others alone.
<1>4. ASSUME NEW w \in Workers, UNCHANGED <<asked, elapsed>>, pc'[w] # "mark",
             OthersKept(w)
      PROVE  ThrottleInv'
  BY <1>4 DEF OthersKept
<1>5. ASSUME NEW w \in Workers,
             \/ EnqueueFails(w) \/ Fetch(w) \/ RssUnreachable(w) \/ ApiUnreachable(w)
             \/ RedditUnreachable(w) \/ Flush(w) \/ PartialWrite(w) \/ Crash(w)
             \/ \E s \in Sources : Dispatch(w, s)
             \/ \E s \in Sources, r \in 0..MaxRetries : TakeCrawl(w, s, r)
             \/ \E a \in Articles : Publish(w, a)
      PROVE  ThrottleInv'
  <2>1. UNCHANGED <<asked, elapsed>>
    BY <1>5 DEF EnqueueFails, Fetch, RssUnreachable, ApiUnreachable, RedditUnreachable,
                Flush, PartialWrite, Crash, Dispatch, TakeCrawl, Publish, sourceVars
  <2>2. pc'[w] # "mark"
    BY <1>5 DEF EnqueueFails, Fetch, RssUnreachable, ApiUnreachable, RedditUnreachable,
                Flush, PartialWrite, Crash, Dispatch, TakeCrawl, Publish, RetryCrawl,
                EndTask, Goto, TaskType
  <2>3. OthersKept(w)
    BY <1>5, CrawlOthers
  <2> QED BY <1>4, <2>1, <2>2, <2>3
<1>6. ASSUME NEW w \in Workers, Enqueue(w)
      PROVE  ThrottleInv'
  <2> USE DEF SourceType, TaskType
  <2>1. \A s \in Sources : asked'[s] <= asked[s] /\ asked'[s] \in Nat
    BY <1>6, IngestionAssumption DEF Enqueue
  <2>2. asked'[src[w]] = 0 /\ UNCHANGED <<elapsed, src, began>>
    BY <1>6 DEF Enqueue
  <2>3. \A v \in Workers : v # w => pc'[v] = pc[v]
    BY <1>6 DEF Enqueue, Goto
  <2>4. \A s \in Sources : asked'[s] <= elapsed'[s]
    BY <2>1, <2>2
  <2>5. ASSUME NEW v \in Workers, pc'[v] = "mark"
        PROVE  asked'[src'[v]] <= began'[v]
    <3>1. CASE v = w
      BY <2>2, <3>1
    <3>2. CASE v # w
      <4>1. src[v] \in Sources /\ asked[src[v]] <= began[v]
        BY <2>3, <2>5, <3>2
      <4> QED BY <2>1, <2>2, <4>1
    <3> QED BY <3>1, <3>2
  <2> QED BY <2>4, <2>5
<1>7. ASSUME NEW w \in Workers, Mark(w)
      PROVE  ThrottleInv'
  <2> USE DEF SourceType, TaskType
  <2>1. UNCHANGED asked /\ asked[src[w]] <= began[w]
    BY <1>7 DEF Mark
  <2>2. \A s \in Sources : asked'[s] <= elapsed'[s]
    BY <1>7, <2>1 DEF Mark
  <2>3. \A v \in Workers : pc'[v] = "mark" =>
            pc[v] = "mark" /\ src'[v] = src[v] /\ began'[v] = began[v]
    BY <1>7 DEF Mark, EndTask, Goto
  <2> QED BY <2>1, <2>2, <2>3
<1> QED BY <1>1, <1>3, <1>5, <1>6, <1>7 DEF Next

\* However dispatchers overlap, fail at the broker or write an older time over a
\* newer one, last_crawled_at is never later than the last crawl that was
\* enqueued: no source waits on account of a crawl nobody asked for.
THEOREM ThrottledWereCrawled == Spec => []ThrottledIsCrawled
<1>1. Init => Typed /\ ThrottleInv
  <2> SUFFICES ASSUME Init PROVE ThrottleInv
    BY TypedInit
  <2> QED BY IngestionAssumption DEF Init, ThrottleInv, MarksPast, ThrottledIsCrawled
<1>2. Typed /\ ThrottleInv /\ [Next]_vars => (Typed /\ ThrottleInv)'
  BY TypedStep, ThrottleStep
<1>3. ThrottleInv => ThrottledIsCrawled
  BY DEF ThrottleInv
<1> QED BY <1>1, <1>2, <1>3, PTL DEF Spec

-----------------------------------------------------------------------------
(* Only a process that dies loses articles *)

LEMMA TakenStep ==
    ASSUME Typed, TakenIsKept, [Next]_vars
    PROVE  TakenIsKept'
<1> USE DEF Typed, TakenIsKept, Buffered, PublisherType
<1>1. CASE UNCHANGED <<buffer, taken>>
  BY <1>1
<1>2. CASE \/ DbDown \/ DbUp \/ Heartbeat \/ UNCHANGED vars
           \/ \E a \in Articles : Appear(a) \/ Rotate(a)
           \/ \E s \in Sources : SetActive(s)
  BY <1>1, <1>2 DEF DbDown, DbUp, Heartbeat, Appear, Rotate, SetActive, vars, publisherVars
<1>3. ASSUME NEW w \in Workers,
             \/ Enqueue(w) \/ EnqueueFails(w) \/ Mark(w)
             \/ Fetch(w) \/ RssUnreachable(w) \/ ApiUnreachable(w) \/ RedditUnreachable(w)
             \/ \E s \in Sources : Dispatch(w, s)
             \/ \E s \in Sources, r \in 0..MaxRetries : TakeCrawl(w, s, r)
      PROVE  TakenIsKept'
  BY <1>1, <1>3 DEF Enqueue, EnqueueFails, Mark, Fetch, RssUnreachable, ApiUnreachable,
                    RedditUnreachable, Dispatch, TakeCrawl, publisherVars
\* What a write leaves out of the queue it leaves in the buffer.
<1>4. ASSUME NEW w \in Workers, NEW b \in [Articles -> 0..CountCap],
             Write(w, b) \/ (buffer' = [buffer EXCEPT ![w] = b] /\ UNCHANGED queued),
             \A v \in Workers : v # w => taken'[v] \subseteq taken[v],
             taken'[w] \subseteq {a \in Articles : b[a] > 0} \ queued'
      PROVE  TakenIsKept'
  <2>1. \A v \in Workers : v # w => buffer'[v] = buffer[v] /\ taken'[v] \subseteq taken[v]
    BY <1>4 DEF Write
  <2>2. taken'[w] \subseteq {a \in Articles : buffer'[w][a] > 0}
    <3>1. CASE buffer' = [buffer EXCEPT ![w] = b]
      BY <1>4, <3>1
    <3>2. CASE queued' = queued \cup {a \in Articles : b[a] > 0}
      BY <1>4, <3>2
    <3> QED BY <1>4, <3>1, <3>2 DEF Write
  <2> QED BY <2>1, <2>2
<1>5. ASSUME NEW w \in Workers, NEW a \in Articles, Publish(w, a)
      PROVE  TakenIsKept'
  <2> DEFINE longer == [buffer[w] EXCEPT ![a] = IF @ < CountCap THEN @ + 1 ELSE @]
  <2>1. longer \in [Articles -> 0..CountCap] /\ longer[a] > 0
    BY IngestionAssumption
  <2>2. \A c \in Articles : buffer[w][c] > 0 => longer[c] > 0
    BY IngestionAssumption
  <2>3. Write(w, longer) \/ (buffer' = [buffer EXCEPT ![w] = longer] /\ UNCHANGED queued)
    BY <1>5 DEF Publish
  <2>4. taken' = [v \in Workers |-> (taken[v] \cup IF v = w THEN {a} ELSE {}) \ queued']
    BY <1>5 DEF Publish
  <2>5. \A v \in Workers : v # w => taken'[v] \subseteq taken[v]
    BY <2>4
  <2>6. taken'[w] \subseteq {c \in Articles : longer[c] > 0} \ queued'
    BY <2>1, <2>2, <2>4
  <2> HIDE DEF longer
  <2> QED BY <1>4, <2>1, <2>3, <2>5, <2>6
<1>6. ASSUME NEW w \in Workers, Flush(w)
      PROVE  TakenIsKept'
  <2> PICK b \in [Articles -> 0..CountCap] : b = buffer[w]
    OBVIOUS
  <2>1. Write(w, b) /\ taken' = [v \in Workers |-> taken[v] \ queued']
    BY <1>6 DEF Flush
  <2>2. \A v \in Workers : v # w => taken'[v] \subseteq taken[v]
    BY <2>1
  <2>3. taken'[w] \subseteq {c \in Articles : b[c] > 0} \ queued'
    BY <2>1
  <2> QED BY <1>4, <2>1, <2>2, <2>3
<1>7. ASSUME NEW w \in Workers, PartialWrite(w)
      PROVE  TakenIsKept'
  BY <1>7 DEF PartialWrite
<1>8. ASSUME NEW w \in Workers, Crash(w)
      PROVE  TakenIsKept'
  BY <1>8 DEF Crash
<1> QED BY <1>2, <1>3, <1>5, <1>6, <1>7, <1>8 DEF Next

\* Through failed and partial flushes, retries in other processes and crawls that
\* end early, what a living process has published is in its buffer or in the queue.
THEOREM OnlyCrashesLose == Spec => []TakenIsKept
<1>1. Init => Typed /\ TakenIsKept
  BY TypedInit DEF Init, TakenIsKept
<1>2. Typed /\ TakenIsKept /\ [Next]_vars => (Typed /\ TakenIsKept)'
  BY TypedStep, TakenStep
<1> QED BY <1>1, <1>2, PTL DEF Spec
=============================================================================
