------------------------------ MODULE Ingestion ------------------------------
(***************************************************************************)
(* Ingestion: the heartbeats of Celery Beat, the dispatchers that throttle *)
(* them (tasks/ingestion/dispatchers.py), the crawls they enqueue          *)
(* (rss_scrapper.py, api_scrapers.py, reddit.py) and the QueuePublisher    *)
(* each Celery process keeps (adapters/queue/publisher.py).                *)
(*                                                                         *)
(* A source has one feed, and an article is listed by one source; the feed *)
(* is what the first max_articles entries show, without what a crawl skips *)
(* (no URL, no text, Hindi).  Time passes in ticks of a heartbeat.  Celery *)
(* acks a task when it begins, so what a process dies with is gone.  Of    *)
(* several waiting tasks that are alike one is kept.  The publisher is     *)
(* connected when its process is up.                                       *)
(***************************************************************************)
EXTENDS Integers, FiniteSets, FiniteSetsExt

CONSTANTS
    Workers,        \* the Celery processes
    Sources,
    Kinds,          \* of "rss", "api", "reddit": the crawls a source can have
    Articles,
    From,           \* the source that lists an article
    PollInterval,   \* poll_interval, in heartbeats
    MaxBuffered,    \* MAX_BUFFERED
    CountCap,       \* where the model stops counting copies in a buffer
    MaxRetries,     \* max_retries of the crawls
    NoSource,
    FaultKinds,     \* which faults can happen, and how many in all
    MaxFaults

ASSUME IngestionAssumption ==
    /\ Kinds \subseteq {"rss", "api", "reddit"}
    /\ From \in [Articles -> Sources]
    /\ PollInterval \in Nat \ {0}
    /\ MaxBuffered \in Nat \ {0} /\ CountCap \in Nat \ {0}
    /\ MaxRetries \in Nat /\ MaxFaults \in Nat
    /\ NoSource \notin Sources

VARIABLES
    kind,       \* the crawl of each source
    listed,     \* the articles their feeds show
    active,     \* sources.is_active
    elapsed,    \* heartbeats since sources.last_crawled_at, up to PollInterval
    asked,      \* history: heartbeats since a crawl was enqueued
    beats,      \* dispatch tasks that wait in the broker
    crawls,     \* crawl tasks that wait, with their retries
    pc, src, retries,   \* what each process does
    began,      \* heartbeats since its dispatcher read the clock
    todo,       \* the entries its crawl has yet to publish
    buffer,     \* its publisher: copies of each article
    taken,      \* history: what its crawls published since it started that
                \* is not in the queue
    queued,     \* the articles raw-articles has had a message for
    db,
    faults

sourceVars == <<kind, listed, active, elapsed, asked>>
brokerVars == <<beats, crawls>>
taskVars == <<pc, src, retries, began, todo>>
publisherVars == <<buffer, taken, queued>>
vars == <<sourceVars, brokerVars, taskVars, publisherVars, db, faults>>

TypeOK ==
    /\ kind \in [Sources -> Kinds]
    /\ listed \in SUBSET Articles
    /\ active \in [Sources -> BOOLEAN]
    /\ elapsed \in [Sources -> 0..PollInterval]
    /\ asked \in [Sources -> 0..PollInterval]
    /\ beats \in SUBSET Sources
    /\ crawls \in SUBSET (Sources \X (0..MaxRetries))
    /\ pc \in [Workers -> {"idle", "dispatch", "mark", "fetch", "publish"}]
    /\ src \in [Workers -> Sources \cup {NoSource}]
    /\ \A w \in Workers : pc[w] # "idle" => src[w] # NoSource
    /\ retries \in [Workers -> 0..MaxRetries]
    /\ began \in [Workers -> 0..PollInterval]
    /\ todo \in [Workers -> SUBSET Articles]
    /\ buffer \in [Workers -> [Articles -> 0..CountCap]]
    /\ taken \in [Workers -> SUBSET Articles]
    /\ queued \in SUBSET Articles
    /\ db \in {"up", "down"}
    /\ faults \in 0..MaxFaults

Empty == [a \in Articles |-> 0]

Init ==
    /\ kind \in [Sources -> Kinds]
    /\ listed = {}
    /\ active = [s \in Sources |-> TRUE]
    /\ elapsed = [s \in Sources |-> PollInterval]
    /\ asked = [s \in Sources |-> PollInterval]
    /\ beats = {}
    /\ crawls = {}
    /\ pc = [w \in Workers |-> "idle"]
    /\ src = [w \in Workers |-> NoSource]
    /\ retries = [w \in Workers |-> 0]
    /\ began = [w \in Workers |-> 0]
    /\ todo = [w \in Workers |-> {}]
    /\ buffer = [w \in Workers |-> Empty]
    /\ taken = [w \in Workers |-> {}]
    /\ queued = {}
    /\ db = "up"
    /\ faults = 0

-----------------------------------------------------------------------------
(* Helpers *)

Fault(k) == k \in FaultKinds /\ faults < MaxFaults /\ faults' = faults + 1

Older(age) == IF age < PollInterval THEN age + 1 ELSE age

Goto(w, l) == pc' = [pc EXCEPT ![w] = l]

\* The task of a process ends, however it does.
EndTask(w) ==
    /\ Goto(w, "idle")
    /\ src' = [src EXCEPT ![w] = NoSource]
    /\ retries' = [retries EXCEPT ![w] = 0]
    /\ began' = [began EXCEPT ![w] = 0]
    /\ todo' = [todo EXCEPT ![w] = {}]

\* Mutant of RetryCrawl: one retry more than max_retries.
RetryOnceMore(w) ==
    /\ crawls' = IF retries[w] <= MaxRetries
                 THEN crawls \cup {<<src[w], retries[w] + 1>>} ELSE crawls
    /\ EndTask(w)

\* self.retry(): the crawl is enqueued again, unless this was its last try.
RetryCrawl(w) ==
    /\ crawls' = IF retries[w] < MaxRetries
                 THEN crawls \cup {<<src[w], retries[w] + 1>>} ELSE crawls
    /\ EndTask(w)

Buffered(w) == {a \in Articles : buffer[w][a] > 0}
Length(b) == FoldSet(LAMBDA a, n : b[a] + n, 0, Articles)

\* Mutant of Write: the buffer is emptied before the INSERT.
WriteEarly(w, b) ==
    /\ buffer' = [buffer EXCEPT ![w] = Empty]
    /\ \/ /\ db = "up"
          /\ queued' = queued \cup {a \in Articles : b[a] > 0}
       \/ /\ db = "down"
          /\ UNCHANGED queued

\* _flush_queue with buffer b: one INSERT per page of the messages.  When it
\* raises, pages before the failing one are in the table, and the buffer stays.
Write(w, b) ==
    \/ /\ db = "up"
       /\ queued' = queued \cup {a \in Articles : b[a] > 0}
       /\ buffer' = [buffer EXCEPT ![w] = Empty]
    \/ /\ db = "down"
       /\ UNCHANGED queued
       /\ buffer' = [buffer EXCEPT ![w] = b]

-----------------------------------------------------------------------------
(* The publishers, the clock and the admin *)

Appear(a) ==
    /\ a \notin listed
    /\ listed' = listed \cup {a}
    /\ UNCHANGED <<kind, active, elapsed, asked, brokerVars, taskVars, publisherVars, db, faults>>

Rotate(a) ==
    /\ a \in listed
    /\ listed' = listed \ {a}
    /\ UNCHANGED <<kind, active, elapsed, asked, brokerVars, taskVars, publisherVars, db, faults>>

\* update_source of the admin API switches a source off and on.
SetActive(s) ==
    /\ Fault("admin")
    /\ active' = [active EXCEPT ![s] = ~@]
    /\ UNCHANGED <<kind, listed, elapsed, asked, brokerVars, taskVars, publisherVars, db>>

\* Two minutes pass: Celery Beat sends a dispatch task for every source.
Heartbeat ==
    /\ beats' = Sources
    /\ elapsed' = [s \in Sources |-> Older(elapsed[s])]
    /\ asked' = [s \in Sources |-> Older(asked[s])]
    /\ began' = [w \in Workers |-> IF pc[w] \in {"dispatch", "mark"}
                                   THEN Older(began[w]) ELSE began[w]]
    /\ UNCHANGED <<kind, listed, active, crawls, pc, src, retries, todo, publisherVars, db, faults>>

-----------------------------------------------------------------------------
(* dispatch_source, dispatch_reddit, dispatch_api *)

Throttled(s) == elapsed[s] < PollInterval

\* The source is read; an exception is logged, and the task is done.
Dispatch(w, s) ==
    /\ pc[w] = "idle" /\ s \in beats
    /\ beats' = beats \ {s}
    /\ IF db = "up" /\ active[s] /\ ~Throttled(s)
       THEN Goto(w, "dispatch") /\ src' = [src EXCEPT ![w] = s]
       ELSE UNCHANGED <<pc, src>>
    /\ UNCHANGED <<sourceVars, crawls, retries, began, todo, publisherVars, db, faults>>

\* crawl.delay(): the crawl is in the broker before last_crawled_at is written.
\* A source has one feed here, and a crawl of its kind.
Enqueue(w) ==
    /\ pc[w] = "dispatch"
    /\ crawls' = crawls \cup {<<src[w], 0>>}
    /\ asked' = [asked EXCEPT ![src[w]] = 0]
    /\ Goto(w, "mark")
    /\ UNCHANGED <<kind, listed, active, elapsed, beats, src, retries, began, todo,
                   publisherVars, db, faults>>

\* Mutant of EnqueueFails: the error is logged around delay() alone.
EnqueueSkipped(w) ==
    /\ pc[w] = "dispatch"
    /\ Fault("broker")
    /\ Goto(w, "mark")
    /\ UNCHANGED <<sourceVars, brokerVars, src, retries, began, todo, publisherVars, db>>

\* The broker is away: logged, and last_crawled_at stays as it is.
EnqueueFails(w) ==
    /\ pc[w] = "dispatch"
    /\ Fault("broker")
    /\ EndTask(w)
    /\ UNCHANGED <<sourceVars, brokerVars, publisherVars, db>>

\* UPDATE sources SET last_crawled_at = now, the time read at the start; an
\* error is logged.
Mark(w) ==
    /\ pc[w] = "mark"
    /\ elapsed' = IF db = "up" THEN [elapsed EXCEPT ![src[w]] = began[w]] ELSE elapsed
    /\ EndTask(w)
    /\ UNCHANGED <<kind, listed, active, asked, brokerVars, publisherVars, db, faults>>

-----------------------------------------------------------------------------
(* crawl_rss_feed, crawl_newsapi, crawl_newsdata, crawl_reddit *)

TakeCrawl(w, s, r) ==
    /\ pc[w] = "idle" /\ <<s, r>> \in crawls
    /\ crawls' = crawls \ {<<s, r>>}
    /\ Goto(w, "fetch")
    /\ src' = [src EXCEPT ![w] = s]
    /\ retries' = [retries EXCEPT ![w] = r]
    /\ UNCHANGED <<sourceVars, beats, began, todo, publisherVars, db, faults>>

\* Mutant of Entries: a process skips the entries it has published already.
EntriesFresh(w) == {a \in Articles \ taken[w] : From[a] = src[w] /\ a \in listed}

\* What the crawl publishes of the feed it reads.
Entries(w) == {a \in Articles : From[a] = src[w] /\ a \in listed}

\* The feed is read.  crawl_rss_feed returns at once, without a flush, when
\* there is nothing in it.
Fetch(w) ==
    /\ pc[w] = "fetch"
    /\ IF Entries(w) = {} /\ kind[src[w]] = "rss"
       THEN EndTask(w)
       ELSE /\ todo' = [todo EXCEPT ![w] = Entries(w)]
            /\ Goto(w, "publish")
            /\ UNCHANGED <<src, retries, began>>
    /\ UNCHANGED <<sourceVars, brokerVars, publisherVars, db, faults>>

\* The publisher of the feed does not answer: feedparser returns no entries.
RssUnreachable(w) ==
    /\ pc[w] = "fetch" /\ kind[src[w]] = "rss"
    /\ Fault("fetch")
    /\ EndTask(w)
    /\ UNCHANGED <<sourceVars, brokerVars, publisherVars, db>>

\* requests.get() or raise_for_status() raises in an API crawl.
ApiUnreachable(w) ==
    /\ pc[w] = "fetch" /\ kind[src[w]] = "api"
    /\ Fault("fetch")
    /\ RetryCrawl(w)
    /\ UNCHANGED <<sourceVars, beats, publisherVars, db>>

\* fetch_subreddit_posts swallows it: crawl_reddit goes on without posts.
RedditUnreachable(w) ==
    /\ pc[w] = "fetch" /\ kind[src[w]] = "reddit"
    /\ Fault("fetch")
    /\ Goto(w, "publish")
    /\ UNCHANGED <<sourceVars, brokerVars, src, retries, began, todo, publisherVars, db>>

\* publish_article of the next entry: appended, and at MaxBuffered flushed.  When
\* that flush raises, crawl_reddit skips the post and goes on with the next; the
\* other crawls are retried, and all leave the entry in the buffer.
Publish(w, a) ==
    /\ pc[w] = "publish" /\ a \in todo[w]
    /\ LET longer == [buffer[w] EXCEPT ![a] = IF @ < CountCap THEN @ + 1 ELSE @]
           full == Length(longer) >= MaxBuffered
       IN  /\ IF full THEN Write(w, longer)
              ELSE buffer' = [buffer EXCEPT ![w] = longer] /\ UNCHANGED queued
           /\ IF full /\ db = "down" /\ kind[src[w]] # "reddit" THEN RetryCrawl(w)
              ELSE /\ todo' = [todo EXCEPT ![w] = @ \ {a}]
                   /\ UNCHANGED <<pc, src, retries, began, crawls>>
    /\ taken' = [v \in Workers |-> (taken[v] \cup IF v = w THEN {a} ELSE {}) \ queued']
    /\ UNCHANGED <<sourceVars, beats, db, faults>>

\* flush_producer at the end of the crawl.
Flush(w) ==
    /\ pc[w] = "publish" /\ todo[w] = {}
    /\ Write(w, buffer[w])
    /\ IF db = "down" /\ Buffered(w) # {} THEN RetryCrawl(w) ELSE EndTask(w) /\ UNCHANGED crawls
    /\ taken' = [v \in Workers |-> taken[v] \ queued']
    /\ UNCHANGED <<sourceVars, beats, db, faults>>

\* The database goes away in a write of several pages: some of them are in.
PartialWrite(w) ==
    /\ pc[w] = "publish" /\ todo[w] = {} /\ db = "up"
    /\ Fault("page")
    /\ \E S \in SUBSET Buffered(w) : queued' = queued \cup S
    /\ RetryCrawl(w)
    /\ taken' = [v \in Workers |-> taken[v] \ queued']
    /\ UNCHANGED <<sourceVars, beats, buffer, db>>

-----------------------------------------------------------------------------
(* Faults *)

DbDown ==
    /\ db = "up" /\ Fault("db") /\ db' = "down"
    /\ UNCHANGED <<sourceVars, brokerVars, taskVars, publisherVars>>

DbUp ==
    /\ db = "down" /\ db' = "up"
    /\ UNCHANGED <<sourceVars, brokerVars, taskVars, publisherVars, faults>>

\* The process dies with its task and its buffer, and is started again.
Crash(w) ==
    /\ pc[w] # "idle" \/ Buffered(w) # {}
    /\ Fault("crash")
    /\ EndTask(w)
    /\ buffer' = [buffer EXCEPT ![w] = Empty]
    /\ taken' = [taken EXCEPT ![w] = {}]
    /\ UNCHANGED <<sourceVars, brokerVars, queued, db>>

-----------------------------------------------------------------------------
Work(w) ==
    \/ Enqueue(w) \/ Mark(w) \/ Fetch(w) \/ Flush(w)
    \/ \E a \in Articles : Publish(w, a)

Next ==
    \/ \E a \in Articles : Appear(a) \/ Rotate(a)
    \/ \E s \in Sources : SetActive(s)
    \/ Heartbeat \/ DbDown \/ DbUp
    \/ \E w \in Workers :
        \/ \E s \in Sources : Dispatch(w, s) \/ \E r \in 0..MaxRetries : TakeCrawl(w, s, r)
        \/ Enqueue(w) \/ EnqueueFails(w) \/ Mark(w)
        \/ Fetch(w) \/ RssUnreachable(w) \/ ApiUnreachable(w) \/ RedditUnreachable(w)
        \/ Flush(w) \/ PartialWrite(w) \/ Crash(w)
        \/ \E a \in Articles : Publish(w, a)

Spec == Init /\ [][Next]_vars

\* Beat keeps sending, a process goes on with its task, the database comes
\* back, and the broker hands its tasks out in turn.
Fairness ==
    /\ WF_vars(Heartbeat) /\ WF_vars(DbUp)
    /\ \A w \in Workers : WF_vars(Work(w))
    /\ \A s \in Sources :
        /\ SF_vars(\E w \in Workers : Dispatch(w, s))
        /\ \A r \in 0..MaxRetries : SF_vars(\E w \in Workers : TakeCrawl(w, s, r))

FairSpec == Spec /\ Fairness

-----------------------------------------------------------------------------
(* Properties *)

\* No source is held back on account of a crawl nobody asked for: whatever
\* dispatchers overlap, fail at the broker or write an older time over a newer
\* one, last_crawled_at is never later than the last crawl that was enqueued.
ThrottledIsCrawled == \A s \in Sources : asked[s] <= elapsed[s]

\* publisher.py: the durability trade.  Only a process that dies loses articles:
\* what its crawls published is in its buffer or in the queue, through failed and
\* partial flushes, retries in other processes, and crawls that end early.
TakenIsKept ==
    \A w \in Workers : taken[w] \subseteq Buffered(w)

\* An article that stays in the feed of a source that stays active reaches the
\* raw-articles queue, although crawls are lost with their processes and are
\* never repeated before the next interval.
FeedReachesQueue ==
    \A a \in Articles :
        a \in listed ~> (a \in queued \/ a \notin listed \/ ~active[From[a]])
=============================================================================
