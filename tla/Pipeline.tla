------------------------------ MODULE Pipeline -------------------------------
(***************************************************************************)
(* The pipeline consumers (app/pipeline/consumer.py, orchestrator.py,      *)
(* stages.py) over the raw-articles queue, the articles and                *)
(* article_topic_matches tables (PostgresAdapter) and the matched-articles *)
(* queue (PgEventBus over the buffering QueuePublisher).                   *)
(*                                                                         *)
(* The raw queue is the abstract one of LeaseQueue, which WorkQueue is     *)
(* shown to implement.  A worker takes one message at a time: what a batch *)
(* adds is WorkQueue's matter.  An article is its URL; which topics it     *)
(* would match (Hits) and which articles are near-copies (Story) are given,*)
(* since embeddings are functions of the text.  A database outage stops    *)
(* the queue client too, and with it the process: it is a Crash.  A        *)
(* message that comes back although it was acked (WorkQueue's doubted) is  *)
(* to this module a second message of the same article.                    *)
(***************************************************************************)
EXTENDS Integers, FiniteSets

CONSTANTS
    Messages, Workers, Nobody,
    Urls,           \* the articles
    Url,            \* the article a message carries
    Story,          \* the text of an article: equal for near-copies
    Topics,
    Seeded,         \* the topics there are at the start
    Hits,           \* <<article, topic>> pairs over the topic's threshold
    Reddit,         \* the articles whose source is Reddit
    Malformed,      \* the messages without a required field
    NoUrl,
    MaxAttempts,    \* DEFAULT_MAX_ATTEMPTS
    PublishCap,     \* where the model stops counting publications of a match
    FaultKinds,     \* which faults can happen, and how many in all
    MaxFaults

ASSUME PipelineAssumption ==
    /\ Url \in [Messages -> Urls]
    /\ Story \in [Urls -> Urls]
    /\ Hits \subseteq Urls \X Topics
    /\ Reddit \subseteq Urls
    /\ Seeded \subseteq Topics
    /\ Malformed \subseteq Messages
    /\ NoUrl \notin Urls /\ Nobody \notin Workers
    /\ MaxAttempts \in Nat \ {0}
    /\ PublishCap \in Nat \ {0}
    /\ MaxFaults \in Nat

VARIABLES
    state, holder,  \* raw-articles: status of each message, holder of its lease
    attempts,       \* its attempts
    row,            \* articles.pipeline_status, "none" without a row
    stored,         \* article_topic_matches
    topics,         \* the rows of topics
    published,      \* how often each match went to matched-articles
    pc,             \* where each worker is
    job,            \* the article it is working on
    found,          \* the matched topics it still has to store or publish
    todo,           \* matches of the articles its startup has to resume
    cache,          \* its topic_cache
    conn,           \* its PostgresAdapter's connection
    unsent,         \* what its publisher has buffered and not written
    faults

queueVars == <<state, holder, attempts>>
tableVars == <<row, stored, topics>>
workVars  == <<pc, job, found, todo>>
vars == <<queueVars, tableVars, published, workVars, cache, conn, unsent, faults>>

Pairs == Urls \X Topics

\* The two ways to an ack: process_article returned, or raised a PipelineError
\* that _process_message swallows.
Acking == {"ack", "swallow"}
PCs == {"down", "resuming", "idle", "url", "match", "drop", "store",
        "summarise", "publish"} \cup Acking

TypeOK ==
    /\ state \in [Messages -> {"absent", "pending", "processing", "done", "failed"}]
    /\ holder \in [Messages -> Workers \cup {Nobody}]
    /\ attempts \in [Messages -> 0..MaxAttempts]
    /\ row \in [Urls -> {"none", "passed_dedup", "processed", "dropped"}]
    /\ stored \in SUBSET Pairs
    /\ topics \in SUBSET Topics
    /\ published \in [Pairs -> 0..PublishCap]
    /\ pc \in [Workers -> PCs]
    /\ job \in [Workers -> Urls \cup {NoUrl}]
    /\ found \in [Workers -> SUBSET Topics]
    /\ todo \in [Workers -> SUBSET Pairs]
    /\ cache \in [Workers -> SUBSET Topics]
    /\ conn \in [Workers -> {"open", "broken", "closed"}]
    /\ unsent \in [Workers -> SUBSET Pairs]
    /\ faults \in 0..MaxFaults

Queue == INSTANCE LeaseQueue

Init ==
    /\ Queue!Init
    /\ attempts = [m \in Messages |-> 0]
    /\ row = [u \in Urls |-> "none"]
    /\ stored = {}
    /\ topics = Seeded
    /\ published = [p \in Pairs |-> 0]
    /\ pc = [w \in Workers |-> "down"]
    /\ job = [w \in Workers |-> NoUrl]
    /\ found = [w \in Workers |-> {}]
    /\ todo = [w \in Workers |-> {}]
    /\ cache = [w \in Workers |-> {}]
    /\ conn = [w \in Workers |-> "open"]
    /\ unsent = [w \in Workers |-> {}]
    /\ faults = 0

-----------------------------------------------------------------------------
(* Helpers *)

Fault(k) == k \in FaultKinds /\ faults < MaxFaults /\ faults' = faults + 1

\* The message a worker holds: none while it resumes articles at startup.
Held(w) == {m \in Messages : holder[m] = w}
Resuming(w) == Held(w) = {}

Goto(w, l) == pc' = [pc EXCEPT ![w] = l]

\* process_article or resume_article ends: the message is acked at l, or the
\* startup goes on with its next article.
Leave(w, l) ==
    /\ Goto(w, IF Resuming(w) THEN "resuming" ELSE l)
    /\ found' = [found EXCEPT ![w] = {}]

Return(w) == Leave(w, "ack")
Raise(w)  == Leave(w, "swallow")    \* a PipelineError

\* The worker has finished with its message, and its loop starts again.
Finish(w, to) ==
    /\ \E m \in Held(w) : Queue!End(m, to)
    /\ Goto(w, "idle")
    /\ job' = [job EXCEPT ![w] = NoUrl]
    /\ found' = [found EXCEPT ![w] = {}]
    /\ UNCHANGED <<attempts, todo>>

\* Any other exception: the message goes back, or is parked.
GiveBack(w) ==
    \E m \in Held(w) :
        Finish(w, IF attempts[m] >= MaxAttempts THEN "failed" ELSE "pending")

\* The process is gone, with everything in its memory.
Down(w) ==
    /\ Goto(w, "down")
    /\ job' = [job EXCEPT ![w] = NoUrl]
    /\ found' = [found EXCEPT ![w] = {}]
    /\ todo' = [todo EXCEPT ![w] = {}]
    /\ cache' = [cache EXCEPT ![w] = {}]
    /\ conn' = [conn EXCEPT ![w] = "open"]
    /\ unsent' = [unsent EXCEPT ![w] = {}]
    /\ Queue!Abandon(w)

\* A read heals a connection the server dropped (_with_reconnect).  One the
\* driver has closed raises InterfaceError, which nothing catches.
Readable(w) == conn[w] # "closed" /\ conn' = [conn EXCEPT ![w] = "open"]

\* In a write the handler of the OperationalError calls rollback() on the dead
\* connection: that raises InterfaceError, and the reconnect is never reached.
WriteDies(w) == conn[w] = "broken" /\ conn' = [conn EXCEPT ![w] = "closed"]

\* Mutant of Pending: the query forgets pipeline_status.
PendingAny == {p \in stored : p[1] \notin Reddit}

\* get_pending_summary_articles: an article comes with its matches, so one
\* without any is not found.
Pending == {p \in stored : row[p[1]] = "passed_dedup" /\ p[1] \notin Reddit}

-----------------------------------------------------------------------------
(* The raw queue, its producers and the topics *)

Enqueue ==
    /\ \E m \in Messages : Queue!Enqueue({m})
    /\ UNCHANGED <<attempts, tableVars, published, workVars, cache, conn, unsent, faults>>

\* delete_topic: the matches go with the topic.
DeleteTopic(t) ==
    /\ t \in topics
    /\ topics' = topics \ {t}
    /\ stored' = {p \in stored : p[2] # t}
    /\ Fault("topic")
    /\ UNCHANGED <<queueVars, row, published, workVars, cache, conn, unsent>>

-----------------------------------------------------------------------------
(* Startup and the consumer loop *)

\* Mutant of Start: nothing is resumed.
StartFresh(w) ==
    /\ pc[w] = "down"
    /\ cache' = [cache EXCEPT ![w] = topics]
    /\ Goto(w, "idle")
    /\ UNCHANGED <<queueVars, tableVars, published, job, found, todo, conn, unsent, faults>>

\* run(): the topic cache is loaded, the articles to resume are read.
Start(w) ==
    /\ pc[w] = "down"
    /\ cache' = [cache EXCEPT ![w] = topics]
    /\ todo' = [todo EXCEPT ![w] = Pending]
    /\ Goto(w, "resuming")
    /\ UNCHANGED <<queueVars, tableVars, published, job, found, conn, unsent, faults>>

\* _resume_pending: the next article enters Stage 6, its topics filtered by
\* the cache.
ResumeNext(w) ==
    /\ pc[w] = "resuming"
    /\ \E p \in todo[w] :
        /\ job' = [job EXCEPT ![w] = p[1]]
        /\ found' = [found EXCEPT ![w] = {t \in cache[w] : <<p[1], t>> \in todo[w]}]
        /\ todo' = [todo EXCEPT ![w] = {q \in @ : q[1] # p[1]}]
    /\ Goto(w, "summarise")
    /\ UNCHANGED <<queueVars, tableVars, published, cache, conn, unsent, faults>>

ResumeDone(w) ==
    /\ pc[w] = "resuming" /\ todo[w] = {}
    /\ Goto(w, "idle")
    /\ job' = [job EXCEPT ![w] = NoUrl]
    /\ UNCHANGED <<queueVars, tableVars, published, found, todo, cache, conn, unsent, faults>>

\* _refresh_cache, every five minutes at the top of the loop.
Refresh(w) ==
    /\ pc[w] = "idle"
    /\ cache[w] # topics \/ conn[w] # "open"
    /\ Readable(w)
    /\ cache' = [cache EXCEPT ![w] = topics]
    /\ UNCHANGED <<queueVars, tableVars, published, workVars, unsent, faults>>

\* The refresh finds a closed connection: the exception leaves run().
RefreshDies(w) ==
    /\ pc[w] = "idle" /\ conn[w] = "closed"
    /\ Down(w)
    /\ UNCHANGED <<attempts, tableVars, published, faults>>

\* reap_stalled: leases of dead workers are taken back.
Reap(w) ==
    /\ pc[w] = "idle"
    /\ \E m \in Messages : holder[m] = Nobody /\ Queue!Recover({m})
    /\ UNCHANGED <<attempts, tableVars, published, workVars, cache, conn, unsent, faults>>

\* Mutant of Claim: the message is acked as it is claimed.
ClaimAcked(w) ==
    /\ pc[w] = "idle"
    /\ \E m \in Messages :
        /\ Queue!Move({m}, "pending", "done")
        /\ holder' = [holder EXCEPT ![m] = w]
        /\ attempts' = [attempts EXCEPT ![m] = IF @ < MaxAttempts THEN @ + 1 ELSE @]
        /\ job' = [job EXCEPT ![w] = Url[m]]
    /\ Goto(w, "url")
    /\ UNCHANGED <<tableVars, published, found, todo, cache, conn, unsent, faults>>

Claim(w) ==
    /\ pc[w] = "idle"
    /\ \E m \in Messages :
        /\ Queue!Lease({m}, w)
        /\ attempts' = [attempts EXCEPT ![m] = IF @ < MaxAttempts THEN @ + 1 ELSE @]
        /\ job' = [job EXCEPT ![w] = Url[m]]
    /\ Goto(w, "url")
    /\ UNCHANGED <<tableVars, published, found, todo, cache, conn, unsent, faults>>

\* Mutant of Park: a status the table's CHECK constraint does not list.
ParkAsError(w) ==
    /\ pc[w] = "url" /\ Held(w) \subseteq Malformed
    /\ Finish(w, "error")
    /\ UNCHANGED <<tableVars, published, cache, conn, unsent, faults>>

\* The payload lacks a field: KeyError, the message is parked.
Park(w) ==
    /\ pc[w] = "url" /\ Held(w) \subseteq Malformed
    /\ Finish(w, "failed")
    /\ UNCHANGED <<tableVars, published, cache, conn, unsent, faults>>

Ack(w) ==
    /\ pc[w] \in Acking
    /\ Finish(w, "done")
    /\ UNCHANGED <<tableVars, published, cache, conn, unsent, faults>>

-----------------------------------------------------------------------------
(* process_article *)

\* Stage 0: a URL that has a row is a duplicate, whatever its status.
CheckUrl(w) ==
    /\ pc[w] = "url" /\ Held(w) \cap Malformed = {}
    /\ Readable(w)
    /\ Goto(w, IF row[job[w]] = "none" THEN "match" ELSE "ack")
    /\ UNCHANGED <<queueVars, tableVars, published, job, found, todo, cache, unsent, faults>>

\* Stage 0 on a closed connection: InterfaceError, back to the queue.
CheckFails(w) ==
    /\ pc[w] = "url" /\ Held(w) \cap Malformed = {}
    /\ conn[w] = "closed"
    /\ GiveBack(w)
    /\ UNCHANGED <<tableVars, published, cache, conn, unsent, faults>>

\* Stages 1 to 4: a near-copy of a stored article, dropped ones included, or
\* an article without a topic is dropped.
Match(w) ==
    /\ pc[w] = "match"
    /\ Readable(w)
    /\ LET copy == \E v \in Urls : row[v] # "none" /\ Story[v] = Story[job[w]]
           hits == {t \in cache[w] : <<job[w], t>> \in Hits}
       IN  IF copy \/ hits = {}
           THEN Goto(w, "drop") /\ UNCHANGED found
           ELSE Goto(w, "store") /\ found' = [found EXCEPT ![w] = hits]
    /\ UNCHANGED <<queueVars, tableVars, published, job, todo, cache, unsent, faults>>

\* Stages 1 to 4 raise, the embedding service being down: wrapped in a
\* PipelineError, and acked.
MatchFails(w) ==
    /\ pc[w] = "match"
    /\ Fault("stage")
    /\ Raise(w)
    /\ UNCHANGED <<queueVars, tableVars, published, job, todo, cache, conn, unsent>>

\* store_dropped_article: ON CONFLICT DO NOTHING; a failure is only logged.
Drop(w) ==
    /\ pc[w] = "drop"
    /\ \/ /\ conn[w] = "open"
          /\ row' = [row EXCEPT ![job[w]] = IF @ = "none" THEN "dropped" ELSE @]
          /\ UNCHANGED conn
       \/ WriteDies(w) /\ UNCHANGED row
    /\ Return(w)
    /\ UNCHANGED <<queueVars, stored, topics, published, job, todo, cache, unsent, faults>>

\* Stage 5: article and matches in one transaction.
Store(w) ==
    /\ pc[w] = "store" /\ conn[w] = "open"
    /\ row[job[w]] = "none" /\ found[w] \subseteq topics
    /\ row' = [row EXCEPT ![job[w]] = "passed_dedup"]
    /\ stored' = stored \cup ({job[w]} \X found[w])
    /\ IF job[w] \in Reddit THEN Return(w) ELSE Goto(w, "summarise") /\ UNCHANGED found
    /\ UNCHANGED <<queueVars, topics, published, job, todo, cache, conn, unsent, faults>>

\* Stage 5 raises: another replica stored the URL (unique violation), a topic
\* of the stale cache is deleted (foreign key), or the connection is dead.
StoreFails(w) ==
    /\ pc[w] = "store"
    /\ \/ /\ conn[w] = "open" /\ UNCHANGED conn
          /\ row[job[w]] # "none" \/ ~(found[w] \subseteq topics)
       \/ WriteDies(w)
    /\ Raise(w)
    /\ UNCHANGED <<queueVars, tableVars, published, job, todo, cache, unsent, faults>>

\* Mutant of Summarise: the matches are published before the summary is written.
SummariseLate(w) ==
    /\ pc[w] = "summarise" /\ conn[w] = "open"
    /\ IF found[w] = {} THEN Return(w) ELSE Goto(w, "publish") /\ UNCHANGED found
    /\ UNCHANGED <<queueVars, tableVars, published, job, todo, cache, conn, unsent, faults>>

\* Stage 6: summary and pipeline_status = 'processed'.
Summarise(w) ==
    /\ pc[w] = "summarise" /\ conn[w] = "open"
    /\ row' = [row EXCEPT ![job[w]] = "processed"]
    /\ IF found[w] = {} THEN Return(w) ELSE Goto(w, "publish") /\ UNCHANGED found
    /\ UNCHANGED <<queueVars, stored, topics, published, job, todo, cache, conn, unsent, faults>>

\* Stage 6 on a dead connection raises what is no PipelineError: the message
\* goes back, and a startup dies of it.
SummariseFails(w) ==
    /\ pc[w] = "summarise"
    /\ \/ WriteDies(w) /\ GiveBack(w) /\ UNCHANGED <<cache, unsent>>
       \/ conn[w] = "broken" /\ Resuming(w) /\ Down(w) /\ UNCHANGED attempts
    /\ UNCHANGED <<tableVars, published, faults>>

\* The matches S reach matched-articles n times.
Count(S, n) ==
    published' = [p \in Pairs |->
        IF p \notin S THEN published[p]
        ELSE IF published[p] + n > PublishCap THEN PublishCap ELSE published[p] + n]

\* Stage 7, one match: published and flushed, with what an earlier failure
\* left in the buffer.  A commit whose answer is lost is sent again.
PublishMatch(w) ==
    /\ pc[w] = "publish"
    /\ \E t \in found[w] :
        /\ LET batch == unsent[w] \cup {<<job[w], t>>}
           IN  \/ Count(batch, 1) /\ UNCHANGED faults
               \/ Count(batch, 2) /\ Fault("publish")
        /\ IF found[w] = {t} THEN Return(w)
           ELSE /\ found' = [found EXCEPT ![w] = @ \ {t}]
                /\ UNCHANGED pc
    /\ unsent' = [unsent EXCEPT ![w] = {}]
    /\ UNCHANGED <<queueVars, tableVars, job, todo, cache, conn>>

\* The flush raises: the match stays in the buffer, the rest are given up.
PublishFails(w) ==
    /\ pc[w] = "publish"
    /\ \E t \in found[w] : unsent' = [unsent EXCEPT ![w] = @ \cup {<<job[w], t>>}]
    /\ Fault("publish")
    /\ Raise(w)
    /\ UNCHANGED <<queueVars, tableVars, published, job, todo, cache, conn>>

-----------------------------------------------------------------------------
(* Faults *)

Crash(w) ==
    /\ pc[w] # "down"
    /\ Fault("crash")
    /\ Down(w)
    /\ UNCHANGED <<attempts, tableVars, published>>

\* The server or a pooler drops the adapter's connection; nobody notices yet.
BreakConn(w) ==
    /\ pc[w] # "down" /\ conn[w] = "open"
    /\ Fault("conn")
    /\ conn' = [conn EXCEPT ![w] = "broken"]
    /\ UNCHANGED <<queueVars, tableVars, published, workVars, cache, unsent>>

-----------------------------------------------------------------------------
Step(w) ==
    \/ Start(w) \/ ResumeNext(w) \/ ResumeDone(w)
    \/ Claim(w) \/ Park(w) \/ Ack(w)
    \/ CheckUrl(w) \/ CheckFails(w)
    \/ Match(w) \/ Drop(w)
    \/ Store(w) \/ StoreFails(w)
    \/ Summarise(w) \/ SummariseFails(w)
    \/ PublishMatch(w)

Next ==
    \/ Enqueue
    \/ \E t \in Topics : DeleteTopic(t)
    \/ \E w \in Workers :
        \/ Start(w) \/ ResumeNext(w) \/ ResumeDone(w)
        \/ Refresh(w) \/ RefreshDies(w) \/ Reap(w)
        \/ Claim(w) \/ Park(w) \/ Ack(w)
        \/ CheckUrl(w) \/ CheckFails(w)
        \/ Match(w) \/ MatchFails(w) \/ Drop(w)
        \/ Store(w) \/ StoreFails(w)
        \/ Summarise(w) \/ SummariseFails(w)
        \/ PublishMatch(w) \/ PublishFails(w)
        \/ Crash(w) \/ BreakConn(w)

Spec == Init /\ [][Next]_vars

\* A running worker makes progress and its periodic refresh comes round.  A
\* worker that died is started again: docker-compose.yml:265 counts on it ("it
\* can crash and restart") but leaves the restart policy to the deployment.
Fairness ==
    \A w \in Workers : /\ WF_vars(Step(w))
                       /\ SF_vars(Refresh(w)) /\ SF_vars(RefreshDies(w))

FairSpec == Spec /\ Fairness

-----------------------------------------------------------------------------
(* Properties *)

\* The matches matched-articles has at least one message for.
Sent == {p \in Pairs : published[p] > 0}

Articles == INSTANCE ArticleLifecycle WITH sent <- Sent

\* The tables and the matched-articles queue behave like ArticleLifecycle:
\* whatever crashes, redeliveries and races of replicas happen, a row is
\* written once and only moves forward, and a match is published only if it is
\* in the table and its news article is summarised.
ImplementsArticles == Articles!Spec

\* A match is published no more often than there are replicas, although articles
\* reach Stage 7 by two ways, the loop and the resume at startup, and their
\* messages are redelivered after crashes: the alerts' UNIQUE key has no more
\* to absorb.
OncePerReplica == \A p \in Pairs : published[p] <= Cardinality(Workers)

\* A message is acked for an article that left no row only by the two errors
\* the code acks on purpose: a PipelineError of an early stage, and the write of
\* a dropped article that failed and was logged.  Crashes, redeliveries,
\* failed publications, stale caches and the other replica lose nothing.
OnlyErrorsLose ==
    [][\A m \in Messages :
        state[m] # "done" /\ state'[m] = "done" /\ row[Url[m]] = "none" =>
            \E w \in Workers :
                /\ holder[m] = w
                /\ pc[w] = "swallow" \/ (pc[w] = "ack" /\ conn[w] = "closed")]_vars

\* A news article that was stored and not summarised is taken up again, if not
\* by its own message then by the startup of a consumer.
StoredIsSummarised ==
    \A u \in Urls \ Reddit : row[u] = "passed_dedup" ~> row[u] = "processed"

\* event_bus.py:37: a message is acked only after its matches are written to
\* matched-articles.
AckedIsPublished ==
    \A m \in Messages, t \in topics :
        state[m] = "done" /\ row[Url[m]] = "processed" /\ <<Url[m], t>> \in stored
            => published[<<Url[m], t>>] > 0
=============================================================================
