------------------------------ MODULE Backfill -------------------------------
(***************************************************************************)
(* New topics and the articles that are already stored: create_topic       *)
(* (services/topics.py) queues the Celery task backfill_topic              *)
(* (tasks/maintenance/backfill.py), which matches the topic with the       *)
(* articles table while the consumers of Pipeline fill it with whatever    *)
(* topics their caches hold, purge_dropped_articles (retention.py) empties *)
(* it, and the alert consumer turns published matches into alert rows.     *)
(*                                                                         *)
(* The task is one READ COMMITTED transaction.  Its SELECTs and its writes *)
(* are two steps, between which the others commit; its writes are one.  A  *)
(* topic has one channel, so a match has at most one alert row.            *)
(***************************************************************************)
EXTENDS Pipeline

CONSTANT MaxRetries     \* max_retries of the task

ASSUME BackfillAssumption == MaxRetries \in Nat

VARIABLES
    task,       \* the backfill of each topic: "none" before it is created
    tries,      \* how often it was retried
    candidates, \* the articles its SELECTs returned
    alerts,     \* alert rows: "shown" are inserted as sent, "notified" routed
    old,        \* the articles whose crawled_at is more than 7 days ago
    collected,  \* history: the matches a backfill inserted
    stale,      \* history: hits of the stored articles that were written by
                \* a worker whose cache did not have the topic yet
    copies      \* history: hits of articles Stage 2 took for copies

taskVars == <<task, tries, candidates>>
historyVars == <<collected, stale, copies>>
backfillVars == <<vars, taskVars, alerts, old, historyVars>>

BackfillTypeOK ==
    /\ TypeOK
    /\ task \in [Topics -> {"none", "queued", "read", "done", "lost"}]
    /\ tries \in [Topics -> 0..MaxRetries]
    /\ candidates \in [Topics -> SUBSET Urls]
    /\ alerts \in [Pairs -> {"none", "shown", "notified"}]
    /\ old \in SUBSET {u \in Urls : row[u] \in {"dropped", "processed"}}
    /\ collected \in SUBSET Hits
    /\ stale \in SUBSET Hits
    /\ copies \in SUBSET Hits

BackfillInit ==
    /\ Init
    /\ task = [t \in Topics |-> IF t \in Seeded THEN "done" ELSE "none"]
    /\ tries = [t \in Topics |-> 0]
    /\ candidates = [t \in Topics |-> {}]
    /\ alerts = [p \in Pairs |-> "none"]
    /\ old = {}
    /\ collected = {}
    /\ stale = {}
    /\ copies = {}

-----------------------------------------------------------------------------
(* The consumers and the matched-articles queue *)

\* The workers whose step in this transition writes the row of their article.
Writers == {w \in Workers : /\ pc[w] \in {"drop", "store"} /\ pc'[w] # pc[w]
                            /\ row'[job[w]] # row[job[w]]}

\* The workers that now find a near-copy of their article in the table.
Deduplicated == {w \in Workers :
    /\ pc[w] = "match" /\ pc'[w] = "drop"
    /\ \E v \in Urls : row[v] # "none" /\ Story[v] = Story[job[w]]}

\* A step of Pipeline; the alert rows of a deleted topic go with it.
PipelineStep ==
    /\ Next
    /\ alerts' = [p \in Pairs |-> IF p[2] \in topics \ topics' THEN "none" ELSE alerts[p]]
    /\ stale' = stale \cup {p \in Hits : \E w \in Writers :
                                p[1] = job[w] /\ p[2] \in topics \ cache[w]}
    /\ copies' = copies \cup {p \in Hits : \E w \in Deduplicated :
                                p[1] = job[w] /\ p[2] \in topics}
    /\ UNCHANGED <<taskVars, old, collected>>

\* _create_alerts of the alert consumer: INSERT ... ON CONFLICT DO NOTHING, and
\* only the rows it returns are routed to a channel.
Notify(p) ==
    /\ published[p] > 0
    /\ p[2] \in topics
    /\ alerts[p] = "none"
    /\ alerts' = [alerts EXCEPT ![p] = "notified"]
    /\ UNCHANGED <<vars, taskVars, old, historyVars>>

-----------------------------------------------------------------------------
(* create_topic and backfill_topic *)

\* create_topic commits the topic and queues the task; when the broker fails
\* that is logged and the topic is never backfilled.
CreateTopic(t) ==
    /\ task[t] = "none"
    /\ topics' = topics \cup {t}
    /\ \/ task' = [task EXCEPT ![t] = "queued"] /\ UNCHANGED faults
       \/ task' = [task EXCEPT ![t] = "lost"] /\ Fault("broker")
    /\ UNCHANGED <<queueVars, row, stored, published, workVars, cache, conn, unsent,
                   tries, candidates, alerts, old, historyVars>>

\* Mutant of Found: only articles that went through the whole pipeline.
FoundProcessed(t) == {u \in Urls \ old : row[u] = "processed" /\ <<u, t>> \in Hits}

\* The stored articles of the last seven days over the topic's threshold, whatever
\* their status.  (The code's search can miss some: it is an approximate index's,
\* and stops at CANDIDATES_PER_VECTOR articles for each vector of the topic.)
Found(t) == {u \in Urls \ old : row[u] # "none" /\ <<u, t>> \in Hits}

BackfillRead(t) ==
    /\ task[t] = "queued"
    /\ LET hits == IF t \in topics THEN Found(t) ELSE {}
       IN  /\ candidates' = [candidates EXCEPT ![t] = hits]
           /\ task' = [task EXCEPT ![t] = IF hits = {} THEN "done" ELSE "read"]
    /\ UNCHANGED <<vars, tries, alerts, old, historyVars>>

\* The foreign keys of the rows the task is about to insert.
Insertable(t) == t \in topics /\ \A u \in candidates[t] : row[u] # "none"

\* Mutant of BackfillCommit: the alert rows are left to the alert consumer.
BackfillSilently(t) ==
    /\ task[t] = "read" /\ Insertable(t)
    /\ LET new == (candidates[t] \X {t}) \ stored
       IN  /\ stored' = stored \cup new
           /\ collected' = collected \cup new
    /\ row' = [u \in Urls |-> IF u \in candidates[t] /\ row[u] = "dropped"
                              THEN "processed" ELSE row[u]]
    /\ task' = [task EXCEPT ![t] = "done"]
    /\ candidates' = [candidates EXCEPT ![t] = {}]
    /\ UNCHANGED <<queueVars, topics, published, workVars, cache, conn, unsent, faults,
                   tries, alerts, old, stale, copies>>

\* Matches, promotion of dropped articles and alert rows that are born 'sent',
\* each skipping the rows that exist.
BackfillCommit(t) ==
    /\ task[t] = "read" /\ Insertable(t)
    /\ LET all == candidates[t] \X {t}
           new == all \ stored
       IN  /\ stored' = stored \cup new
           /\ collected' = collected \cup new
           /\ alerts' = [p \in Pairs |-> IF p \in all /\ alerts[p] = "none"
                                         THEN "shown" ELSE alerts[p]]
    /\ row' = [u \in Urls |-> IF u \in candidates[t] /\ row[u] = "dropped"
                              THEN "processed" ELSE row[u]]
    /\ task' = [task EXCEPT ![t] = "done"]
    /\ candidates' = [candidates EXCEPT ![t] = {}]
    /\ UNCHANGED <<queueVars, topics, published, workVars, cache, conn, unsent, faults,
                   tries, old, stale, copies>>

\* Mutant of Retried: one retry more than max_retries.
RetriedOnceMore(t) ==
    /\ task' = [task EXCEPT ![t] = IF tries[t] <= MaxRetries THEN "queued" ELSE "lost"]
    /\ tries' = [tries EXCEPT ![t] = IF @ <= MaxRetries THEN @ + 1 ELSE @]
    /\ candidates' = [candidates EXCEPT ![t] = {}]

\* rollback() and self.retry(): after the last one the task has failed.
Retried(t) ==
    /\ task' = [task EXCEPT ![t] = IF tries[t] < MaxRetries THEN "queued" ELSE "lost"]
    /\ tries' = [tries EXCEPT ![t] = IF @ < MaxRetries THEN @ + 1 ELSE @]
    /\ candidates' = [candidates EXCEPT ![t] = {}]

\* A foreign key fails, or the database does.
BackfillFails(t) ==
    /\ task[t] = "read"
    /\ \/ ~Insertable(t) /\ UNCHANGED faults
       \/ Fault("backfill")
    /\ Retried(t)
    /\ UNCHANGED <<queueVars, tableVars, published, workVars, cache, conn, unsent,
                   alerts, old, historyVars>>

\* The Celery worker dies: the broker has had its ack when the task began.
BackfillDies(t) ==
    /\ task[t] = "read"
    /\ Fault("worker")
    /\ task' = [task EXCEPT ![t] = "lost"]
    /\ candidates' = [candidates EXCEPT ![t] = {}]
    /\ UNCHANGED <<queueVars, tableVars, published, workVars, cache, conn, unsent,
                   tries, alerts, old, historyVars>>

-----------------------------------------------------------------------------
(* Retention *)

\* Seven days pass over a row the consumers are done with.
Age(u) ==
    /\ row[u] \in {"dropped", "processed"} /\ u \notin old
    /\ Fault("age")
    /\ old' = old \cup {u}
    /\ UNCHANGED <<queueVars, tableVars, published, workVars, cache, conn, unsent,
                   taskVars, alerts, historyVars>>

\* Mutant of PurgeDropped: the age alone decides.
PurgeOld(u) ==
    /\ u \in old
    /\ row' = [row EXCEPT ![u] = "none"]
    /\ stored' = {p \in stored : p[1] # u}
    /\ alerts' = [p \in Pairs |-> IF p[1] = u THEN "none" ELSE alerts[p]]
    /\ old' = old \ {u}
    /\ stale' = {p \in stale : p[1] # u}
    /\ UNCHANGED <<queueVars, topics, published, workVars, cache, conn, unsent, faults,
                   taskVars, collected, copies>>

\* purge_dropped_articles: a row promoted meanwhile is not found again under
\* its ctid.
PurgeDropped(u) ==
    /\ u \in old /\ row[u] = "dropped"
    /\ row' = [row EXCEPT ![u] = "none"]
    /\ old' = old \ {u}
    /\ stale' = {p \in stale : p[1] # u}
    /\ UNCHANGED <<queueVars, stored, topics, published, workVars, cache, conn, unsent,
                   faults, taskVars, alerts, collected, copies>>

-----------------------------------------------------------------------------
BackfillNext ==
    \/ PipelineStep
    \/ \E p \in Pairs : Notify(p)
    \/ \E t \in Topics : \/ CreateTopic(t) \/ BackfillRead(t) \/ BackfillCommit(t)
                         \/ BackfillFails(t) \/ BackfillDies(t)
    \/ \E u \in Urls : Age(u) \/ PurgeDropped(u)

BackfillSpec == BackfillInit /\ [][BackfillNext]_backfillVars

-----------------------------------------------------------------------------
(* Properties *)

\* What a stored article is worth to a topic.
Wanted(u, t) == row[u] # "none" /\ u \notin old /\ <<u, t>> \in Hits

\* The gaps between the two ways to a match: an article and a topic that belong
\* together and were both there when the backfill ended have found each other,
\* by the backfill or by a consumer, unless the article was written by a
\* consumer whose topic cache was older than the topic, or Stage 2 had taken
\* it for a copy of a stored one (which may be purged since).  Races of the backfill
\* with inserts, summaries, purges, crashes and resumes open no other gap.
OnlyStaleCachesMiss ==
    \A u \in Urls, t \in topics :
        task[t] = "done" /\ Wanted(u, t) => <<u, t>> \in stored \cup stale \cup copies

\* topics.py:36, backfill.py docstring: no notification is ever sent for a
\* match the backfill found, although a consumer that resumes a passed_dedup
\* article finds the match in the table and publishes it with its own.
BackfillIsSilent ==
    \A p \in collected : alerts[p] # "notified"

\* topics.py:40: a topic matches everything that arrives after its creation.
MatchesFromNowOn ==
    \A u \in Urls, t \in topics :
        task[t] = "done" /\ Wanted(u, t) => <<u, t>> \in stored
=============================================================================
