# TLA+ models of the real-time event intelligence platform

Specifications, model-checking configurations and machine-checked proofs for
this repository: the crawlers and their dispatchers, the PostgreSQL work queue,
the article pipeline, topics and their backfill, narrative discovery, alert
delivery and the WebSocket gateways. `PROJECT.json` lists
components, runs, mutants, hazards and findings, and for every definition the
lines of code it stands for.

    tlc  -config MCWorkQueue_exclusive.cfg MCWorkQueue     one run
    tlapm WorkQueueProofs.tla                              the proofs

## The system

| component | state it keeps | operations | talks to |
|---|---|---|---|
| Ingestion (`tasks/ingestion`) | `sources.last_crawled_at`, the publisher's buffer | heartbeat dispatch, crawl, retry | work queue |
| Work queue (`adapters/queue`) | `queue_messages`: status, attempts, locked_at | publish, claim, ack, retry, fail, reap, purge | everyone |
| Pipeline consumers (`pipeline`) | `articles`, `article_topic_matches`, a topic cache and a connection per process | start, refresh, resume, Stages 0-7 | embedding service, work queue |
| Alert consumers (`alert/consumer.py`, `intelligence_consumer.py`) | `alerts`, `intelligence_alerts` | look up, insert, route, ack | Redis, Celery |
| Gateways (`alert/websocket.py`, `adapters/redis_pubsub.py`) | one socket per user and replica, the subscription | connect, deliver, mark, disconnect, resubscribe | browsers, Redis |
| Notification tasks (`tasks/notifications`) | the alert rows again | SMS with retries, daily digest | Twilio, SMTP |
| Narrative discovery (`tasks/discovery`) | `sub_themes`, snapshots, memberships, an advisory lock, the publisher's buffer | cluster, identify, label, persist, publish | Groq, work queue, dashboard |
| Topics and backfill (`services/topics.py`, `services/discovery.py`, `maintenance/backfill.py`) | `topics`, subtopics, channels, debounce keys | create, edit, delete, trigger, backfill | pipeline's cache, Celery, Redis |
| Retention (`maintenance/retention.py`) | none of its own | purge messages, articles, memberships | all tables |
| API, auth, admin; AI adapters; schema; frontend | - | request handlers, stateless calls, declarations, rendering | - |

An article travels: a crawler publishes it to `raw-articles`; a pipeline
consumer claims it, drops it or stores it with its matches, summarises it,
publishes one `matched-articles` message per topic; an alert consumer turns
the message into one alert row per channel and routes each; a gateway, a
Celery task or the nightly digest delivers it and marks the row. Each hand-over is
a table or a broker, each step can be repeated or cut off by a crash, and no
two of the stores share a transaction. That is where this system is hard:

- **interleaving**: several consumers on one queue, several replicas on one
  URL, a digest and an insert on one table, sockets opened and closed while an
  alert is being written;
- **crashes and restarts** between any two steps; what is redelivered meets
  its own earlier effects;
- **timeouts**: a lease taken back from a worker that is only slow;
- **partial failure**: dead connections, failed flushes, a stage that raises,
  a lost answer to a committed statement;
- **stale state**: a topic cache of up to five minutes, a registry entry read
  before an await, a limit checked before the models are awaited, candidates
  loaded before the model judges them;
- **long histories**: a sub-theme is matched, merged, emptied, revived and
  rejected over many runs, each of which reads only what the last one left.

What makes each component correct: the queue loses nothing and, as long as the
workers hear what became of their statements, never hands one message to two of them; an article is stored once, only moves forward and is
published only when summarised; a message is acked only when its effects are
recorded; the user is told once, and a row says "sent" only if it was; a feed's
articles reach the queue; the dashboard shows what the last committed run
measured and the user was told; a topic finds the stored articles and is never
notified of them.
`PROJECT.json` lists these hazards line by line with the properties for them.

## Modules

| module | models | state and actions |
|---|---|---|
| `LeaseQueue` | abstract: what a queue promises its consumers | a state and a lease holder per message; a holder can put its message in doubt (`Doubt`) |
| `WorkQueue` | `pg_queue.py`, the consumers' claim loop, `purge_queue_messages` | rows with status, attempts and age; a claim is two steps (select and lock, commit); `ack`, `retry`, `fail` go by id alone, and their answer can be lost after the commit (`AckLost`, `RetryLost`, `FailLost`, which put the message in `doubted`); `Reap`, `Purge`, `Tick` |
| `WorkQueueProofs`, `PipelineProofs`, `AlertDeliveryProofs`, `BackfillProofs`, `TopicServiceProofs`, `NarrativesProofs`, `DiscoveryProofs`, `IngestionProofs` | theorems about the module each is named for | |
| `ArticleLifecycle` | abstract: what happens to an article | the row, its matches, what was sent |
| `Pipeline` | `pipeline/*`, `PgEventBus`, `QueuePublisher` over a `LeaseQueue` | a `pc` per consumer follows `run`, `_resume_pending` and `process_article`; one action per stage and per way it fails; `Return` and `Raise` keep apart the two ways to an ack |
| `Gateways` | `websocket.py`, `redis_pubsub.py` | sockets, registry, inbox and delivery in hand per replica |
| `AlertDelivery` | both alert consumers, `sms.py`, `email.py`; extends `Gateways` | queue, consumer `pc`, alert rows, SMS tasks, the digest |
| `Backfill` | `maintenance/backfill.py`, `create_topic`, `purge_dropped_articles`, the insert of the alert consumer; extends `Pipeline` | the task per topic: `BackfillRead` (the SELECTs), `BackfillCommit` (the writes), retry, loss; `alerts`; rows that are `old` |
| `TopicService` | `services/topics.py`, `services/discovery.py` | a `pc` per HTTP request, one step between two awaits; the tables, the two Redis keys with their expiry, the tasks in flight, the schedule's among them |
| `Narratives` | the pure rules of `evolution.py` and `labeling.py` | `ClassifyStatus`, `DeriveEvents`, `IdentityScore`, the optimal matching and who is absorbed; no state |
| `NarrativeLifecycle` | abstract: what a committed run may do to a narrative | stage, named, volume, last run of each |
| `Discovery` | `tasks/discovery/*`, the publisher a Celery process shares, the intelligence consumer, the dashboard's query | rows of `sub_themes` with their latest snapshot; per worker a `pc` and a buffer; `work` is the transaction in progress: candidates, matching, the draft of the tables, events |
| `Ingestion` | `dispatchers.py`, the three crawls, `QueuePublisher` | what a source lists, `last_crawled_at` as ticks since, tasks in the broker, a `pc` and a buffer per Celery process |
| `MCWorkQueue`, `MCPipeline`, `MCAlertDelivery`, `MCBackfill`, `MCTopicService`, `MCDiscovery`, `MCIngestion` | instances for TLC | |

Composition: `Pipeline` and `AlertDelivery` use the *abstract* `LeaseQueue`,
which `WorkQueue` implements (run `queue_exclusive`, theorem
`QueueImplementsLeases`) when a batch fits in the visibility timeout. So a
message has one holder there, and time, batches and late acks are studied in
`WorkQueue` alone. A message in doubt (below) can be handled once more although
it was acked, or by two workers; to `Pipeline` and `AlertDelivery` that is a
second message of the same article or match, which their runs contain. `Backfill` composes the whole of `Pipeline` with a second
writer of the same tables and implements the same `ArticleLifecycle`.
`Discovery` and `Ingestion` each hold the publisher of their process, since
what goes wrong there is that one buffer serves many tasks.

How `Discovery` follows the code: `Start` (topic row and
`pg_try_advisory_xact_lock`), `Cluster` (`_step1_cluster` and the candidates of
`_load_identity_candidates`), `Resolve` (`_resolve_identities`), `Label`
(`_step4_label`, the sunsetter, `_step5_evolution` and `_step6_persist`: one
transaction nobody sees into), `Address` and `Publish` (`_step7_publish`, with the
flush at `MAX_BUFFERED` before the commit), `Commit`, `Flush` (the `finally`).
`Judge` is the fate of one cluster: recognised as rejected before, refused by the
model, or measured. The administrator's deletions (`DeleteThemes`) can fall between the
loading of the candidates and the writes; the run then rolls back (`Vanished`).

How `TopicService` follows the code: a request is one step up to its first
await of a model, Redis or the broker, and one step after it; `PUT` splits where
its DELETE and its INSERTs see different commits. Row locks of
READ COMMITTED make the second of two PATCHes wait for the first, so its writes
are one step.

Abstractions. Time in `WorkQueue` is the age of a row in ticks, counted one
past the largest limit it is compared with; `attempts` likewise. In
`Pipeline` an article is its URL; which topics it matches (`Hits`) and which
articles are near-copies (`Story`) are constants, because embeddings are
functions of the text. In `AlertDelivery` there is one user and one topic. A
match stands for a matched article, or for a snapshot in the intelligence
stream: the two consumers differ in tables, not in control. A total outage of
the database also breaks the queue client and ends the process: it is a
`Crash`. Faults are drawn from a named set and bounded by `MaxFaults`; the
variable `faults` restricts behaviours and is part of no property.

Modelled by what they do: Stage 6 writes the description as summary, as the
orchestrator's `use_description=True` does; `_with_reconnect` does
heal a read but not a write (`rollback()` on the dead connection raises
`InterfaceError` first); `_execute` of the queue client reconnects and repeats
the statement, so a commit whose answer was lost happens twice (`ClaimLost`,
`PublishMatch`, and `Ack`, `Retry` and `Fail` after `AckLost`, `RetryLost`,
`FailLost`). An ack is inside the consumers' `try`: when it is committed and
raises, by a second lost answer or in the client that does not repeat, `retry()`
follows. The model lets an ack that lost its answer twice be sent a third time,
which is more than the code does. The SMS task's `delay()` can lose its answer
too: it raises after the task was enqueued (`RouteSms`). A `TwilioRestException`
is taken to mean that Twilio did not accept the text; any other error of the
call may have come after it did (`SmsLost`), and is not retried.

## Runs

| run | property | what it shows |
|---|---|---|
| `queue_exclusive` | `ExclusiveClaims`, `LeaseKept`, `DoneIsFinal`, `ImplementsLeases` | with handling times that fit the timeout, crashes and lost answers to any statement, leases are exclusive and hold and a finished row stays finished, for every message but those whose ack, retry or fail lost its answer |
| `queue_settles` | `AtLeastOnce`, `Settles` | with workers slower than the timeout nothing is finished unhandled, and everything is finished in the end |
| `pipeline_lifecycle` | `ImplementsArticles`, `OnlyErrorsLose` | two replicas, near-copies, Reddit, malformed messages, every fault: articles follow `ArticleLifecycle`, and none is acked without a trace but by the two errors the code acks |
| `pipeline_recovery` | `OncePerReplica`, `StoredIsSummarised` | what three crashes can and cannot do to one article sent twice |
| `alerts_delivery` | `SentIsDelivered`, `OneText`, `AckedIsRecorded`, `NoStaleEntry` | a match sent twice, two consumers, two gateways, a reconnecting user, any one fault |
| `alerts_digest` | `SentIsDelivered`, `EmailIsSent` | digests that fail or overlap with inserts mark only what they mailed, and mail everything in the end |
| `discovery_lifecycle` | `NoZombies`, `AnnouncedMatches`, `JustifiedMerges`, `NoRefusalShown`, `NothingForgotten`, `ImplementsLifecycle` | overlapping, failing and skipped runs with any clusters, sizes, claims and verdicts: what the dashboard shows and what the user was told follow the narratives' history |
| `topics_requests` | `ChecksHoldUpToRaces`, `PutsReplaceUpToRaces`, `OneDerivation`, `NoBackfillOwed`, `ClicksAreDebounced` | how far checks made before an await are overrun by requests under way together, and what no interleaving breaks |
| `backfill_races` | `OnlyStaleCachesMiss`, `BackfillIsSilent`, `ImplementsArticles` | a backfill, a consumer with crashes and resumes, a purge and a deletion write the same tables: the only stored articles a topic misses were written by a consumer whose cache is older than the topic, or were taken by Stage 2 for a copy of another, and a backfilled match is never notified |
| `ingestion_feeds` | `ThrottledIsCrawled`, `TakenIsKept`, `FeedReachesQueue` | overlapping heartbeats, three kinds of crawl, retries in another process, one outage, crash or lost call: an article that stays in its feed reaches the queue |
| `pipeline_unpublished` | not `AckedIsPublished` | a crash in Stage 7 leaves matches unpublished for ever |
| `backfill_stale` | not `MatchesFromNowOn` | a consumer with a cache older than the topic stores an article after the backfill read the table: nobody matches it |

Every module's type invariant is checked by its first run. The last two runs contradict a sentence of the repository's docs or comments; the
findings in `PROJECT.json` quote it. Each property of a passing run has a
mutant there, a plausible bug of the code that violates it.

Passing runs that deadlock-check are the queue's (its `Tick` never ends).
The other models come to rest when every message, request or run is used up,
so their runs say `CHECK_DEADLOCK FALSE`.

**Bounds.** Queue, leases: two rows, three workers, batches of two, so
that a claim can take one row or both, skip a row another worker has locked, and
keep one waiting behind the other; three attempts, so that a retry sent again
can still return the row; two crashes or lost answers, so that an ack can be
lost and the `retry()` after it too. (More free rows than a batch takes are left
to the proofs, where `BatchSize` is any number.) Queue, liveness: two rows, two workers, two attempts, one fault. Timeouts are one to three ticks, set on either side of
`BatchSize * MaxJob`, the only relation that matters. The purge deletes all its
rows in one step (the code loops over batches of 10 000). Pipeline: two
replicas, three messages of two articles (one sent twice, the second time
malformed, one a near-copy and a Reddit post; two well-formed messages of one URL
are the recovery run's, where both replicas get past Stage 0 with it), two topics of which one can be deleted under a
stale cache, any two faults; publications are counted up to `PublishCap`.
Recovery: three crashes, enough to die once in the loop, once in the resume, and once more
on the other replica. Alerts: the smallest instance in which a match is sent
twice to two consumers, and a user has an old and a new socket on either of two
replicas. Two matches are needed for a digest to overlap with an insert.
`MaxRetries` is 1: one retry, then failure. Backfill: one consumer, two articles that are near-copies,
of which one is sent twice, one old and one new topic, two faults: a crash and
a deletion, or two rows that grow old, are enough for each of the races, and the
purge of the first article lets the second one be taken for a copy of a row
the backfill saw.
Discovery: two workers, two sub-theme ids, two runs of up to two clusters; each
cluster's evidence is one of three (overlap, close centroid, overlap vetoed by
drift) for each sub-theme, so that claims can tie and conflict; sizes 0 and 1,
merged clusters of 2, make every status and a relabelling reachable; `MAX_BUFFERED` is 2,
so that a run's events can be written out before it commits. One fault and one
change of a setting. Two runs are enough for a narrative to be new, empty,
revived, refused and judged again because a new cluster may be empty at once.
Topics: two requests at a time, four in all, a limit of one topic, so that a
check and its use are always close, and discovery followed for one topic
(`Discoverable`). Ingestion: one source of any kind, one
article, two processes, an interval of one heartbeat, a buffer of two.

**Fairness.** Queue: a running consumer's loop goes on, time passes; no
fairness for producers, faults, the purge, or for a handler to succeed.
Pipeline: steps of a running consumer and its periodic refresh, strong fairness
for the refresh because the loop reaches it between any two batches; and a dead
consumer is restarted. The last one is an assumption about the deployment:
`docker-compose.yml:265` says the container "can crash and restart
independently" but gives it no restart policy, and without it the resume at
startup never runs. Ingestion: Beat goes on, a process goes on with its task, the database comes
back (weak); the broker hands a waiting task to some process in the end
(strong, because a process can be busy again and again). Nothing is assumed
of feeds: an article may leave its feed, and `FeedReachesQueue` then asks
nothing. Digest: Celery Beat starts it again and again, and its
steps are taken; nothing is assumed of the mail server but that it does not
fail for ever (`MaxFaults`).

## Proofs

Eight modules hold the theorems; `PROJECT.json` lists them with the property each
states. Every safety property of a passing run is one of them. They hold for every number of rows, workers, articles, topics,
requests, narratives, retries and faults; the only assumptions are the modules'
own (types of the constants, and that a value which stands for "none" is no
member of the set it is added to), and the ones named below. Every type invariant
is a theorem. It is proved from one with more to it: what a process remembers
in each place of its program (`WorkerShape`, `WorkType`, `Carried`), without which
the next step's writes have no type.

**Work queue.** `AtLeastOnceHolds` needs no timing assumption.
`ClaimsAreExclusive`, `LeasesAreKept`, `DoneStaysDone` and `QueueImplementsLeases`
rest on `BatchFitsTimeout == BatchSize * MaxJob <= VisibilityTimeout`, where `MaxJob`
includes the time to ack and, if need be, to reconnect and send again. They speak of messages not in
`doubted`: of a message whose ack, retry or fail was committed and not answered
all four can fail, in the code as in the model. They say that this is the only
exception, and that it stays with that message: the rest of its batch and every
other message keep their leases. Exclusion
rests on the age of the leases: a lease a worker holds must not be reaped, so
`LeaseInv` bounds it. In a batch with *n* rows left, every lease is at most
`(BatchSize - n) * MaxJob + busy` ticks old (`InTime`). That needs batches no
larger than `BatchSize` (`SmallHands`, from a lemma on `Lowest`, the rows with
fewer than `BatchSize` smaller ones), and rows selected by an uncommitted claim
to be still pending (`SelectedPending`). `NoLeaseExpires` is the one place
where the timing assumption enters; it cannot be weakened to
`MaxJob <= VisibilityTimeout`, because the last row of a batch waits for all the
others. `LeaseHolder` maps a row to the worker that has it in a committed batch.

**Pipeline.** `PipelineImplementsArticles`: every step is a step of
`ArticleLifecycle` or a stutter. The abstract steps have guards the code does
not check again (the article is summarised when its match is published, the match
is stored), so `ArticleInv` says what a worker knows at each step of the
articles in its job, its list of articles to resume and its publisher's buffer; it
survives the steps of other replicas because rows only move forward and a match
goes with its topic only (`Forward`). `OnlyErrorsLoseHolds` assumes nothing of
the faults: a worker at `ack` whose connection is not closed has seen or written
its article's row.
`OncePerReplicaHolds` assumes `AtMostOnce`: finitely many replicas and no publication whose answer is lost. It counts, for each match, the
replicas that can still publish it (`Able`): once the article is processed their
number only falls, and each publication uses one up (`Counted`).
`AckedIsPublishedHolds` is the other side of run `pipeline_unpublished`: it
assumes `Undisturbed` (no crash, no dropped connection, no failed publication, no
article sent twice), and with any one of the four dropped the property fails. Stages
that raise, deleted topics and replicas that resume an article somebody else is working on
remain. A message's matches are nowhere, or stored and in its worker's `found`, or
published (`InHand`), and only its own worker writes its article's first row
(`WriterHolds`, `TablesMove`).

**Alerts and gateways.** `MarkedAfterDelivery`, from what the three deliverers
remember between delivering and marking (`Handed`). `AtMostOneText`, from
`SmsOnce`: a match that was not yet inserted is being texted by nobody, and of the
consumers that hold it at most one got its row back from the INSERT.
`AckedAfterRecording`, from what a consumer has established at each step
(`Established`) and that no step unmakes a row (`RowsStay`). `RegistryServed` is
inductive with the gateways' types.

**Backfill.** The module composes `Pipeline`, and its proofs start from those of
`Pipeline`. `BackfillImplementsArticles` adds that nothing is known of a topic before
it is created (`Unborn`), in caches, buffers or tables, so that ids are fresh.
`SilentBackfill`: what is in the queue is stored or its topic is gone
(`SentBacked`), and a match the backfill inserted has its alert row already
(`Silenced`), which the alert consumer's INSERT then meets. `MissesExplained`: from
its read on, what a backfill did not take was written later, by a consumer, and
that one either had the topic in its cache, or is recorded as stale, or took the
article for a copy (`Met`, `Decided`).

**Topics.** `OneDerivationHolds`; `ClicksAreDebouncedHolds`, from `ClickInv`:
while the debounce key is set, the runs sent plus the requests that have read it
as absent and not sent theirs stay within the number of requests (`Sending`);
`NoBackfillOwedHolds`, from `OwedInv`: a topic with a
backfill due is active only while some request is about to dispatch it;
`ChecksHold`, from `CheckInv`: topics plus the requests past the check stay
below limit plus requests, by cardinality. `PutsReplaceHolds`: the bound itself is not
inductive, since a PUT deletes only the rows its snapshot saw and then adds its own. `PutInv`
charges each request whose rows a topic still has to a request of its own (an
injection), one that would delete those rows if it were about to replace the channels;
a PUT that commits deletes what is charged to it, and its slot is free for its own rows.

**Discovery.** `RunInv` says what holds of the
rows, with the latest committed run, and of the draft a run has made with the
run's own number (`RowsHold`): the volume, the last status and the last event of
a row agree (`History`), a shown row was measured by that run (`Measured`), the
text of a refusal labels barred rows only (`Named`). `LabelDrafts` derives the draft
from the rules of evolution, cluster by cluster; `Follows` records how each row
of the draft comes from the table, which is what
`DiscoveryImplementsLifecycle` needs at the commit, when the draft is all that is
left of the run. The lock keeps the table from changing in between, and
`DeleteThemes` waits for the rows' locks. `NothingForgottenHolds` needs only the types.

`JustifiedMergesHolds` rests on `BestIsJustified` of `NarrativesProofs`: if a cluster
without a candidate scores against *k*, then in a best assignment somebody has *k*
(else adding the pair would raise the total), and scores no less with it (else
handing *k* over would). Both compare the totals of two assignments that differ in one
pair. `TotalScore` is a fold, and that a fold is a sum whose terms can be taken out in any
order (`SumsExistLemma`, `TotalOf`) needs an induction over finite sets. Instead of
an induction theorem, which the provers cannot instantiate, these lemmas
take a counterexample that is smallest in the inclusion of finite sets, which
is well-founded (`SmallestSet`). `SomeAssignmentIsBest` says the match always has an
outcome, so neither theorem speaks of nothing.

**Ingestion.** `ThrottledWereCrawled`, from `MarksPast`: a dispatcher will write a
time no later than its own crawl. `OnlyCrashesLose` (`TakenIsKept`) is inductive
with the publisher's types.

Only model-checked: the liveness properties (`Settles`, `StoredIsSummarised`,
`EmailIsSent`, `FeedReachesQueue`), which are out of the prover's reach.

## Read in the code, not given a run

Where the code and a document disagree, or the code does something its reader
would not expect:

- A poison message that kills its worker is offered for ever: `reap_stalled`
  sets rows to pending whatever their attempts (`pg_queue.py:148`), and only
  `retry` compares them with the limit. `README.md:158` says it is parked.
- `locked_at` is set for a whole batch (`pg_queue.py:119`), so a timeout longer
  than the slowest job, all that `pg_queue.py:67-71` asks, is not enough.
- After a lost answer two workers can have one message, against `pg_queue.py:20-22`
  ("Two workers therefore cannot claim the same message"): a `retry()` is
  committed, another worker claims the row, `_execute` (`pg_queue.py:203-214`) sends
  the UPDATE again, and the row is pending under its new holder. An `ack()` that
  is committed and raises is followed by `queue.retry` (`consumer.py:236-241`,
  `alert/consumer.py`), which makes a done row pending. These are the
  messages in `doubted`.
- An exception of Stages 1 to 5 becomes `PipelineError`, which is acked
  (`orchestrator.py:155`, `consumer.py:226-234`): an article met while the embedding
  service restarts is gone unless its feed still lists it at the next crawl,
  against `queue-lld.md:322` and the comment at `consumer.py:237`. The same
  happens when the write of a dropped article fails (`orchestrator.py:136-139`).
  `OnlyErrorsLose` says that these are the only two ways.
- A second discovery run of a topic starts while one is under way, against
  `services/discovery.py:53`: by two triggers that overlap, by a trigger after the
  task's id aged out (`TASK_ID_TTL_SECONDS`), and by the schedule
  (`subtheme_discovery.py:136`), which asks neither key and leaves none. The
  advisory lock makes the later run skip (`Discovery`).
- A consumer that dies between the INSERT of an SMS row and its dispatch leaves
  it pending for ever (`alert/db.py:129`), against `alert-service-lld.md:78`.
- The `finally` of a replaced socket pops the new socket's registry entry
  (`websocket.py:202`), against `websocket.py:47-48`.
- `pipeline-lld.md:120` resumes at Stage 6 an article Stage 0 finds as
  `passed_dedup`; the code acks it as a duplicate (`orchestrator.py:84-88`), and the
  resume at startup is the only way back.
- A write on a dropped connection leaves the adapter closed until the next cache refresh
  ends the process; meanwhile well-formed messages use up their attempts.
- `queue-lld.md:101` calls `failed` terminal, but `ack` and `retry` go by id
  alone and can move a parked row when a lease was reaped.
- `publisher.py` promises delivery in insertion order; a batch is handled in
  the order RETURNING gives. Its buffer also grows past `MAX_BUFFERED` while the
  database is down.
- `runner.py:37` speaks of a clean shutdown; `task.cancel()` cancels the message
  in hand, and `CancelledError` is no `Exception`, so it stays in `processing`
  like after a crash (`Crash` of `AlertDelivery` covers both).
- The SMS task retries `TwilioRestException` only; any other error ends it
  with its row pending (`SmsLost`).
- Discovery: the matching maximises a sum, so two centroid matches can outrank
  one overlap match, against `labeling.py:274-276`; the text of a refusal is shown as
  the narrative's name once the gate is switched off, which `labeling.py:575-579`
  rules out (`NoRefusalShown` is about a gate that stays on); a relabelling that
  fails resets the baseline it is measured by (`persistence.py:127-131`);
  events flushed before the commit are dropped by a consumer that is faster
  than it; `run_at` is taken before the lock, so runs that hardly overlap can be
  stamped in the other order; an unlabelled narrative is announced.
- Topics: PUTs that overlap leave the union of their channels, against
  `api-contracts.md:337`; PATCHes that overlap can store an embedding made of an
  older text; names are compared by `casefold` here and `lower` in SQL, and once a race
  has made duplicates `scalar_one_or_none` raises; a crash after the task is sent leaves
  the trigger unguarded.
- Backfill: the search stops at `CANDIDATES_PER_VECTOR` articles for each vector of
  the topic and goes through an approximate index (`backfill.py:95-106`), so it
  can miss articles that `Found` has: `OnlyStaleCachesMiss` speaks of the races,
  not of the search. The CHECK of `models.py:194` lacks `dropped`, which the migrations add;
  a task acknowledged early and lost is never repeated; the rows born `sent`
  keep a live match of the same article from being notified; a channel added later can be
  notified of a backfilled article by a resume; near-copies Stage 2 dropped are
  promoted like any other.
- Ingestion: a dispatcher enqueues one crawl per feed and can fail between two
  (`dispatchers.py:65-68`), which a source of one feed cannot show; an API source
  whose name is neither of the two known gets `last_crawled_at` without a crawl
  (`dispatchers.py:144-154`; no seeded source does).
- Memberships are kept for 50 runs, which `retention.py` says covers every point
  of a timeline that requests up to 100.

## Plan

Done: queue, pipeline, gateways, alert delivery, discovery, topics, backfill
and ingestion, each with its theorems. Left, in order of worth:

1. A third run and a second gate change in `Discovery`, for which the state
   space has to be cut first.
2. Tickets in `Gateways`; several users in a digest; which topics the fan-out of
   discovery finds due.

Not modelled: API handlers that read, or change one row in one transaction, the
AI adapters (stateless calls; their failures are faults of `Pipeline` and
`TopicService`), schema and configuration (their constraints are part of the
actions), the frontend (the browser is the user of `Gateways`), the purges of
articles after 90 days and of memberships, sentiment and its event, and the
numerical side of discovery (UMAP, HDBSCAN, VADER), of which the models take
any outcome.
