------------------------------- MODULE Discovery -------------------------------
(***************************************************************************)
(* Narrative discovery of one topic (app/tasks/discovery): Celery workers  *)
(* that each run the per-topic task, under an advisory lock, in one        *)
(* transaction; the publisher each worker process keeps                    *)
(* (app/adapters/queue/publisher.py); and the consumer of the events       *)
(* (app/alert/intelligence_consumer.py).                                   *)
(*                                                                         *)
(* Clusters are abstracted to what the rest of a run reads of them: their  *)
(* size (pruned members plus posts) and the evidence that ties them to     *)
(* each known sub-theme.  A label is "none", a "name" or a "refusal", the  *)
(* text the model writes when it calls a cluster off-topic.                *)
(***************************************************************************)
EXTENDS Narratives

CONSTANTS
    Workers, Nobody,
    SubThemes, Absent,  \* a pool of sub-theme ids, and a row not there
    Idle,               \* no run in progress
    MaxClusters, MaxSize,
    Evidence,           \* pairs of Jaccard overlap and cosine similarity
    MaxBuffered,        \* of publisher.py
    MaxRuns,            \* runs that find clusters
    MaxChanges,         \* times the administrator or the user changes a setting
    MaxFaults           \* exceptions, crashes, failed flushes and deletions

ASSUME DiscoveryAssumption ==
    /\ Nobody \notin Workers /\ SubThemes \subseteq Nat
    /\ {MaxClusters, MaxBuffered, MaxRuns} \subseteq Nat \ {0}
    /\ {MaxSize, MaxChanges, MaxFaults} \subseteq Nat
    /\ Evidence \subseteq (0..100) \X (0..100)

VARIABLES
    themes,     \* sub_themes, each row with its latest snapshot
    committed,  \* the runs whose transaction committed
    gate,       \* the dynamic setting subtheme_llm_gate_enabled
    active,     \* the topic's is_active
    changes,    \* how often either was changed
    runs,       \* runs that found clusters
    lock,       \* who holds the advisory lock
    pc,         \* where each worker is
    work,       \* what the run in progress has computed
    buffer,     \* each worker's publisher: events not yet written
    queue,      \* sub-theme-events
    owed,       \* events of committed runs nobody has been alerted to yet
    faults

tableVars == <<themes, committed>>
adminVars == <<gate, active, changes>>
vars == <<tableVars, adminVars, runs, lock, pc, work, buffer, queue, owed, faults>>

Labels == {"none", "name", "refusal"}
Kinds  == {"emerging", "growing", "disappearing"}
Event  == [kind : Kinds, sub : SubThemes, run : 1..MaxRuns]

\* volume, seen, shown and run are the latest snapshot's total_volume, status,
\* label and snapshot_at; base is volume_at_last_label, and named whether
\* label_generated_at is set.  heard is no column: the last of "emerging" and
\* "disappearing" that a run found worth an event.
Row == [status : Statuses, label : Labels, named : BOOLEAN, base : Nat,
        volume : Nat \cup {NoVolume}, seen : Statuses \cup {"none"},
        shown : Labels, run : 0..MaxRuns,
        heard : {"none", "emerging", "disappearing"}]

ASSUME AbsentAssumption == Absent \notin Row

\* Where a worker is while it holds the lock.
Running == {"cluster", "resolve", "label", "address", "publish"}

TypeOK ==
    /\ themes \in [SubThemes -> Row \cup {Absent}]
    /\ committed \subseteq 1..runs /\ runs \in 0..MaxRuns
    /\ gate \in BOOLEAN /\ active \in BOOLEAN /\ changes \in 0..MaxChanges
    /\ lock \in Workers \cup {Nobody}
    /\ lock = Nobody => work = Idle
    /\ pc \in [Workers -> Running \cup {"idle", "flush"}]
    /\ \A w \in Workers : (pc[w] \in Running) = (lock = w)
    /\ buffer \in [Workers -> SUBSET Event]
    /\ queue \in SUBSET Event /\ owed \in SUBSET Event
    /\ faults \in 0..MaxFaults

Blank == [status |-> "new", label |-> "none", named |-> FALSE, base |-> 0,
          volume |-> NoVolume, seen |-> "none", shown |-> "none", run |-> 0,
          heard |-> "none"]

Init ==
    /\ themes = [t \in SubThemes |-> Absent] /\ committed = {}
    /\ gate = TRUE /\ active = TRUE /\ changes = 0
    /\ runs = 0 /\ lock = Nobody
    /\ pc = [w \in Workers |-> "idle"]
    /\ work = Idle
    /\ buffer = [w \in Workers |-> {}]
    /\ queue = {} /\ owed = {} /\ faults = 0

-----------------------------------------------------------------------------
(* What a run makes of one cluster *)

Known == {t \in SubThemes : themes[t] # Absent}

\* The rows the run in progress loaded to find its clusters' identities.
Candidates == {t \in SubThemes : work.known[t] # Absent}

Goto(w, l) == pc' = [pc EXCEPT ![w] = l]

\* The task's finally clause; flushing an empty buffer does nothing.
ToFlush(w) == Goto(w, IF buffer'[w] = {} THEN "idle" ELSE "flush")

\* Mutant of Recognised: a rejected cluster is judged again at every run.
RecognisedNever(row, judge) == FALSE

Recognised(row, judge) == judge /\ row.status = "rejected"

Relabels(row, v) ==
    ~row.named \/ (row.base > 0 /\ GrewBy(row.base, v, RelabelPct))

\* Mutant of Refused: an established narrative can be refused too.
RefusedAny(row, v, verdict, judge) ==
    Relabels(row, v) /\ verdict = "refused" /\ judge

Refused(row, v, verdict, judge) ==
    Relabels(row, v) /\ verdict = "refused" /\ judge /\ ~row.named

Text(row, v, verdict) ==
    IF Relabels(row, v) /\ verdict = "named" THEN "name" ELSE row.label

\* Steps 5 and 6 for a cluster that is kept: status, snapshot and label.
Measure(row, v, relabel, text, r) ==
    LET status == ClassifyStatus(row.volume, v)
        news   == DeriveEvents(row.seen, status) \cap {"emerging", "disappearing"}
    IN  [status |-> status, label |-> text,
         named  |-> row.named \/ (relabel /\ text # "none"),
         base   |-> IF relabel /\ text # "none" THEN v ELSE row.base,
         volume |-> v, seen |-> status, shown |-> text, run |-> r,
         heard  |-> IF news = {} THEN row.heard ELSE CHOOSE k \in news : TRUE]

Judge(row, v, verdict, judge, r) ==
    IF Recognised(row, judge) THEN row
    ELSE IF Refused(row, v, verdict, judge)
    THEN [row EXCEPT !.status = "rejected", !.label = "refusal"]
    ELSE Measure(row, v, Relabels(row, v), Text(row, v, verdict), r)

\* Mutant of Orphans: the statuses that mean a first appearance are forgotten.
OrphansIdle(matched) ==
    {t \in Known \ matched : themes[t].status \in {"growing", "steady", "declining"}}

\* Step 4.5: shown narratives that no cluster matched get an empty one.
Orphans(matched) ==
    {t \in Known \ matched : themes[t].status \notin Hidden}

\* What run r has to tell of sub-theme t, whose row it leaves as row.  The event
\* of a sentiment shift (evolution.py:196-216), which depends on nothing here
\* and changes no status, is left out.
EventsOf(t, row, r) ==
    LET was == IF themes[t] = Absent THEN "none" ELSE themes[t].seen
    IN  IF row.run = r
        THEN {[kind |-> k, sub |-> t, run |-> r] : k \in DeriveEvents(was, row.seen)}
        ELSE {}

-----------------------------------------------------------------------------
(* The task *)

\* Mutant of Start: no advisory lock.
StartUnlocked(w) ==
    /\ pc[w] = "idle" /\ active
    /\ lock' = w /\ work' = [judge |-> gate]
    /\ Goto(w, "cluster")
    /\ UNCHANGED <<tableVars, adminVars, runs, buffer, queue, owed, faults>>

\* The settings are read, the topic is looked up and the lock is tried.
Start(w) ==
    /\ pc[w] = "idle" /\ active /\ lock = Nobody
    /\ lock' = w /\ work' = [judge |-> gate]
    /\ Goto(w, "cluster")
    /\ UNCHANGED <<tableVars, adminVars, runs, buffer, queue, owed, faults>>

\* The topic is paused, or another worker holds its lock.
Skip(w) ==
    /\ pc[w] = "idle" /\ (~active \/ lock # Nobody)
    /\ UNCHANGED <<tableVars, adminVars, runs, lock, work, buffer, queue, owed, faults>>
    /\ ToFlush(w)

\* The connection is closed without a commit: the lock goes, the writes too.
Abandon(w) ==
    /\ lock' = Nobody /\ work' = Idle
    /\ ToFlush(w)
    /\ UNCHANGED <<tableVars, adminVars, runs, queue, owed>>

\* Too few articles, or no clusters among them.
NothingFound(w) ==
    /\ pc[w] = "cluster"
    /\ UNCHANGED <<buffer, faults>>
    /\ Abandon(w)

\* The order of the clusters means nothing: they are listed by what they score
\* with the first sub-theme.
Listed(score, n) ==
    Known # {} => \A c \in 2..n : score[<<c - 1, Min(Known)>>] >= score[<<c, Min(Known)>>]

\* What each cluster scores with each sub-theme, from the articles they share and
\* their centroids.
Scores(n) == [(1..n) \X Known -> {IdentityScore(e[1], e[2]) : e \in Evidence}]

\* Steps 1 to 3: some articles form clusters, the others are noise.
Cluster(w) ==
    /\ pc[w] = "cluster" /\ runs < MaxRuns
    /\ \E n \in 1..MaxClusters :
        \E score \in Scores(n) :
            /\ Listed(score, n)
            /\ work' = [judge |-> work.judge, n |-> n, score |-> score, known |-> themes]
    /\ runs' = runs + 1
    /\ Goto(w, "resolve")
    /\ UNCHANGED <<tableVars, adminVars, lock, buffer, queue, owed, faults>>

\* The rows new clusters get.
Unused == SubThemes \ (Known \cup Candidates)
NewIds(C) == CHOOSE g \in Injection(C, Unused) : TRUE

\* _resolve_identities: each cluster inherits a sub-theme, is folded into the
\* cluster that did, or is new.  Bound: there are ids for the new ones.
Resolve(w) ==
    /\ pc[w] = "resolve"
    /\ \E f \in BestAssignments(work.score, 1..work.n, Candidates) :
        LET gone  == Absorbed(work.score, 1..work.n, Candidates, f)
            fresh == (1..work.n) \ (gone \cup DOMAIN f)
        IN  /\ Cardinality(fresh) <= Cardinality(Unused)
            /\ work' = [judge |-> work.judge, score |-> work.score, known |-> work.known,
                        heir |-> [c \in fresh \cup DOMAIN f |->
                                    IF c \in DOMAIN f THEN f[c] ELSE NewIds(fresh)[c]],
                        into |-> [d \in gone |-> CHOOSE c \in DOMAIN f :
                                    f[c] = BestOf(work.score, Candidates, d)]]
    /\ Goto(w, "label")
    /\ UNCHANGED <<tableVars, adminVars, runs, lock, buffer, queue, owed, faults>>

\* The size of each narrative the run continues or starts: its cluster's members
\* over the similarity threshold, of which there may be none, its posts, and those
\* of the clusters absorbed into it.
Volumes ==
    {v \in [DOMAIN work.heir -> 0..MaxClusters * MaxSize] :
        \A c \in DOMAIN v :
            v[c] <= MaxSize * (1 + Cardinality({d \in DOMAIN work.into : work.into[d] = c}))}

\* What the model answers for each cluster it is asked about: it names it, calls
\* it off-topic, or has no answer after three tries.
Verdicts(asked) == [asked -> {"named", "refused", "silent"}]

\* The clusters whose sub-theme was deleted since the candidates were loaded.
Missed == {c \in DOMAIN work.heir : /\ work.known[work.heir[c]] # Absent
                                    /\ themes[work.heir[c]] = Absent}

\* Steps 4 to 6, with the sizes of the narratives and the model's verdicts.  A
\* deleted row can only be missed by an UPDATE that bars it.
Label(w) ==
    /\ pc[w] = "label"
    /\ LET sub   == work.heir
           row   == [c \in DOMAIN sub |-> IF work.known[sub[c]] = Absent THEN Blank
                                          ELSE work.known[sub[c]]]
           quiet == [t \in Orphans(Range(sub)) |->
                        Measure(themes[t], 0, FALSE, themes[t].label, runs)]
       IN \E volume \in Volumes :
            LET asked == {c \in DOMAIN sub : /\ ~Recognised(row[c], work.judge)
                                             /\ Relabels(row[c], volume[c])}
            IN \E verdict \in Verdicts(asked) :
                LET made  == [c \in DOMAIN sub |->
                                Judge(row[c], volume[c],
                                      IF c \in asked THEN verdict[c] ELSE "silent",
                                      work.judge, runs)]
                    draft == [t \in SubThemes |->
                                IF \E c \in DOMAIN sub \ Missed : sub[c] = t
                                THEN made[CHOOSE c \in DOMAIN sub : sub[c] = t]
                                ELSE IF t \in DOMAIN quiet THEN quiet[t] ELSE themes[t]]
                IN /\ \A c \in Missed : made[c].run # runs
                   /\ work' = [draft |-> draft,
                               events |-> UNION {EventsOf(t, draft[t], runs) :
                                                    t \in {u \in SubThemes : draft[u] # Absent}}]
    /\ Goto(w, "address")
    /\ UNCHANGED <<tableVars, adminVars, runs, lock, buffer, queue, owed, faults>>

\* A narrative of the run was deleted meanwhile: its snapshot has no row to
\* refer to, and the run is rolled back.
Vanished(w) ==
    /\ pc[w] = "label"
    /\ \E c \in Missed : ~Recognised(work.known[work.heir[c]], work.judge)
    /\ UNCHANGED <<buffer, faults>>
    /\ Abandon(w)

\* Step 7 looks the topic up again: one that was paused meanwhile has nobody.
Address(w) ==
    /\ pc[w] = "address"
    /\ work' = IF active THEN work ELSE [work EXCEPT !.events = {}]
    /\ Goto(w, "publish")
    /\ UNCHANGED <<tableVars, adminVars, runs, lock, buffer, queue, owed, faults>>

\* publish(): a full buffer is written out at once, before the commit.
Publish(w) ==
    /\ pc[w] = "publish"
    /\ \E e \in work.events :
        LET b == buffer[w] \cup {e} IN
        /\ work' = [work EXCEPT !.events = @ \ {e}]
        /\ buffer' = [buffer EXCEPT ![w] = IF Cardinality(b) >= MaxBuffered THEN {} ELSE b]
        /\ queue' = IF Cardinality(b) >= MaxBuffered THEN queue \cup b ELSE queue
    /\ UNCHANGED <<tableVars, adminVars, runs, lock, pc, owed, faults>>

Commit(w) ==
    /\ pc[w] = "publish" /\ work.events = {}
    /\ themes' = work.draft /\ committed' = committed \cup {runs}
    /\ owed' = owed \cup {e \in buffer[w] \cup queue : e.run = runs}
    /\ lock' = Nobody /\ work' = Idle
    /\ UNCHANGED <<adminVars, runs, buffer, queue, faults>>
    /\ ToFlush(w)

Fault == faults < MaxFaults /\ faults' = faults + 1

\* An exception anywhere in the run; in publish() it leaves the event buffered.
Fail(w) ==
    /\ Fault /\ lock = w
    /\ \/ buffer' = buffer
       \/ /\ pc[w] = "publish"
          /\ \E e \in work.events :
                /\ Cardinality(buffer[w] \cup {e}) >= MaxBuffered
                /\ buffer' = [buffer EXCEPT ![w] = @ \cup {e}]
    /\ Abandon(w)

Flush(w) ==
    /\ pc[w] = "flush"
    /\ queue' = queue \cup buffer[w]
    /\ buffer' = [buffer EXCEPT ![w] = {}]
    /\ Goto(w, "idle")
    /\ UNCHANGED <<tableVars, adminVars, runs, lock, work, owed, faults>>

\* Mutant of FlushFails: the buffer is emptied all the same.
FlushDrops(w) ==
    /\ Fault /\ pc[w] = "flush"
    /\ Goto(w, "idle")
    /\ buffer' = [buffer EXCEPT ![w] = {}]
    /\ UNCHANGED <<tableVars, adminVars, runs, lock, work, queue, owed>>

\* A failed flush is swallowed; the events wait for the worker's next task.
FlushFails(w) ==
    /\ Fault /\ pc[w] = "flush"
    /\ Goto(w, "idle")
    /\ UNCHANGED <<tableVars, adminVars, runs, lock, work, buffer, queue, owed>>

\* A worker process dies: its transaction, its lock and its buffer with it.
Crash(w) ==
    /\ Fault
    /\ Goto(w, "idle")
    /\ IF lock = w THEN lock' = Nobody /\ work' = Idle ELSE UNCHANGED <<lock, work>>
    /\ buffer' = [buffer EXCEPT ![w] = {}]
    /\ owed' = owed \ buffer[w]
    /\ UNCHANGED <<tableVars, adminVars, runs, queue>>

-----------------------------------------------------------------------------
(* The consumer, the user and the administrator *)

\* An event whose snapshot is not in the table is acknowledged and dropped.
Consume ==
    /\ \E e \in queue :
        /\ queue' = queue \ {e}
        /\ owed' = owed \ {e}
    /\ UNCHANGED <<tableVars, adminVars, runs, lock, pc, work, buffer, faults>>

SetGate ==
    /\ changes < MaxChanges /\ changes' = changes + 1
    /\ gate' = ~gate
    /\ UNCHANGED <<tableVars, active, runs, lock, pc, work, buffer, queue, owed, faults>>

SetActive ==
    /\ changes < MaxChanges /\ changes' = changes + 1
    /\ active' = ~active
    /\ UNCHANGED <<tableVars, gate, runs, lock, pc, work, buffer, queue, owed, faults>>

\* delete_subtheme, delete_topic_subthemes and delete_all_subthemes of the admin
\* API: one row, or all but those a run inserted while the DELETE waited for it;
\* the rows a run has written are locked until it ends.
DeleteThemes ==
    /\ Fault
    /\ \A w \in Workers : pc[w] \notin {"address", "publish"}
    /\ \E S \in SUBSET Known \ {{}} :
        themes' = [t \in SubThemes |-> IF t \in S THEN Absent ELSE themes[t]]
    /\ UNCHANGED <<committed, adminVars, runs, lock, pc, work, buffer, queue, owed>>

Next ==
    \/ \E w \in Workers :
        \/ Start(w) \/ Skip(w) \/ NothingFound(w) \/ Cluster(w) \/ Resolve(w)
        \/ Label(w) \/ Vanished(w) \/ Address(w) \/ Publish(w) \/ Commit(w) \/ Flush(w)
        \/ Fail(w) \/ FlushFails(w) \/ Crash(w)
    \/ Consume \/ SetGate \/ SetActive \/ DeleteThemes

Spec == Init /\ [][Next]_vars

-----------------------------------------------------------------------------
(* What must hold *)

\* COALESCE of the snapshot's label and the row's.
CardLabel(t) == IF themes[t].shown # "none" THEN themes[t].shown ELSE themes[t].label

\* get_topic_intelligence: the cards of the dashboard.
Cards == {t \in Known : themes[t].status \notin Hidden /\ CardLabel(t) # "none"}

Latest == IF committed = {} THEN 0 ELSE Max(committed)

\* Every shown narrative was measured by the latest run that committed, and
\* that run found it non-empty: no card outlives its story, whatever runs fail,
\* overlap or are skipped (the sunsetter, subtheme_discovery.py:326-362).
NoZombies ==
    \A t \in Known : themes[t].status \notin Hidden =>
        /\ themes[t].run = Latest /\ themes[t].volume > 0
        /\ themes[t].seen = themes[t].status

\* Over any sequence of matches, gaps, revivals and refusals, the last of
\* "emerging" and "disappearing" a user was due agrees with the narrative's
\* latest measurement (evolution.py derives events from status edges only).
AnnouncedMatches ==
    \A t \in Known :
        /\ themes[t].volume > 0 => themes[t].heard = "emerging"
        /\ themes[t].volume = 0 => themes[t].heard # "emerging"

\* A cluster is folded into another narrative's cluster only when every
\* sub-theme it has a claim to went to a claim at least as strong: it never
\* loses a second choice it could have had (labeling.py:351-365).
JustifiedMerges ==
    \A w \in Workers : pc[w] = "label" =>
        \A c \in DOMAIN work.into, k \in Candidates :
            work.score[<<c, k>>] > 0 =>
                \E d \in DOMAIN work.heir :
                    /\ work.heir[d] = k
                    /\ work.score[<<d, k>>] >= work.score[<<c, k>>]

\* While the gate stays on, the text with which the model refused a cluster never
\* becomes "the narrative's name on the dashboard" (labeling.py:575-579), however
\* often the cluster comes back, grows, or meets a silent model.
NoRefusalShown ==
    changes = 0 => \A t \in Cards : CardLabel(t) # "refusal"

\* An event of a committed run that was not consumed before the commit is in a
\* publisher's buffer or in the queue until it is delivered, through failed
\* flushes and later runs that roll back; only a crash loses it.
NothingForgotten ==
    owed \subseteq queue \cup UNION {buffer[w] : w \in Workers}

\* What a run that commits leaves of the narratives (NarrativeLifecycle).
Stage(row) == CASE row.status = "rejected" -> "barred"
                [] row.status = "dormant"  -> "quiet"
                [] row.status \in Visible  -> "shown"

Lifecycle == INSTANCE NarrativeLifecycle WITH
    last  <- Latest,
    story <- [t \in SubThemes |->
                IF themes[t] = Absent THEN Absent
                ELSE [stage |-> Stage(themes[t]), named |-> themes[t].named,
                      volume |-> themes[t].volume, at |-> themes[t].run]]

ASSUME StoryAssumption == Absent \notin Lifecycle!Story

\* Discovery implements the lifecycle: committed runs measure what is shown,
\* named narratives are never barred, barred ones stay so while the gate is on.
ImplementsLifecycle == Lifecycle!Spec
=============================================================================
