----------------------------- MODULE TopicService -----------------------------
(***************************************************************************)
(* The topics of one user (app/services/topics.py) and the discovery runs  *)
(* the user triggers (app/services/discovery.py): HTTP requests that       *)
(* interleave wherever the code awaits the database, Redis or the models.  *)
(*                                                                         *)
(* PostgreSQL runs at READ COMMITTED: a statement sees what was committed  *)
(* when it began, and an UPDATE of a topic's row waits for the transaction *)
(* that wrote the row before.  A derivation is what one call of the models *)
(* made of a name and a description: the expanded description, the topic's *)
(* embedding and the subtopics.                                            *)
(***************************************************************************)
EXTENDS Integers, FiniteSets

CONSTANTS
    Requests,       \* requests that can be under way at a time
    Topics,         \* a pool of topic ids, none used twice
    Absent, Deleted,    \* a row not there yet, and one no longer there
    Names, Texts,   \* normalised names, and descriptions
    Patches,        \* bodies of PATCH: records with some of name, text, active
    ChannelSets,    \* bodies of PUT .../channels
    Discoverable,   \* a bound: the topics whose discovery is followed
    Limit,          \* topics a user may have
    MaxRequests,    \* requests a behaviour can have
    MaxFaults       \* failed calls of the broker or the models, and crashes

Derivation == [name : Names, text : Texts, by : 1..MaxRequests]
Topic == [name : Names, text : Texts, active : BOOLEAN, made : Derivation]

ASSUME TopicServiceAssumption ==
    /\ IsFiniteSet(Requests)
    /\ Limit \in Nat \ {0} /\ MaxRequests \in Nat /\ MaxFaults \in Nat
    /\ Absent \notin Topic /\ Deleted \notin Topic /\ Absent # Deleted
    /\ \A p \in Patches :
        /\ DOMAIN p \subseteq {"name", "text", "active"}
        /\ "name" \in DOMAIN p => p.name \in Names
        /\ "text" \in DOMAIN p => p.text \in Texts
        /\ "active" \in DOMAIN p => p.active \in BOOLEAN

VARIABLES
    topics,     \* topics: name, text, active and the derivation stored
    subtopics,  \* topic_subtopics: the derivations whose subtopics are there
    channels,   \* topic_channels: rows <<channel, request that inserted it>>
    pc, req,    \* where each request is, and what it has read or computed
    served,     \* requests so far
    due,        \* topics with articles no backfill was dispatched for
    debounce,   \* the topics whose debounce key is set
    task,       \* the task id remembered for a topic, 0 when there is none
    flying,     \* discovery tasks sent and not finished: <<topic, task id>>
    clicks,     \* history: runs the user sent since the debounce key was last absent
    faults

tables == <<topics, subtopics, channels>>
redis  == <<debounce, task, flying, clicks>>
vars   == <<tables, pc, req, served, due, redis, faults>>

Steps == {"idle", "derive", "write", "dispatch", "put",
          "debounce", "set", "send", "remember"}

Owned == {t \in Topics : topics[t] \notin {Absent, Deleted}}

\* A row of topic_channels; what a request keeps, by the step it is at.
ChannelRow == ({"websocket"} \cup UNION ChannelSets) \X (1..MaxRequests)

NoRequest == [op |-> "none"]

Creating == [op : {"create"}, id : 1..MaxRequests, name : Names, text : Texts]
Patching == [op : {"patch"}, id : 1..MaxRequests, topic : Topics, name : Names, text : Texts,
             patch : Patches, changed : SUBSET {"name", "text", "active"},
             backfill : BOOLEAN, seen : SUBSET Derivation]
Finishing == [op : {"create", "patch"}, id : 1..MaxRequests, topic : Topics, backfill : BOOLEAN]
Putting == [op : {"put"}, id : 1..MaxRequests, topic : Topics, want : ChannelSets,
            seen : SUBSET ChannelRow]
Triggers == [op : {"trigger"}, id : 1..MaxRequests, topic : Topics]

Request == {NoRequest} \cup Creating \cup Patching \cup Finishing \cup Putting \cup Triggers

Carried(step) ==
    CASE step = "idle"     -> {NoRequest}
      [] step = "derive"   -> Creating \cup Patching
      [] step = "write"    -> Patching
      [] step = "dispatch" -> Finishing
      [] step = "put"      -> Putting
      [] step \in {"debounce", "set", "send", "remember"} -> Triggers

TypeOK ==
    /\ topics \in [Topics -> Topic \cup {Absent, Deleted}]
    /\ subtopics \in [Topics -> SUBSET Derivation]
    /\ channels \in [Topics -> SUBSET ChannelRow]
    /\ \A t \in Topics \ Owned : subtopics[t] = {} /\ channels[t] = {}
    /\ pc \in [Requests -> Steps]
    /\ req \in [Requests -> Request]
    /\ \A q \in Requests : req[q] \in Carried(pc[q])
    /\ served \in 0..MaxRequests /\ faults \in 0..MaxFaults
    /\ due \in SUBSET Owned /\ debounce \in SUBSET Topics
    /\ task \in [Topics -> 0..MaxRequests]
    /\ flying \in SUBSET (Topics \X (0..MaxRequests))
    /\ clicks \in [Topics -> Nat]

Init ==
    /\ topics = [t \in Topics |-> Absent]
    /\ subtopics = [t \in Topics |-> {}] /\ channels = [t \in Topics |-> {}]
    /\ pc = [q \in Requests |-> "idle"] /\ req = [q \in Requests |-> NoRequest]
    /\ served = 0 /\ due = {}
    /\ debounce = {} /\ task = [t \in Topics |-> 0] /\ flying = {}
    /\ clicks = [t \in Topics |-> 0]
    /\ faults = 0

-----------------------------------------------------------------------------
(* Helpers *)

\* _find_duplicate_topic: any row with the name, one or more, ends the request.
Taken(name, except) == \E t \in Owned \ except : topics[t].name = name

\* Request number served + 1 begins in slot q.
Begin(q, step, r) ==
    /\ pc[q] = "idle" /\ served < MaxRequests
    /\ served' = served + 1
    /\ pc' = [pc EXCEPT ![q] = step]
    /\ req' = [req EXCEPT ![q] = r]

Goto(q, step) == pc' = [pc EXCEPT ![q] = step]

End(q) ==
    /\ Goto(q, "idle")
    /\ req' = [req EXCEPT ![q] = NoRequest]

Fault == faults < MaxFaults /\ faults' = faults + 1

-----------------------------------------------------------------------------
(* POST /topics *)

\* Mutant of BelowLimit: an off-by-one.
AtLimit == Cardinality(Owned) <= Limit

BelowLimit == Cardinality(Owned) < Limit

Create(q) ==
    /\ \E name \in Names, text \in Texts :
        /\ ~Taken(name, {}) /\ BelowLimit
        /\ Begin(q, "derive", [op |-> "create", id |-> served + 1, name |-> name, text |-> text])
    /\ UNCHANGED <<tables, due, redis, faults>>

\* Insert, subtopics, the websocket channel and commit.
CreateCommit(q) ==
    /\ pc[q] = "derive" /\ req[q].op = "create"
    /\ \E u \in Topics : topics[u] = Absent
    /\ LET t == CHOOSE u \in Topics : topics[u] = Absent
           made == [name |-> req[q].name, text |-> req[q].text, by |-> req[q].id]
       IN /\ topics' = [topics EXCEPT ![t] =
                [name |-> req[q].name, text |-> req[q].text, active |-> TRUE, made |-> made]]
          /\ subtopics' = [subtopics EXCEPT ![t] = {made}]
          /\ channels' = [channels EXCEPT ![t] = {<<"websocket", req[q].id>>}]
          /\ due' = due \cup {t}
          /\ req' = [req EXCEPT ![q] = [op |-> "create", id |-> req[q].id, topic |-> t, backfill |-> TRUE]]
    /\ Goto(q, "dispatch")
    /\ UNCHANGED <<served, redis, faults>>

-----------------------------------------------------------------------------
(* PATCH /topics/{id} *)

Has(p, f) == f \in DOMAIN p

\* Mutant of Reactivates: read after the field was assigned.
ReactivatesLate(p, old) == Has(p, "active") /\ p.active /\ ~p.active

Reactivates(p, old) == Has(p, "active") /\ p.active /\ ~old.active

\* The topic is read, its new name checked, the fields are assigned; only the
\* columns that differ from what was read will be written.
Patch(q) ==
    /\ \E t \in Owned, p \in Patches :
        LET old  == topics[t]
            name == IF Has(p, "name") THEN p.name ELSE old.name
            text == IF Has(p, "text") THEN p.text ELSE old.text
            changed == {f \in DOMAIN p : p[f] # old[f]}
        IN /\ Has(p, "name") => ~Taken(p.name, {t})
           /\ Begin(q, IF changed \cap {"name", "text"} # {} THEN "derive" ELSE "write",
                [op |-> "patch", id |-> served + 1, topic |-> t, name |-> name, text |-> text,
                 patch |-> p, changed |-> changed, backfill |-> Reactivates(p, old),
                 seen |-> subtopics[t]])
    /\ UNCHANGED <<tables, due, redis, faults>>

Derived(q) ==
    /\ pc[q] = "derive" /\ req[q].op = "patch"
    /\ Goto(q, "write")
    /\ UNCHANGED <<tables, req, served, due, redis, faults>>

\* Mutant of Replaced: the subtopics read at first are deleted, not those there
\* when the row is locked.
ReplacedSeen(q, made) == (subtopics[req[q].topic] \ req[q].seen) \cup {made}

\* The UPDATE is flushed, and waits for the row, before the DELETE begins.
Replaced(q, made) == {made}

\* A topic that is paused misses articles from then on.
WriteColumns(q, t, made) ==
    LET new == [f \in {"name", "text", "active"} |->
                    IF f \in req[q].changed THEN req[q].patch[f] ELSE topics[t][f]]
    IN  /\ topics' = [topics EXCEPT ![t] =
                [name |-> new.name, text |-> new.text, active |-> new.active, made |-> made]]
        /\ due' = IF ~new.active \/ made # topics[t].made THEN due \cup {t} ELSE due

\* Autoflush, the subtopics replaced, commit.
PatchCommit(q) ==
    /\ pc[q] = "write" /\ req[q].topic \in Owned
    /\ LET t == req[q].topic
           rewrites == req[q].changed \cap {"name", "text"} # {}
           made == [name |-> req[q].name, text |-> req[q].text, by |-> req[q].id]
       IN /\ WriteColumns(q, t, IF rewrites THEN made ELSE topics[t].made)
          /\ subtopics' = IF rewrites THEN [subtopics EXCEPT ![t] = Replaced(q, made)] ELSE subtopics
          /\ req' = [req EXCEPT ![q] =
                [op |-> "patch", id |-> @.id, topic |-> t, backfill |-> @.backfill \/ rewrites]]
    /\ Goto(q, "dispatch")
    /\ UNCHANGED <<channels, served, redis, faults>>

\* The UPDATE or the refresh finds no row: StaleDataError, a 500.
RowGone(q) ==
    /\ pc[q] \in {"write", "dispatch", "put"} /\ req[q].topic \notin Owned
    /\ End(q)
    /\ UNCHANGED <<tables, served, due, redis, faults>>

\* The topics a request at its last step backfills: its own, if it is active.
ToBackfill(q) ==
    {t \in Owned : pc[q] = "dispatch" /\ req[q].topic = t /\ req[q].backfill /\ topics[t].active}

\* The topic is read again, and the backfill queued.
Dispatch(q) ==
    /\ pc[q] = "dispatch" /\ req[q].topic \in Owned
    /\ due' = due \ ToBackfill(q)
    /\ End(q)
    /\ UNCHANGED <<tables, served, redis, faults>>

\* The models or the broker are unavailable: a 503, or a line in the log.  What
\* the lost backfill would have found stays missing.
CallFails(q) ==
    /\ Fault /\ pc[q] \in {"derive", "dispatch"}
    /\ due' = due \ ToBackfill(q)
    /\ End(q)
    /\ UNCHANGED <<tables, served, redis>>

-----------------------------------------------------------------------------
(* DELETE /topics/{id} and PUT /topics/{id}/channels *)

\* Mutant of Delete: the foreign keys do not cascade.
DeleteRowOnly(q) ==
    /\ pc[q] = "idle" /\ served < MaxRequests /\ served' = served + 1
    /\ \E t \in Owned :
        /\ topics' = [topics EXCEPT ![t] = Deleted]
        /\ due' = due \ {t}
    /\ UNCHANGED <<subtopics, channels, pc, req, redis, faults>>

\* The rows that hang on the topic go with it.
Delete(q) ==
    /\ pc[q] = "idle" /\ served < MaxRequests /\ served' = served + 1
    /\ \E t \in Owned :
        /\ topics' = [topics EXCEPT ![t] = Deleted]
        /\ subtopics' = [subtopics EXCEPT ![t] = {}]
        /\ channels' = [channels EXCEPT ![t] = {}]
        /\ due' = due \ {t}
    /\ UNCHANGED <<pc, req, redis, faults>>

\* The DELETE begins: it will delete the rows it sees now, or wait for the
\* transaction that is deleting them.
PutBegin(q) ==
    /\ \E t \in Owned, want \in ChannelSets :
        Begin(q, "put", [op |-> "put", id |-> served + 1, topic |-> t,
                         want |-> want, seen |-> channels[t]])
    /\ UNCHANGED <<tables, due, redis, faults>>

\* Mutant of PutCommit: the new channels are added to the old ones.
PutAdds(q) ==
    /\ pc[q] = "put" /\ req[q].topic \in Owned
    /\ LET t == req[q].topic
       IN channels' = IF \E r \in channels[t] : r[1] \in req[q].want THEN channels
                      ELSE [channels EXCEPT ![t] = @ \cup (req[q].want \X {req[q].id})]
    /\ End(q)
    /\ UNCHANGED <<topics, subtopics, served, due, redis, faults>>

\* The inserts and the commit, unless one breaks uq_topic_channels_topic_channel.
PutCommit(q) ==
    /\ pc[q] = "put" /\ req[q].topic \in Owned
    /\ LET t == req[q].topic
           kept == channels[t] \ req[q].seen
       IN channels' = IF \E r \in kept : r[1] \in req[q].want THEN channels
                      ELSE [channels EXCEPT ![t] = kept \cup (req[q].want \X {req[q].id})]
    /\ End(q)
    /\ UNCHANGED <<topics, subtopics, served, due, redis, faults>>

-----------------------------------------------------------------------------
(* POST /topics/{id}/discover, and the schedule *)

\* A task that is queued or at work, and whose id has not aged out of Redis.
Running(t) == task[t] # 0 /\ <<t, task[t]>> \in flying

Trigger(q) ==
    /\ \E t \in Owned \cap Discoverable :
        /\ ~Running(t)
        /\ Begin(q, "debounce", [op |-> "trigger", id |-> served + 1, topic |-> t])
    /\ UNCHANGED <<tables, due, redis, faults>>

\* Mutant of CheckDebounce: the key is not read.
CheckNothing(q) ==
    /\ pc[q] = "debounce"
    /\ Goto(q, "set")
    /\ UNCHANGED <<tables, req, served, due, redis, faults>>

\* 429 when the key is set.
CheckDebounce(q) ==
    /\ pc[q] = "debounce"
    /\ IF req[q].topic \in debounce THEN End(q) ELSE Goto(q, "set") /\ UNCHANGED req
    /\ UNCHANGED <<tables, served, due, redis, faults>>

SetDebounce(q) ==
    /\ pc[q] = "set"
    /\ debounce' = debounce \cup {req[q].topic}
    /\ Goto(q, "send")
    /\ UNCHANGED <<tables, req, served, due, task, flying, clicks, faults>>

SendTask(q) ==
    /\ pc[q] = "send"
    /\ LET t == req[q].topic
       IN /\ flying' = flying \cup {<<t, req[q].id>>}
          /\ clicks' = IF t \in debounce THEN [clicks EXCEPT ![t] = @ + 1] ELSE clicks
    /\ Goto(q, "remember")
    /\ UNCHANGED <<tables, req, served, due, debounce, task, faults>>

Remember(q) ==
    /\ pc[q] = "remember"
    /\ task' = [task EXCEPT ![req[q].topic] = req[q].id]
    /\ End(q)
    /\ UNCHANGED <<tables, served, due, debounce, flying, clicks, faults>>

\* The fan-out of run_subtheme_discovery reaches an active topic: it asks no key
\* and leaves none, so its run has no id here.
Schedule ==
    /\ \E t \in Owned \cap Discoverable :
        topics[t].active /\ flying' = flying \cup {<<t, 0>>}
    /\ UNCHANGED <<tables, pc, req, served, due, debounce, task, clicks, faults>>

TaskEnds ==
    /\ \E f \in flying : flying' = flying \ {f}
    /\ UNCHANGED <<tables, pc, req, served, due, debounce, task, clicks, faults>>

\* DEBOUNCE_SECONDS after the last setex.
DebounceExpires ==
    /\ \E t \in debounce :
        /\ debounce' = debounce \ {t}
        /\ clicks' = [clicks EXCEPT ![t] = 0]
    /\ UNCHANGED <<tables, pc, req, served, due, task, flying, faults>>

\* TASK_ID_TTL_SECONDS after the task was remembered, whether it ended or not.
TaskKeyExpires ==
    /\ \E t \in Topics : task[t] # 0 /\ task' = [task EXCEPT ![t] = 0]
    /\ UNCHANGED <<tables, pc, req, served, due, debounce, flying, clicks, faults>>

-----------------------------------------------------------------------------

\* The API process dies under a request: its transaction is rolled back.
Crash(q) ==
    /\ Fault /\ pc[q] # "idle"
    /\ due' = due \ ToBackfill(q)
    /\ End(q)
    /\ UNCHANGED <<tables, served, redis>>

Next ==
    \/ \E q \in Requests :
        \/ Create(q) \/ CreateCommit(q) \/ Patch(q) \/ Derived(q) \/ PatchCommit(q)
        \/ RowGone(q) \/ Dispatch(q) \/ CallFails(q)
        \/ Delete(q) \/ PutBegin(q) \/ PutCommit(q)
        \/ Trigger(q) \/ CheckDebounce(q) \/ SetDebounce(q) \/ SendTask(q) \/ Remember(q)
        \/ Crash(q)
    \/ Schedule \/ TaskEnds \/ DebounceExpires \/ TaskKeyExpires

Spec == Init /\ [][Next]_vars

-----------------------------------------------------------------------------
(* What must hold *)

\* The limit and the name are checked before the models are awaited, so the
\* requests under way can each add one, and no more: the user has at most
\* Limit + |Requests| - 1 topics, and a name at most |Requests| times.
ChecksHoldUpToRaces ==
    /\ Cardinality(Owned) < Limit + Cardinality(Requests)
    /\ \A n \in Names : Cardinality({t \in Owned : topics[t].name = n}) <= Cardinality(Requests)

\* PUT replaces (api-contracts.md:337), up to races: the channels of a topic were
\* never set by more requests than can be under way together.
PutsReplaceUpToRaces ==
    \A t \in Topics : Cardinality({r[2] : r \in channels[t]}) <= Cardinality(Requests)

\* However PATCHes overlap, the subtopics of a topic and its embedding come of
\* one derivation: Stage 3 matches against both (pipeline/stages.py:76).
OneDerivation == \A t \in Owned : subtopics[t] = {topics[t].made}

\* When no request is under way, an active topic is owed no backfill: every
\* change of its text, and every pause, was followed by a dispatch that came
\* after it (unless the dispatch itself failed).
NoBackfillOwed ==
    (\A q \in Requests : pc[q] = "idle") => \A t \in due : ~topics[t].active

\* However fast a user clicks, at most |Requests| runs of a topic are sent while
\* its debounce key stays set (services/discovery.py:58-60): by the triggers that
\* read the key before any of them set it, and by no other.
ClicksAreDebounced == \A t \in Topics : clicks[t] <= Cardinality(Requests)
=============================================================================
