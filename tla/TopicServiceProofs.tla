-------------------------- MODULE TopicServiceProofs --------------------------
(***************************************************************************)
(* Theorems about TopicService, for every number of requests under way,    *)
(* every body a request can have, every limit and any number of faults.    *)
(***************************************************************************)
EXTENDS TopicService, FiniteSetTheorems, TLAPS

-----------------------------------------------------------------------------
(* Type correctness *)

TableType ==
    /\ topics \in [Topics -> Topic \cup {Absent, Deleted}]
    /\ subtopics \in [Topics -> SUBSET Derivation]
    /\ channels \in [Topics -> SUBSET ChannelRow]
    /\ \A t \in Topics \ Owned : subtopics[t] = {} /\ channels[t] = {}
    /\ due \in SUBSET Owned

RequestType ==
    /\ pc \in [Requests -> Steps]
    /\ req \in [Requests -> Request]
    /\ \A q \in Requests : req[q] \in Carried(pc[q])
    /\ served \in 0..MaxRequests

RedisType ==
    /\ debounce \in SUBSET Topics
    /\ task \in [Topics -> 0..MaxRequests]
    /\ flying \in SUBSET (Topics \X (0..MaxRequests))
    /\ clicks \in [Topics -> Nat]

FaultType == faults \in 0..MaxFaults

\* What a PATCH will write, its body has a value for.
FieldsGiven ==
    \A q \in Requests :
        req[q].op = "patch" /\ pc[q] \in {"derive", "write"} =>
            req[q].changed \subseteq DOMAIN req[q].patch

Typed == TableType /\ RequestType /\ RedisType /\ FaultType /\ FieldsGiven

LEMMA TypedTypeOK == Typed => TypeOK
BY DEF Typed, TypeOK, TableType, RequestType, RedisType, FaultType

LEMMA Bounds == MaxRequests \in Nat /\ MaxFaults \in Nat
BY TopicServiceAssumption

LEMMA CarriedAt ==
    /\ Carried("idle") = {NoRequest} /\ Carried("derive") = Creating \cup Patching
    /\ Carried("write") = Patching /\ Carried("dispatch") = Finishing
    /\ Carried("put") = Putting
    /\ \A s \in {"debounce", "set", "send", "remember"} : Carried(s) = Triggers
BY DEF Carried

LEMMA CarriedRequest == \A s \in Steps : Carried(s) \subseteq Request
BY DEF Carried, Steps, Request

LEMMA TopicNotGone == \A x \in Topic : x \notin {Absent, Deleted}
BY TopicServiceAssumption

LEMMA OwnedTopic ==
    ASSUME TableType
    PROVE  \A t \in Owned : t \in Topics /\ topics[t] \in Topic
BY DEF TableType, Owned

LEMMA TypedInit == Init => Typed
<1> SUFFICES ASSUME Init PROVE Typed
  OBVIOUS
<1> USE Bounds DEF Init
<1>1. Owned = {}
  BY DEF Owned
<1>2. TableType
  BY <1>1 DEF TableType
<1>3. RedisType /\ FaultType
  <2>1. task \in [Topics -> 0..MaxRequests] /\ FaultType
    BY DEF FaultType
  <2>2. flying \in SUBSET (Topics \X (0..MaxRequests)) /\ debounce \in SUBSET Topics
    OBVIOUS
  <2>3. clicks \in [Topics -> Nat]
    OBVIOUS
  <2> QED BY <2>1, <2>2, <2>3 DEF RedisType
<1>4. RequestType /\ FieldsGiven
  <2>1. \A q \in Requests : pc[q] = "idle" /\ req[q] = NoRequest
    OBVIOUS
  <2>2. \A q \in Requests : req[q] \in Carried(pc[q])
    BY <2>1, CarriedAt
  <2>3. req \in [Requests -> Request]
    BY DEF Request
  <2> QED BY <2>1, <2>2, <2>3 DEF RequestType, FieldsGiven, Steps, NoRequest
<1> QED BY <1>2, <1>3, <1>4 DEF Typed

\* A request begins: at a step of its own, with what that step carries.
LEMMA BeginType ==
    ASSUME RequestType, FieldsGiven, NEW q \in Requests,
           NEW step \in Steps \ {"idle"}, NEW r \in Carried(step), Begin(q, step, r),
           r.op = "patch" => r.changed \subseteq DOMAIN r.patch
    PROVE  RequestType' /\ FieldsGiven'
BY Bounds, CarriedRequest DEF Begin, RequestType, FieldsGiven

\* Or it goes on with what it carries, or with something else.
LEMMA GotoType ==
    ASSUME RequestType, FieldsGiven, NEW q \in Requests, NEW step \in Steps, Goto(q, step),
           NEW r \in Carried(step), req' = [req EXCEPT ![q] = r], UNCHANGED served,
           step \in {"derive", "write"} /\ r.op = "patch" => r.changed \subseteq DOMAIN r.patch
    PROVE  RequestType' /\ FieldsGiven'
BY CarriedRequest DEF Goto, RequestType, FieldsGiven

LEMMA EndType ==
    ASSUME RequestType, FieldsGiven, NEW q \in Requests, End(q), UNCHANGED served
    PROVE  RequestType' /\ FieldsGiven'
<1>1. NoRequest \in Carried("idle") /\ "idle" \in Steps
  BY CarriedAt DEF Steps
<1> QED BY <1>1, GotoType DEF End

LEMMA StayType ==
    ASSUME RequestType, FieldsGiven, UNCHANGED <<pc, req>>, served' \in 0..MaxRequests
    PROVE  RequestType' /\ FieldsGiven'
BY DEF RequestType, FieldsGiven

LEMMA TablesStay ==
    ASSUME TableType, UNCHANGED tables, due' \subseteq due
    PROVE  TableType' /\ Owned' = Owned
BY DEF TableType, Owned, tables

\* A row of topics is written: by create_topic, or by update_topic.
LEMMA RowWritten ==
    ASSUME TableType, NEW t \in Topics, NEW row \in Topic,
           topics' = [topics EXCEPT ![t] = row]
    PROVE  Owned' = Owned \cup {t}
BY TopicNotGone DEF TableType, Owned

\* What a request at a step has read or computed.
LEMMA ReqAt ==
    ASSUME RequestType, NEW q \in Requests
    PROVE  /\ pc[q] = "idle" => req[q] = NoRequest
           /\ pc[q] = "derive" /\ req[q].op = "create" => req[q] \in Creating
           /\ pc[q] = "derive" /\ req[q].op = "patch" => req[q] \in Patching
           /\ pc[q] = "write" => req[q] \in Patching
           /\ pc[q] = "dispatch" => req[q] \in Finishing
           /\ pc[q] = "put" => req[q] \in Putting
           /\ pc[q] \in {"debounce", "set", "send", "remember"} => req[q] \in Triggers
<1>1. req[q] \in Carried(pc[q])
  BY DEF RequestType
<1>2. ASSUME pc[q] = "derive" PROVE req[q] \in Creating \cup Patching
  BY <1>1, <1>2, CarriedAt
<1>3. ASSUME req[q] \in Creating \cup Patching
      PROVE  /\ req[q].op = "create" => req[q] \in Creating
             /\ req[q].op = "patch" => req[q] \in Patching
  BY <1>3 DEF Creating, Patching
<1> QED BY <1>1, <1>2, <1>3, CarriedAt

LEMMA NextId == RequestType /\ served < MaxRequests => served + 1 \in 1..MaxRequests
BY Bounds DEF RequestType

LEMMA CreateType ==
    ASSUME Typed, NEW q \in Requests, Create(q) \/ CreateCommit(q)
    PROVE  Typed'
<1> USE DEF Typed
<1>1. CASE Create(q)
  <2> PICK name \in Names, text \in Texts :
        Begin(q, "derive", [op |-> "create", id |-> served + 1, name |-> name, text |-> text])
    BY <1>1 DEF Create
  <2> DEFINE r == [op |-> "create", id |-> served + 1, name |-> name, text |-> text]
  <2>1. r \in Creating
    BY NextId DEF Begin, Creating
  <2>2. r \in Carried("derive") /\ "derive" \in Steps \ {"idle"} /\ r.op # "patch"
    BY <2>1, CarriedAt DEF Steps
  <2> HIDE DEF r
  <2>3. Begin(q, "derive", r)
    BY DEF r
  <2>4. RequestType' /\ FieldsGiven'
    BY <2>2, <2>3, BeginType
  <2> QED BY <1>1, <2>4, TablesStay DEF Create, redis, RedisType, FaultType
<1>2. CASE CreateCommit(q)
  <2> DEFINE t == CHOOSE u \in Topics : topics[u] = Absent
             made == [name |-> req[q].name, text |-> req[q].text, by |-> req[q].id]
             row == [name |-> req[q].name, text |-> req[q].text, active |-> TRUE, made |-> made]
             r == [op |-> "create", id |-> req[q].id, topic |-> t, backfill |-> TRUE]
  <2>1. t \in Topics /\ req[q] \in Creating
    BY <1>2, ReqAt DEF CreateCommit
  <2>2. made \in Derivation /\ row \in Topic
    BY <2>1 DEF Creating, Derivation, Topic
  <2>3. r \in Finishing
    BY <2>1 DEF Creating, Finishing
  <2>4. /\ topics' = [topics EXCEPT ![t] = row]
        /\ subtopics' = [subtopics EXCEPT ![t] = {made}]
        /\ channels' = [channels EXCEPT ![t] = {<<"websocket", req[q].id>>}]
        /\ due' = due \cup {t}
        /\ req' = [req EXCEPT ![q] = r]
    BY <1>2 DEF CreateCommit
  <2>5. {<<"websocket", req[q].id>>} \subseteq ChannelRow
    BY <2>1 DEF Creating, ChannelRow
  <2> HIDE DEF t, made, row, r
  <2>6. Owned' = Owned \cup {t}
    BY <2>1, <2>2, <2>4, RowWritten
  <2>7. TableType'
    BY <2>1, <2>2, <2>4, <2>5, <2>6 DEF TableType
  <2>8. RequestType' /\ FieldsGiven'
    BY <1>2, <2>3, <2>4, CarriedAt, GotoType DEF CreateCommit, Steps
  <2> QED BY <1>2, <2>7, <2>8 DEF CreateCommit, redis, RedisType, FaultType
<1> QED BY <1>1, <1>2

\* The columns of a PATCH, of what was read or of its body.
LEMMA PatchedType ==
    ASSUME NEW p \in Patches, NEW old \in Topic, NEW c \in SUBSET DOMAIN p
    PROVE  /\ (IF "name" \in c THEN p.name ELSE old.name) \in Names
           /\ (IF "text" \in c THEN p.text ELSE old.text) \in Texts
           /\ (IF "active" \in c THEN p.active ELSE old.active) \in BOOLEAN
<1>1. old.name \in Names /\ old.text \in Texts /\ old.active \in BOOLEAN
  BY DEF Topic
<1> QED BY <1>1, TopicServiceAssumption

\* The request Patch begins for topic t and body p.
Patched(t, p) ==
    [op |-> "patch", id |-> served + 1, topic |-> t,
     name |-> IF Has(p, "name") THEN p.name ELSE topics[t].name,
     text |-> IF Has(p, "text") THEN p.text ELSE topics[t].text,
     patch |-> p, changed |-> {f \in DOMAIN p : p[f] # topics[t][f]},
     backfill |-> Reactivates(p, topics[t]), seen |-> subtopics[t]]

LEMMA PatchedFields ==
    ASSUME Typed, NEW q \in Requests, Patch(q)
    PROVE  \E t \in Owned, p \in Patches, step \in {"derive", "write"} :
            /\ Has(p, "name") => ~Taken(p.name, {t})
            /\ Begin(q, step, Patched(t, p))
            /\ Patched(t, p) \in Patching
            /\ Patched(t, p).changed \subseteq DOMAIN p
<1> PICK t \in Owned, p \in Patches :
        /\ Has(p, "name") => ~Taken(p.name, {t})
        /\ \E step \in {"derive", "write"} : Begin(q, step, Patched(t, p))
  BY DEF Patch, Patched
<1>1. t \in Topics /\ topics[t] \in Topic
  BY OwnedTopic DEF Typed
<1>2. DOMAIN p \subseteq {"name", "text", "active"}
  BY TopicServiceAssumption
<1>3. served + 1 \in 1..MaxRequests
  BY NextId DEF Typed, Begin
<1>4. /\ (IF Has(p, "name") THEN p.name ELSE topics[t].name) \in Names
      /\ (IF Has(p, "text") THEN p.text ELSE topics[t].text) \in Texts
  BY <1>1, PatchedType DEF Has
<1>5. Reactivates(p, topics[t]) \in BOOLEAN
  BY DEF Reactivates
<1>6. subtopics[t] \in SUBSET Derivation
  BY <1>1 DEF Typed, TableType
<1>7. {f \in DOMAIN p : p[f] # topics[t][f]} \in SUBSET {"name", "text", "active"}
  BY <1>2
<1>8. Patched(t, p) \in Patching
  BY <1>1, <1>3, <1>4, <1>5, <1>6, <1>7 DEF Patched, Patching
<1>9. Patched(t, p).changed \subseteq DOMAIN p
  BY DEF Patched
<1> QED BY <1>8, <1>9

LEMMA PatchType ==
    ASSUME Typed, NEW q \in Requests, Patch(q) \/ Derived(q)
    PROVE  Typed'
<1> USE DEF Typed
<1>1. CASE Patch(q)
  <2> PICK t \in Owned, p \in Patches, step \in {"derive", "write"} :
        /\ Begin(q, step, Patched(t, p))
        /\ Patched(t, p) \in Patching
        /\ Patched(t, p).changed \subseteq DOMAIN p
    BY <1>1, PatchedFields
  <2>1. Patched(t, p) \in Carried(step) /\ step \in Steps \ {"idle"}
    BY CarriedAt DEF Steps
  <2>2. Patched(t, p).patch = p
    BY DEF Patched
  <2>3. RequestType' /\ FieldsGiven'
    BY <2>1, <2>2, BeginType
  <2> QED BY <1>1, <2>3, TablesStay DEF Patch, redis, RedisType, FaultType
<1>2. CASE Derived(q)
  <2>1. req[q] \in Patching /\ "write" \in Steps /\ req' = [req EXCEPT ![q] = req[q]]
    BY <1>2, ReqAt DEF Derived, Steps, RequestType
  <2>2. req[q] \in Carried("write") /\ req[q].changed \subseteq DOMAIN req[q].patch
    BY <1>2, <2>1, CarriedAt DEF Derived, FieldsGiven
  <2>3. RequestType' /\ FieldsGiven'
    BY <1>2, <2>1, <2>2, GotoType DEF Derived
  <2> QED BY <1>2, <2>3, TablesStay DEF Derived, redis, RedisType, FaultType
<1> QED BY <1>1, <1>2

\* The row a PATCH writes: what it changed of its own, the rest as it is now.
LEMMA WrittenRow ==
    ASSUME Typed, NEW q \in Requests, pc[q] = "write",
           NEW t \in Owned, NEW made \in Derivation, WriteColumns(q, t, made)
    PROVE  \E row \in Topic :
            /\ topics' = [topics EXCEPT ![t] = row]
            /\ row.name = IF "name" \in req[q].changed THEN req[q].patch.name
                                                       ELSE topics[t].name
            /\ row.active = IF "active" \in req[q].changed THEN req[q].patch.active
                                                           ELSE topics[t].active
            /\ row.made = made
            /\ due' = IF ~row.active \/ made # topics[t].made THEN due \cup {t} ELSE due
<1> DEFINE new == [f \in {"name", "text", "active"} |->
                    IF f \in req[q].changed THEN req[q].patch[f] ELSE topics[t][f]]
           row == [name |-> new.name, text |-> new.text, active |-> new.active, made |-> made]
<1>1. topics[t] \in Topic /\ req[q] \in Patching
  BY OwnedTopic, ReqAt DEF Typed
<1>2. req[q].patch \in Patches /\ req[q].changed \in SUBSET DOMAIN req[q].patch
  BY <1>1 DEF Typed, FieldsGiven, Patching
<1>3. /\ new.name = IF "name" \in req[q].changed THEN req[q].patch.name ELSE topics[t].name
      /\ new.text = IF "text" \in req[q].changed THEN req[q].patch.text ELSE topics[t].text
      /\ new.active = IF "active" \in req[q].changed THEN req[q].patch.active
                                                     ELSE topics[t].active
  OBVIOUS
<1> HIDE DEF new
<1>4. new.name \in Names /\ new.text \in Texts /\ new.active \in BOOLEAN
  BY <1>1, <1>2, <1>3, PatchedType
<1>5. row \in Topic
  BY <1>4 DEF Topic
<1>6. topics' = [topics EXCEPT ![t] = row]
      /\ due' = IF ~row.active \/ made # topics[t].made THEN due \cup {t} ELSE due
  BY DEF WriteColumns, new
<1> QED BY <1>3, <1>5, <1>6

\* What PatchCommit writes.
Rewrites(q) == req[q].changed \cap {"name", "text"} # {}
Made(q) == [name |-> req[q].name, text |-> req[q].text, by |-> req[q].id]

LEMMA CommitFacts ==
    ASSUME Typed, NEW q \in Requests, PatchCommit(q)
    PROVE  /\ req[q] \in Patching /\ req[q].topic \in Owned
           /\ Made(q) \in Derivation
           /\ (IF Rewrites(q) THEN Made(q) ELSE topics[req[q].topic].made) \in Derivation
<1>1. req[q] \in Patching /\ req[q].topic \in Owned
  BY ReqAt DEF Typed, PatchCommit
<1>2. Made(q) \in Derivation
  BY <1>1 DEF Made, Patching, Derivation
<1>3. topics[req[q].topic].made \in Derivation
  BY <1>1, OwnedTopic DEF Typed, Topic
<1> QED BY <1>1, <1>2, <1>3

LEMMA CommitType ==
    ASSUME Typed, NEW q \in Requests, PatchCommit(q)
    PROVE  Typed'
<1> USE DEF Typed
<1> DEFINE t == req[q].topic
           r == [op |-> "patch", id |-> req[q].id, topic |-> t,
                 backfill |-> req[q].backfill \/ Rewrites(q)]
           derived == IF Rewrites(q) THEN Made(q) ELSE topics[t].made
<1>1. t \in Topics /\ t \in Owned /\ req[q] \in Patching /\ derived \in Derivation
      /\ Made(q) \in Derivation
  BY CommitFacts, OwnedTopic
<1>2. r \in Finishing
  BY <1>1 DEF Patching, Finishing, Rewrites
<1>3. /\ pc[q] = "write"
      /\ WriteColumns(q, t, derived)
      /\ subtopics' = IF Rewrites(q) THEN [subtopics EXCEPT ![t] = {Made(q)}] ELSE subtopics
      /\ req' = [req EXCEPT ![q] = r]
      /\ Goto(q, "dispatch") /\ UNCHANGED <<channels, served>>
  BY DEF PatchCommit, Rewrites, Made, Replaced, RequestType
<1> HIDE DEF t, r, derived
<1>4. PICK row \in Topic :
        /\ topics' = [topics EXCEPT ![t] = row]
        /\ due' = IF ~row.active \/ derived # topics[t].made THEN due \cup {t} ELSE due
  BY <1>1, <1>3, WrittenRow
<1>5. Owned' = Owned
  BY <1>1, <1>4, RowWritten
<1>6. TableType'
  <2>1. topics' \in [Topics -> Topic \cup {Absent, Deleted}] /\ due' \subseteq Owned
    BY <1>1, <1>4 DEF TableType
  <2>2. subtopics' \in [Topics -> SUBSET Derivation]
    BY <1>1, <1>3 DEF TableType
  <2>3. \A u \in Topics \ Owned : subtopics'[u] = {}
    BY <1>1, <1>3 DEF TableType
  <2> QED BY <1>3, <1>5, <2>1, <2>2, <2>3 DEF TableType
<1>7. RequestType' /\ FieldsGiven'
  BY <1>2, <1>3, CarriedAt, GotoType DEF Steps
<1> QED BY <1>6, <1>7 DEF PatchCommit, redis, RedisType, FaultType

LEMMA FaultStep == FaultType /\ Fault => FaultType'
BY Bounds DEF Fault, FaultType

\* The steps that end a request without writing a table.
LEMMA EndsType ==
    ASSUME Typed, NEW q \in Requests,
           RowGone(q) \/ Dispatch(q) \/ CallFails(q) \/ Crash(q)
    PROVE  Typed'
<1> USE DEF Typed
<1>1. End(q) /\ UNCHANGED <<tables, served, redis>> /\ due' \subseteq due
  BY DEF RowGone, Dispatch, CallFails, Crash, redis
<1>2. TableType' /\ RequestType' /\ FieldsGiven'
  BY <1>1, TablesStay, EndType
<1>3. FaultType'
  BY FaultStep DEF RowGone, Dispatch, CallFails, Crash, FaultType
<1> QED BY <1>1, <1>2, <1>3 DEF redis, RedisType

LEMMA DeleteType ==
    ASSUME Typed, NEW q \in Requests, Delete(q)
    PROVE  Typed'
<1> USE DEF Typed
<1> PICK t \in Owned : /\ topics' = [topics EXCEPT ![t] = Deleted]
                       /\ subtopics' = [subtopics EXCEPT ![t] = {}]
                       /\ channels' = [channels EXCEPT ![t] = {}]
                       /\ due' = due \ {t}
  BY DEF Delete
<1>1. t \in Topics
  BY OwnedTopic
<1>2. Owned' = Owned \ {t}
  BY <1>1 DEF TableType, Owned
<1>3. TableType'
  BY <1>1, <1>2 DEF TableType
<1>4. served' \in 0..MaxRequests
  BY Bounds DEF Delete, RequestType
<1>5. RequestType' /\ FieldsGiven'
  BY <1>4, StayType DEF Delete
<1> QED BY <1>3, <1>5 DEF Delete, redis, RedisType, FaultType

LEMMA PutType ==
    ASSUME Typed, NEW q \in Requests, PutBegin(q) \/ PutCommit(q)
    PROVE  Typed'
<1> USE DEF Typed
<1>1. CASE PutBegin(q)
  <2> PICK t \in Owned, want \in ChannelSets :
        Begin(q, "put", [op |-> "put", id |-> served + 1, topic |-> t,
                         want |-> want, seen |-> channels[t]])
    BY <1>1 DEF PutBegin
  <2> DEFINE r == [op |-> "put", id |-> served + 1, topic |-> t,
                   want |-> want, seen |-> channels[t]]
  <2>1. r \in Putting
    BY OwnedTopic, NextId DEF Begin, Putting, TableType
  <2>2. r \in Carried("put") /\ "put" \in Steps \ {"idle"} /\ r.op # "patch"
    BY <2>1, CarriedAt DEF Steps
  <2> HIDE DEF r
  <2>3. RequestType' /\ FieldsGiven'
    BY <2>2, BeginType DEF r
  <2> QED BY <1>1, <2>3, TablesStay DEF PutBegin, redis, RedisType, FaultType
<1>2. CASE PutCommit(q)
  <2> DEFINE t == req[q].topic
             kept == channels[t] \ req[q].seen
             new == kept \cup (req[q].want \X {req[q].id})
  <2>1. t \in Owned /\ t \in Topics /\ req[q] \in Putting
    BY <1>2, ReqAt, OwnedTopic DEF PutCommit
  <2>2. req[q].want \X {req[q].id} \subseteq ChannelRow
    BY <2>1 DEF Putting, ChannelRow
  <2>3. new \in SUBSET ChannelRow
    BY <2>1, <2>2 DEF TableType
  <2>4. channels' = channels \/ channels' = [channels EXCEPT ![t] = new]
    BY <1>2 DEF PutCommit
  <2> HIDE DEF t, new
  <2>5. TableType'
    BY <1>2, <2>1, <2>3, <2>4 DEF PutCommit, TableType, Owned
  <2>6. RequestType' /\ FieldsGiven'
    BY <1>2, EndType DEF PutCommit
  <2> QED BY <1>2, <2>5, <2>6 DEF PutCommit, redis, RedisType, FaultType
<1> QED BY <1>1, <1>2

LEMMA TriggerType ==
    ASSUME Typed, NEW q \in Requests,
           Trigger(q) \/ CheckDebounce(q) \/ SetDebounce(q) \/ SendTask(q) \/ Remember(q)
    PROVE  Typed'
<1> USE DEF Typed
<1>1. CASE Trigger(q)
  <2> PICK t \in Owned :
        Begin(q, "debounce", [op |-> "trigger", id |-> served + 1, topic |-> t])
    BY <1>1 DEF Trigger
  <2> DEFINE r == [op |-> "trigger", id |-> served + 1, topic |-> t]
  <2>1. r \in Triggers
    BY OwnedTopic, NextId DEF Begin, Triggers
  <2>2. r \in Carried("debounce") /\ "debounce" \in Steps \ {"idle"} /\ r.op # "patch"
    BY <2>1, CarriedAt DEF Steps
  <2> HIDE DEF r
  <2>3. RequestType' /\ FieldsGiven'
    BY <2>2, BeginType DEF r
  <2> QED BY <1>1, <2>3, TablesStay DEF Trigger, redis, RedisType, FaultType
<1>2. CASE CheckDebounce(q) \/ SetDebounce(q) \/ SendTask(q) \/ Remember(q)
  <2>1. req[q] \in Triggers
    BY <1>2, ReqAt DEF CheckDebounce, SetDebounce, SendTask, Remember
  <2>2. req[q].topic \in Topics /\ req[q].id \in 1..MaxRequests /\ req[q].id \in 0..MaxRequests
    BY <2>1, Bounds DEF Triggers
  <2>3. TableType' /\ FaultType'
    BY <1>2, TablesStay DEF CheckDebounce, SetDebounce, SendTask, Remember, FaultType
  <2>4. RedisType'
    BY <1>2, <2>2 DEF CheckDebounce, SetDebounce, SendTask, Remember, redis, RedisType
  <2>5. RequestType' /\ FieldsGiven'
    <3>1. CASE End(q) /\ UNCHANGED served
      BY <3>1, EndType
    <3>2. ASSUME NEW s \in {"set", "send", "remember"}, Goto(q, s), UNCHANGED <<req, served>>
          PROVE  RequestType' /\ FieldsGiven'
      <4>1. req' = [req EXCEPT ![q] = req[q]] /\ req[q] \in Carried(s) /\ s \in Steps
        BY <2>1, <3>2, CarriedAt DEF RequestType, Steps
      <4> QED BY <3>2, <4>1, GotoType
    <3> QED BY <1>2, <3>1, <3>2 DEF CheckDebounce, SetDebounce, SendTask, Remember
  <2> QED BY <2>3, <2>4, <2>5
<1> QED BY <1>1, <1>2

LEMMA RestType ==
    ASSUME Typed,
           Schedule \/ TaskEnds \/ DebounceExpires \/ TaskKeyExpires \/ UNCHANGED vars
    PROVE  Typed'
<1> USE DEF Typed
<1>1. TableType' /\ FaultType' /\ RequestType' /\ FieldsGiven'
  BY TablesStay, StayType
  DEF Schedule, TaskEnds, DebounceExpires, TaskKeyExpires, vars, FaultType, RequestType
<1>2. ASSUME Schedule PROVE RedisType'
  <2>1. PICK t \in Owned : flying' = flying \cup {<<t, 0>>}
    BY <1>2 DEF Schedule
  <2>2. t \in Topics /\ 0 \in 0..MaxRequests
    BY Bounds DEF Owned
  <2>3. <<t, 0>> \in Topics \X (0..MaxRequests)
    BY <2>2
  <2>4. flying' \in SUBSET (Topics \X (0..MaxRequests))
    BY <2>1, <2>3 DEF RedisType
  <2>5. UNCHANGED <<debounce, task, clicks>>
    BY <1>2 DEF Schedule
  <2> QED BY <2>4, <2>5 DEF RedisType
<1>3. ASSUME TaskEnds \/ DebounceExpires \/ TaskKeyExpires \/ UNCHANGED vars
      PROVE  RedisType'
  BY <1>3, Bounds DEF TaskEnds, DebounceExpires, TaskKeyExpires, vars, redis, RedisType
<1> QED BY <1>1, <1>2, <1>3

LEMMA TypedStep == Typed /\ [Next]_vars => Typed'
BY CreateType, PatchType, CommitType, EndsType, DeleteType, PutType, TriggerType, RestType
DEF Next

\* Every step of every request keeps the tables, the keys in Redis and what the
\* requests carry well-typed, and no row outlives its topic.
THEOREM TypeCorrect == Spec => []TypeOK
<1>1. Init => Typed
  BY TypedInit
<1>2. Typed /\ [Next]_vars => Typed'
  BY TypedStep
<1>3. Typed => TypeOK
  BY TypedTypeOK
<1> QED BY <1>1, <1>2, <1>3, PTL DEF Spec

-----------------------------------------------------------------------------
(* The subtopics and the embedding come of one derivation *)

LEMMA DerivationStep ==
    ASSUME Typed, OneDerivation, [Next]_vars
    PROVE  OneDerivation'
<1> USE DEF OneDerivation
<1>1. CASE UNCHANGED <<topics, subtopics>>
  BY <1>1 DEF Owned
<1>2. ASSUME NEW q \in Requests,
             \/ Create(q) \/ Patch(q) \/ Derived(q) \/ RowGone(q) \/ Dispatch(q)
             \/ CallFails(q) \/ PutBegin(q) \/ PutCommit(q) \/ Trigger(q)
             \/ CheckDebounce(q) \/ SetDebounce(q) \/ SendTask(q) \/ Remember(q) \/ Crash(q)
      PROVE  OneDerivation'
  BY <1>1, <1>2 DEF Create, Patch, Derived, RowGone, Dispatch, CallFails, PutBegin,
                    PutCommit, Trigger, CheckDebounce, SetDebounce, SendTask, Remember,
                    Crash, tables
<1>3. CASE Schedule \/ TaskEnds \/ DebounceExpires \/ TaskKeyExpires \/ UNCHANGED vars
  BY <1>1, <1>3 DEF Schedule, TaskEnds, DebounceExpires, TaskKeyExpires, vars, tables
\* A row that is written has the subtopics of the derivation it stores.
<1>4. ASSUME NEW t \in Topics, NEW row \in Topic, topics' = [topics EXCEPT ![t] = row],
             \/ subtopics' = [subtopics EXCEPT ![t] = {row.made}]
             \/ UNCHANGED subtopics /\ t \in Owned /\ row.made = topics[t].made
      PROVE  OneDerivation'
  <2>1. Owned' = Owned \cup {t}
    BY <1>4, RowWritten DEF Typed
  <2>2. \A u \in Owned' : u # t => topics'[u] = topics[u] /\ subtopics'[u] = subtopics[u]
    BY <1>4, <2>1, OwnedTopic DEF Typed, TableType
  <2>3. subtopics'[t] = {topics'[t].made}
    BY <1>4 DEF Typed, TableType
  <2> QED BY <2>1, <2>2, <2>3
<1>5. ASSUME NEW q \in Requests, CreateCommit(q)
      PROVE  OneDerivation'
  <2> DEFINE t == CHOOSE u \in Topics : topics[u] = Absent
             made == [name |-> req[q].name, text |-> req[q].text, by |-> req[q].id]
             row == [name |-> req[q].name, text |-> req[q].text, active |-> TRUE, made |-> made]
  <2>1. t \in Topics /\ req[q] \in Creating
    BY <1>5, ReqAt DEF CreateCommit, Typed
  <2>2. row \in Topic /\ row.made = made
    BY <2>1 DEF Creating, Derivation, Topic
  <2>3. /\ topics' = [topics EXCEPT ![t] = row]
        /\ subtopics' = [subtopics EXCEPT ![t] = {made}]
    BY <1>5 DEF CreateCommit
  <2> HIDE DEF t, made, row
  <2> QED BY <1>4, <2>1, <2>2, <2>3
<1>6. ASSUME NEW q \in Requests, PatchCommit(q)
      PROVE  OneDerivation'
  <2> DEFINE t == req[q].topic
             derived == IF Rewrites(q) THEN Made(q) ELSE topics[t].made
  <2>1. t \in Topics /\ t \in Owned /\ derived \in Derivation
    BY <1>6, CommitFacts, OwnedTopic DEF Typed
  <2>2. /\ pc[q] = "write"
        /\ WriteColumns(q, t, derived)
        /\ subtopics' = IF Rewrites(q) THEN [subtopics EXCEPT ![t] = {Made(q)}] ELSE subtopics
    BY <1>6 DEF PatchCommit, Rewrites, Made, Replaced
  <2> HIDE DEF t
  <2>3. \/ derived = Made(q) /\ subtopics' = [subtopics EXCEPT ![t] = {Made(q)}]
        \/ derived = topics[t].made /\ UNCHANGED subtopics
    BY <2>2
  <2> HIDE DEF derived
  <2>4. PICK row \in Topic : topics' = [topics EXCEPT ![t] = row] /\ row.made = derived
    BY <2>1, <2>2, WrittenRow
  <2> QED BY <1>4, <2>1, <2>3, <2>4
<1>7. ASSUME NEW q \in Requests, Delete(q)
      PROVE  OneDerivation'
  <2> PICK t \in Owned : /\ topics' = [topics EXCEPT ![t] = Deleted]
                         /\ subtopics' = [subtopics EXCEPT ![t] = {}]
    BY <1>7 DEF Delete
  <2> QED BY OwnedTopic DEF Typed, TableType, Owned
<1> QED BY <1>2, <1>3, <1>5, <1>6, <1>7 DEF Next

\* However PATCHes of a topic overlap with each other, with a delete or with a
\* crash, its subtopics are those of the derivation whose embedding it has.
THEOREM OneDerivationHolds == Spec => []OneDerivation
<1>1. Init => Typed /\ OneDerivation
  BY TypedInit DEF Init, OneDerivation, Owned
<1>2. Typed /\ OneDerivation /\ [Next]_vars => (Typed /\ OneDerivation)'
  BY TypedStep, DerivationStep
<1> QED BY <1>1, <1>2, PTL DEF Spec

-----------------------------------------------------------------------------
(* How many runs a user starts while the debounce key is set *)

Triggered(q, t) == req[q].op = "trigger" /\ req[q].topic = t

\* The triggers of t that found no key and have not sent their task.
Sending(t) == {q \in Requests : Triggered(q, t) /\ pc[q] \in {"set", "send"}}

ClickInv ==
    \A t \in Topics :
        IF t \in debounce THEN clicks[t] + Cardinality(Sending(t)) <= Cardinality(Requests)
                         ELSE clicks[t] = 0

\* A step of request q leaves the others where they are.
OthersKept(q) == \A p \in Requests \ {q} : pc'[p] = pc[p] /\ req'[p] = req[p]

LEMMA BeginOwn ==
    ASSUME RequestType, NEW q \in Requests, NEW step, NEW r, Begin(q, step, r)
    PROVE  OthersKept(q) /\ pc[q] = "idle" /\ pc'[q] = step /\ req'[q] = r
BY DEF Begin, RequestType, OthersKept

LEMMA GotoOwn ==
    ASSUME RequestType, NEW q \in Requests, NEW step, NEW r, Goto(q, step),
           req' = [req EXCEPT ![q] = r]
    PROVE  OthersKept(q) /\ pc'[q] = step /\ req'[q] = r
BY DEF Goto, RequestType, OthersKept

LEMMA EndOwn ==
    ASSUME RequestType, NEW q \in Requests, End(q)
    PROVE  OthersKept(q) /\ pc'[q] = "idle" /\ req'[q] = NoRequest
BY GotoOwn DEF End

\* The requests that trigger no run.
LEMMA OtherRequests ==
    ASSUME Typed, NEW q \in Requests,
           \/ Create(q) \/ CreateCommit(q) \/ Patch(q) \/ Derived(q) \/ PatchCommit(q)
           \/ RowGone(q) \/ Dispatch(q) \/ CallFails(q)
           \/ Delete(q) \/ PutBegin(q) \/ PutCommit(q)
    PROVE  /\ OthersKept(q) /\ req[q].op # "trigger" /\ req'[q].op # "trigger"
           /\ UNCHANGED redis
<1> USE DEF Typed
<1>0. UNCHANGED redis
  BY DEF Create, CreateCommit, Patch, Derived, PatchCommit, RowGone, Dispatch,
         CallFails, Delete, PutBegin, PutCommit
<1>1. ASSUME pc[q] \in {"idle", "derive", "write", "dispatch", "put"}
      PROVE  req[q].op # "trigger"
  <2>1. pc[q] = "derive" => req[q] \in Creating \cup Patching
    BY CarriedAt DEF RequestType
  <2> QED BY <1>1, <2>1, ReqAt DEF NoRequest, Creating, Patching, Finishing, Putting
<1>2. ASSUME NEW step, NEW r, Begin(q, step, r), r.op # "trigger"
      PROVE  OthersKept(q) /\ req[q].op # "trigger" /\ req'[q].op # "trigger"
  BY <1>1, <1>2, BeginOwn
<1>3. CASE Create(q)
  <2> PICK name \in Names, text \in Texts :
        Begin(q, "derive", [op |-> "create", id |-> served + 1, name |-> name, text |-> text])
    BY <1>3 DEF Create
  <2>1. [op |-> "create", id |-> served + 1, name |-> name, text |-> text].op # "trigger"
    OBVIOUS
  <2> QED BY <1>0, <1>2, <2>1
<1>4. CASE CreateCommit(q)
  <2> DEFINE r == [op |-> "create", id |-> req[q].id,
                   topic |-> CHOOSE u \in Topics : topics[u] = Absent, backfill |-> TRUE]
  <2>1. pc[q] = "derive" /\ Goto(q, "dispatch") /\ req' = [req EXCEPT ![q] = r]
    BY <1>4 DEF CreateCommit
  <2>2. r.op = "create"
    OBVIOUS
  <2> HIDE DEF r
  <2> QED BY <1>0, <1>1, <2>1, <2>2, GotoOwn
<1>5. CASE Patch(q)
  <2> PICK t \in Owned, p \in Patches, step \in {"derive", "write"} :
        Begin(q, step, Patched(t, p))
    BY <1>5, PatchedFields
  <2>1. Patched(t, p).op # "trigger"
    BY DEF Patched
  <2> QED BY <1>0, <1>2, <2>1
<1>6. CASE Derived(q)
  <2>1. pc[q] = "derive" /\ Goto(q, "write") /\ req' = [req EXCEPT ![q] = req[q]]
    BY <1>6 DEF Derived, RequestType
  <2> QED BY <1>0, <1>1, <2>1, GotoOwn
<1>7. CASE PatchCommit(q)
  <2> DEFINE r == [op |-> "patch", id |-> req[q].id, topic |-> req[q].topic,
                   backfill |-> req[q].backfill \/ Rewrites(q)]
  <2>1. pc[q] = "write" /\ Goto(q, "dispatch") /\ req' = [req EXCEPT ![q] = r]
    BY <1>7 DEF PatchCommit, RequestType, Rewrites
  <2>2. r.op = "patch"
    OBVIOUS
  <2> HIDE DEF r
  <2> QED BY <1>0, <1>1, <2>1, <2>2, GotoOwn
<1>8. CASE RowGone(q) \/ Dispatch(q) \/ CallFails(q) \/ PutCommit(q)
  <2>1. End(q) /\ pc[q] \in {"derive", "write", "dispatch", "put"}
    BY <1>8 DEF RowGone, Dispatch, CallFails, PutCommit
  <2> QED BY <1>0, <1>1, <2>1, EndOwn DEF NoRequest
<1>9. CASE Delete(q)
  BY <1>0, <1>1, <1>9 DEF Delete, OthersKept
<1>10. CASE PutBegin(q)
  <2> PICK t \in Owned, want \in ChannelSets :
        Begin(q, "put", [op |-> "put", id |-> served + 1, topic |-> t,
                         want |-> want, seen |-> channels[t]])
    BY <1>10 DEF PutBegin
  <2>1. [op |-> "put", id |-> served + 1, topic |-> t,
         want |-> want, seen |-> channels[t]].op # "trigger"
    OBVIOUS
  <2> QED BY <1>0, <1>2, <2>1
<1> QED BY <1>3, <1>4, <1>5, <1>6, <1>7, <1>8, <1>9, <1>10

LEMMA SendingFinite ==
    \A S \in SUBSET Requests :
        Cardinality(S) \in Nat /\ Cardinality(S) <= Cardinality(Requests)
        /\ Cardinality(Requests) \in Nat
        /\ \A T \in SUBSET S : Cardinality(T) <= Cardinality(S)
        /\ \A q \in S : Cardinality(S \ {q}) = Cardinality(S) - 1
<1>1. IsFiniteSet(Requests)
  BY TopicServiceAssumption
<1> TAKE S \in SUBSET Requests
<1>2. IsFiniteSet(S) /\ Cardinality(S) <= Cardinality(Requests)
  BY <1>1, FS_Subset
<1>3. Cardinality(S) \in Nat /\ Cardinality(Requests) \in Nat
  BY <1>1, <1>2, FS_CardinalityType
<1>4. \A T \in SUBSET S : Cardinality(T) <= Cardinality(S)
  BY <1>2, FS_Subset
<1>5. \A q \in S : Cardinality(S \ {q}) = Cardinality(S) - 1
  BY <1>2, FS_RemoveElement
<1> QED BY <1>2, <1>3, <1>4, <1>5

LEMMA ClickStep ==
    ASSUME Typed, ClickInv, [Next]_vars
    PROVE  ClickInv'
<1> USE DEF Typed
<1>0. \A t \in Topics :
        /\ clicks[t] \in Nat /\ Cardinality(Sending(t)) \in Nat /\ Cardinality(Sending(t)') \in Nat
        /\ Cardinality(Requests) \in Nat /\ Cardinality(Sending(t)') <= Cardinality(Requests)
  BY SendingFinite DEF Sending, RedisType
\* Nobody found the key absent, and no task was sent.
<1>1. ASSUME UNCHANGED <<clicks, debounce>>, \A t \in Topics : Sending(t)' \subseteq Sending(t)
      PROVE  ClickInv'
  <2>1. \A t \in Topics : Cardinality(Sending(t)') <= Cardinality(Sending(t))
    BY <1>1, SendingFinite DEF Sending
  <2> QED BY <1>0, <1>1, <2>1 DEF ClickInv
\* A step that makes no request a sender.
<1>2. ASSUME NEW q \in Requests, OthersKept(q), UNCHANGED <<clicks, debounce>>,
             req'[q].op # "trigger" \/ pc'[q] \notin {"set", "send"}
      PROVE  ClickInv'
  <2>1. \A t \in Topics : Sending(t)' \subseteq Sending(t)
    BY <1>2 DEF OthersKept, Sending, Triggered
  <2> QED BY <1>1, <1>2, <2>1
<1>3. ASSUME NEW q \in Requests,
             \/ Create(q) \/ CreateCommit(q) \/ Patch(q) \/ Derived(q) \/ PatchCommit(q)
             \/ RowGone(q) \/ Dispatch(q) \/ CallFails(q)
             \/ Delete(q) \/ PutBegin(q) \/ PutCommit(q)
      PROVE  ClickInv'
  BY <1>2, <1>3, OtherRequests DEF redis
<1>4. ASSUME NEW q \in Requests, Crash(q)
      PROVE  ClickInv'
  BY <1>2, <1>4, EndOwn DEF Crash, redis
<1>5. ASSUME NEW q \in Requests, Trigger(q)
      PROVE  ClickInv'
  <2> PICK t \in Owned :
        Begin(q, "debounce", [op |-> "trigger", id |-> served + 1, topic |-> t])
    BY <1>5 DEF Trigger
  <2>1. OthersKept(q) /\ pc'[q] = "debounce"
    BY BeginOwn
  <2> QED BY <1>2, <1>5, <2>1 DEF Trigger, redis
<1>6. ASSUME Schedule \/ TaskEnds \/ TaskKeyExpires \/ UNCHANGED vars
      PROVE  ClickInv'
  BY <1>1, <1>6 DEF Schedule, TaskEnds, TaskKeyExpires, vars, redis, Sending, Triggered
<1>7. CASE DebounceExpires
  <2>1. \A t \in Topics : Sending(t)' = Sending(t)
    BY <1>7 DEF DebounceExpires, Sending, Triggered
  <2> QED BY <1>0, <1>7, <2>1 DEF DebounceExpires, ClickInv, RedisType
\* The later steps of a trigger.
<1>8. ASSUME NEW q \in Requests,
             CheckDebounce(q) \/ SetDebounce(q) \/ SendTask(q) \/ Remember(q)
      PROVE  ClickInv'
  <2>0. req[q] \in Triggers
    BY <1>8, ReqAt DEF CheckDebounce, SetDebounce, SendTask, Remember
  <2> PICK u \in Topics : u = req[q].topic
    BY <2>0 DEF Triggers
  <2>1. Triggered(q, u)
    BY <2>0 DEF Triggers, Triggered
  <2>2. CASE Remember(q) \/ (CheckDebounce(q) /\ u \in debounce)
    BY <1>2, <2>2, EndOwn DEF Remember, CheckDebounce, redis
  <2>3. ASSUME NEW s, Goto(q, s), UNCHANGED req
        PROVE  /\ OthersKept(q) /\ pc'[q] = s
               /\ \A p \in Requests, t \in Topics : Triggered(p, t)' <=> Triggered(p, t)
               /\ \A t \in Topics : t # u => ~Triggered(q, t)
    BY <2>3 DEF Goto, OthersKept, RequestType, Triggered
  <2>4. ASSUME UNCHANGED req, OthersKept(q), NEW t \in Topics, t # u, ~Triggered(q, t),
               Triggered(q, t)' <=> Triggered(q, t)
        PROVE  Sending(t)' = Sending(t)
    BY <2>4 DEF OthersKept, Sending, Triggered
  <2>5. CASE CheckDebounce(q) /\ u \notin debounce
    <3>1. Goto(q, "set") /\ UNCHANGED <<req, clicks, debounce>>
      BY <2>5 DEF CheckDebounce, redis
    <3>2. \A t \in Topics : t # u => Sending(t)' = Sending(t)
      BY <2>3, <2>4, <3>1
    <3>3. \A t \in Topics \ {u} :
            IF t \in debounce
            THEN clicks[t] + Cardinality(Sending(t)') <= Cardinality(Requests)
            ELSE clicks[t] = 0
      BY <3>2 DEF ClickInv
    <3>4. clicks[u] = 0
      BY <2>1, <2>5 DEF ClickInv
    <3> QED BY <2>5, <3>1, <3>3, <3>4 DEF ClickInv
  <2>6. CASE SetDebounce(q)
    <3>1. /\ Goto(q, "send") /\ UNCHANGED <<req, clicks>> /\ pc[q] = "set"
          /\ debounce' = debounce \cup {u}
      BY <2>6 DEF SetDebounce
    <3>2. \A t \in Topics : Sending(t)' = Sending(t)
      BY <2>3, <3>1 DEF Sending, OthersKept
    <3> QED BY <1>0, <3>1, <3>2 DEF ClickInv
  <2>7. CASE SendTask(q)
    <3>1. /\ Goto(q, "remember") /\ UNCHANGED <<req, debounce>> /\ pc[q] = "send"
          /\ clicks' = IF u \in debounce THEN [clicks EXCEPT ![u] = @ + 1] ELSE clicks
      BY <2>7 DEF SendTask
    <3>2. \A t \in Topics : t # u => Sending(t)' = Sending(t)
      BY <2>3, <2>4, <3>1
    <3>3. q \in Sending(u) /\ Sending(u)' = Sending(u) \ {q}
      BY <2>1, <2>3, <3>1 DEF Sending, OthersKept
    <3>4. Cardinality(Sending(u)') = Cardinality(Sending(u)) - 1
      BY <3>3, SendingFinite DEF Sending
    <3>5. /\ \A t \in Topics : t # u => clicks'[t] = clicks[t]
          /\ u \in debounce => clicks'[u] = clicks[u] + 1
          /\ u \notin debounce => clicks'[u] = clicks[u]
      BY <2>1, <3>1 DEF RedisType
    <3>6. \A t \in Topics \ {u} :
            IF t \in debounce
            THEN clicks'[t] + Cardinality(Sending(t)') <= Cardinality(Requests)
            ELSE clicks'[t] = 0
      BY <3>2, <3>5 DEF ClickInv
    <3>7. IF u \in debounce
          THEN clicks'[u] + Cardinality(Sending(u)') <= Cardinality(Requests)
          ELSE clicks'[u] = 0
      BY <1>0, <3>4, <3>5 DEF ClickInv
    <3> QED BY <3>1, <3>6, <3>7 DEF ClickInv
  <2> QED BY <1>8, <2>2, <2>5, <2>6, <2>7
<1> QED BY <1>3, <1>4, <1>5, <1>6, <1>7, <1>8 DEF Next

\* However many requests a user has under way, whatever dies and whichever keys
\* expire, only triggers that overlap can each start a run before the debounce
\* key has gone: |Requests| at most.
THEOREM ClicksAreDebouncedHolds == Spec => []ClicksAreDebounced
<1>1. Init => Typed /\ ClickInv
  <2> SUFFICES ASSUME Init PROVE ClickInv
    BY TypedInit
  <2> QED BY DEF Init, ClickInv
<1>2. Typed /\ ClickInv /\ [Next]_vars => (Typed /\ ClickInv)'
  BY TypedStep, ClickStep
<1>3. Typed /\ ClickInv => ClicksAreDebounced
  <2> SUFFICES ASSUME Typed, ClickInv, NEW t \in Topics
               PROVE  clicks[t] <= Cardinality(Requests)
    BY DEF ClicksAreDebounced
  <2>1. clicks[t] \in Nat /\ Cardinality(Sending(t)) \in Nat /\ Cardinality(Requests) \in Nat
    BY SendingFinite DEF Sending, Typed, RedisType
  <2> QED BY <2>1 DEF ClickInv
<1> QED BY <1>1, <1>2, <1>3, PTL DEF Spec

-----------------------------------------------------------------------------
(* No active topic is left without the backfill it is owed *)

\* A request that is about to dispatch the backfill of t.
Dispatches(q, t) == pc[q] = "dispatch" /\ req[q].topic = t /\ req[q].backfill

Covered == \A t \in due : topics[t].active => \E q \in Requests : Dispatches(q, t)

\* A PATCH that will switch a topic on has seen that it was off.
SwitchesBackfill ==
    \A q \in Requests :
        /\ pc[q] \in {"derive", "write"} /\ req[q].op = "patch"
        /\ "active" \in req[q].changed /\ req[q].patch.active
        => req[q].backfill

OwedInv == Covered /\ SwitchesBackfill

\* Any step of a request that writes no PATCH of its own.
LEMMA SwitchesKept ==
    ASSUME SwitchesBackfill, NEW q \in Requests, OthersKept(q),
           pc'[q] \in {"derive", "write"} /\ req'[q].op = "patch" =>
            /\ "active" \in req'[q].changed /\ req'[q].patch.active => req'[q].backfill
    PROVE  SwitchesBackfill'
BY DEF SwitchesBackfill, OthersKept

LEMMA OwedStep ==
    ASSUME Typed, OwedInv, [Next]_vars
    PROVE  OwedInv'
<1> USE DEF Typed
\* Nothing is owed more than before, and a dispatch only ends with what it owes.
<1>1. ASSUME NEW q \in Requests, OthersKept(q), UNCHANGED topics, due' \subseteq due,
             \A t \in due' : topics[t].active => ~Dispatches(q, t)
      PROVE  Covered'
  <2> SUFFICES ASSUME NEW t \in due', topics[t].active
               PROVE  \E p \in Requests : Dispatches(p, t)'
    BY <1>1 DEF Covered
  <2> PICK p \in Requests : Dispatches(p, t)
    BY <1>1 DEF OwedInv, Covered
  <2>1. p # q
    BY <1>1
  <2> QED BY <1>1, <2>1 DEF Dispatches, OthersKept
<1>2. ASSUME NEW q \in Requests, End(q), UNCHANGED tables,
             due' = due \/ due' = due \ ToBackfill(q),
             due' = due \ ToBackfill(q) \/ pc[q] # "dispatch" \/ req[q].topic \notin Owned
      PROVE  OwedInv'
  <2>1. OthersKept(q) /\ pc'[q] = "idle"
    BY <1>2, EndOwn
  <2>2. \A t \in due' : topics[t].active => ~Dispatches(q, t)
    BY <1>2 DEF Dispatches, ToBackfill, TableType
  <2>3. Covered'
    BY <1>1, <1>2, <2>1, <2>2 DEF tables
  <2> QED BY <2>1, <2>3, SwitchesKept DEF OwedInv
<1>3. ASSUME NEW q \in Requests,
             RowGone(q) \/ Dispatch(q) \/ CallFails(q) \/ Crash(q)
      PROVE  OwedInv'
  BY <1>2, <1>3 DEF RowGone, Dispatch, CallFails, Crash, redis
<1>4. ASSUME NEW q \in Requests, NEW step, NEW r, Begin(q, step, r), UNCHANGED <<tables, due>>,
             r.op # "patch" \/ ("active" \in r.changed /\ r.patch.active => r.backfill)
      PROVE  OwedInv'
  <2>1. OthersKept(q) /\ pc[q] = "idle" /\ pc'[q] = step /\ req'[q] = r
    BY <1>4, BeginOwn
  <2>2. Covered'
    BY <1>1, <1>4, <2>1 DEF tables, Dispatches
  <2> QED BY <1>4, <2>1, <2>2, SwitchesKept DEF OwedInv
<1>5. ASSUME NEW q \in Requests, Create(q) \/ PutBegin(q) \/ Trigger(q)
      PROVE  OwedInv'
  <2>1. CASE Create(q)
    <3> PICK name \in Names, text \in Texts :
        Begin(q, "derive", [op |-> "create", id |-> served + 1, name |-> name, text |-> text])
      BY <2>1 DEF Create
    <3>1. [op |-> "create", id |-> served + 1, name |-> name, text |-> text].op # "patch"
      OBVIOUS
    <3> QED BY <1>4, <2>1, <3>1 DEF Create
  <2>2. CASE PutBegin(q)
    <3> PICK t \in Owned, want \in ChannelSets :
        Begin(q, "put", [op |-> "put", id |-> served + 1, topic |-> t,
                         want |-> want, seen |-> channels[t]])
      BY <2>2 DEF PutBegin
    <3>1. [op |-> "put", id |-> served + 1, topic |-> t,
           want |-> want, seen |-> channels[t]].op # "patch"
      OBVIOUS
    <3> QED BY <1>4, <2>2, <3>1 DEF PutBegin
  <2>3. CASE Trigger(q)
    <3> PICK t \in Owned :
        Begin(q, "debounce", [op |-> "trigger", id |-> served + 1, topic |-> t])
      BY <2>3 DEF Trigger
    <3>1. [op |-> "trigger", id |-> served + 1, topic |-> t].op # "patch"
      OBVIOUS
    <3> QED BY <1>4, <2>3, <3>1 DEF Trigger
  <2> QED BY <1>5, <2>1, <2>2, <2>3
<1>6. ASSUME NEW q \in Requests, Patch(q)
      PROVE  OwedInv'
  <2> PICK t \in Owned, p \in Patches, step \in {"derive", "write"} :
        Begin(q, step, Patched(t, p))
    BY <1>6, PatchedFields
  <2>1. "active" \in Patched(t, p).changed /\ Patched(t, p).patch.active =>
            Patched(t, p).backfill
    <3>1. topics[t].active \in BOOLEAN
      BY OwnedTopic DEF Topic
    <3>2. ASSUME "active" \in DOMAIN p, p["active"] # topics[t]["active"], p.active
          PROVE  Reactivates(p, topics[t])
      <4>1. p.active \in BOOLEAN
        BY <3>2, TopicServiceAssumption
      <4> QED BY <3>1, <3>2, <4>1 DEF Reactivates, Has
    <3> QED BY <3>2 DEF Patched
  <2> QED BY <1>4, <1>6, <2>1 DEF Patch
<1>7. ASSUME NEW q \in Requests, CreateCommit(q)
      PROVE  OwedInv'
  <2> PICK t \in Topics : t = CHOOSE u \in Topics : topics[u] = Absent
    BY <1>7 DEF CreateCommit
  <2> DEFINE r == [op |-> "create", id |-> req[q].id, topic |-> t, backfill |-> TRUE]
  <2>1. pc[q] = "derive" /\ Goto(q, "dispatch") /\ due' = due \cup {t}
        /\ req' = [req EXCEPT ![q] = r] /\ (\A u \in Topics : u # t => topics'[u] = topics[u])
    BY <1>7 DEF CreateCommit, TableType
  <2>2. r.topic = t /\ r.backfill
    OBVIOUS
  <2>3. OthersKept(q) /\ pc'[q] = "dispatch" /\ req'[q] = r
    BY <2>1, GotoOwn
  <2> HIDE DEF r
  <2>4. Dispatches(q, t)'
    BY <2>2, <2>3 DEF Dispatches
  <2>5. ASSUME NEW u \in due', u # t, topics'[u].active
        PROVE  \E p \in Requests : Dispatches(p, u)'
    <3>1. u \in due /\ topics[u].active
      BY <2>1, <2>5, OwnedTopic DEF TableType
    <3> PICK p \in Requests : Dispatches(p, u)
      BY <3>1 DEF OwedInv, Covered
    <3> QED BY <2>1, <2>3 DEF Dispatches, OthersKept
  <2>6. Covered'
    BY <2>4, <2>5 DEF Covered
  <2> QED BY <2>3, <2>6, SwitchesKept DEF OwedInv
<1>8. ASSUME NEW q \in Requests, PatchCommit(q)
      PROVE  OwedInv'
  <2> DEFINE t == req[q].topic
             derived == IF Rewrites(q) THEN Made(q) ELSE topics[t].made
             r == [op |-> "patch", id |-> req[q].id, topic |-> t,
                   backfill |-> req[q].backfill \/ Rewrites(q)]
  <2>1. t \in Topics /\ t \in Owned /\ derived \in Derivation /\ req[q] \in Patching
    BY <1>8, CommitFacts, OwnedTopic
  <2>2. /\ pc[q] = "write" /\ Goto(q, "dispatch")
        /\ WriteColumns(q, t, derived)
        /\ req' = [req EXCEPT ![q] = r]
    BY <1>8 DEF PatchCommit, Rewrites, Made, RequestType
  <2>3. r.topic = t /\ (r.backfill <=> req[q].backfill \/ Rewrites(q))
    OBVIOUS
  <2>4. derived # topics[t].made => Rewrites(q)
    OBVIOUS
  <2> HIDE DEF t, derived, r
  <2>5. OthersKept(q) /\ pc'[q] = "dispatch" /\ req'[q] = r
    BY <2>2, GotoOwn
  <2> PICK row \in Topic :
        /\ topics' = [topics EXCEPT ![t] = row]
        /\ row.active = IF "active" \in req[q].changed THEN req[q].patch.active
                                                       ELSE topics[t].active
        /\ due' = IF ~row.active \/ derived # topics[t].made THEN due \cup {t} ELSE due
    BY <2>1, <2>2, WrittenRow
  <2>6. ASSUME NEW u \in due', topics'[u].active
        PROVE  \E p \in Requests : Dispatches(p, u)'
    <3>1. ASSUME NEW p \in Requests, Dispatches(p, u)
          PROVE  Dispatches(p, u)'
      BY <2>2, <2>5, <3>1 DEF Dispatches, OthersKept
    <3>2. CASE u # t
      <4>1. u \in due /\ topics[u].active
        BY <2>6, <3>2, OwnedTopic DEF TableType
      <4> QED BY <3>1, <4>1 DEF OwedInv, Covered
    <3>3. CASE u = t
      <4>1. row.active
        BY <2>1, <2>6, <3>3 DEF TableType
      <4>2. CASE derived # topics[t].made
        BY <2>3, <2>4, <2>5, <3>3, <4>2 DEF Dispatches
      <4>3. CASE "active" \in req[q].changed
        <5>1. req[q].backfill
          BY <2>1, <2>2, <4>1, <4>3 DEF OwedInv, SwitchesBackfill, Patching
        <5> QED BY <2>3, <2>5, <3>3, <5>1 DEF Dispatches
      <4>4. CASE derived = topics[t].made /\ "active" \notin req[q].changed
        <5>1. u \in due /\ topics[u].active
          BY <2>6, <3>3, <4>1, <4>4
        <5> QED BY <3>1, <5>1 DEF OwedInv, Covered
      <4> QED BY <4>2, <4>3, <4>4
    <3> QED BY <3>2, <3>3
  <2>7. Covered'
    BY <2>6 DEF Covered
  <2> QED BY <2>5, <2>7, SwitchesKept DEF OwedInv
<1>9. ASSUME NEW q \in Requests, Delete(q)
      PROVE  OwedInv'
  <2> PICK t \in Owned : topics' = [topics EXCEPT ![t] = Deleted] /\ due' = due \ {t}
    BY <1>9 DEF Delete
  <2>1. UNCHANGED <<pc, req>>
    BY <1>9 DEF Delete
  <2>2. SwitchesBackfill'
    BY <2>1 DEF OwedInv, SwitchesBackfill
  <2>3. \A u \in due' : u \in due /\ topics'[u] = topics[u]
    BY OwnedTopic DEF TableType
  <2>4. Covered'
    BY <2>1, <2>3 DEF OwedInv, Covered, Dispatches
  <2> QED BY <2>2, <2>4 DEF OwedInv
<1>10. ASSUME NEW q \in Requests,
              \/ Derived(q) \/ PutCommit(q) \/ CheckDebounce(q) \/ SetDebounce(q)
              \/ SendTask(q) \/ Remember(q)
       PROVE  OwedInv'
  <2>1. UNCHANGED <<topics, due>> /\ pc[q] # "dispatch"
    BY <1>10 DEF Derived, PutCommit, CheckDebounce, SetDebounce, SendTask, Remember, tables
  <2>2. /\ OthersKept(q)
        /\ pc'[q] \in {"derive", "write"} /\ req'[q].op = "patch" =>
                pc[q] \in {"derive", "write"} /\ req'[q] = req[q]
    <3>1. CASE End(q)
      BY <3>1, EndOwn
    <3>2. CASE UNCHANGED req /\ \E s \in {"write", "set", "send", "remember"} :
                    Goto(q, s) /\ (s = "write" => pc[q] = "derive")
      BY <3>2 DEF Goto, RequestType, OthersKept
    <3> QED BY <1>10, <3>1, <3>2
            DEF Derived, PutCommit, CheckDebounce, SetDebounce, SendTask, Remember
  <2>3. Covered'
    BY <1>1, <2>1, <2>2 DEF Dispatches
  <2>4. SwitchesBackfill'
    BY <2>2, SwitchesKept DEF OwedInv, SwitchesBackfill
  <2> QED BY <2>3, <2>4 DEF OwedInv
<1>11. CASE Schedule \/ TaskEnds \/ DebounceExpires \/ TaskKeyExpires \/ UNCHANGED vars
  <2>1. UNCHANGED <<topics, due, pc, req>>
    BY <1>11 DEF Schedule, TaskEnds, DebounceExpires, TaskKeyExpires, vars, tables
  <2> QED BY <2>1 DEF OwedInv, Covered, SwitchesBackfill, Dispatches
<1> QED BY <1>3, <1>5, <1>6, <1>7, <1>8, <1>9, <1>10, <1>11 DEF Next

\* When the requests are done, every active topic has had the dispatch that its
\* changes and pauses call for, unless that dispatch itself failed.
THEOREM NoBackfillOwedHolds == Spec => []NoBackfillOwed
<1>1. Init => Typed /\ OwedInv
  <2> SUFFICES ASSUME Init PROVE OwedInv
    BY TypedInit
  <2> QED BY DEF Init, OwedInv, Covered, SwitchesBackfill
<1>2. Typed /\ OwedInv /\ [Next]_vars => (Typed /\ OwedInv)'
  BY TypedStep, OwedStep
<1>3. OwedInv => NoBackfillOwed
  BY DEF OwedInv, Covered, Dispatches, NoBackfillOwed
<1> QED BY <1>1, <1>2, <1>3, PTL DEF Spec

-----------------------------------------------------------------------------
(* The checks made before an await hold up to the requests under way *)

Named(n) == {t \in Owned : topics[t].name = n}

\* A request that will add a topic, and one that will give a topic name n.
Adds(q) == pc[q] = "derive" /\ req[q].op = "create"

Claims(q, n) ==
    \/ Adds(q) /\ req[q].name = n
    \/ /\ pc[q] \in {"derive", "write"} /\ req[q].op = "patch"
       /\ "name" \in req[q].changed /\ req[q].patch.name = n

Adding == {q \in Requests : Adds(q)}
Claiming(n) == {q \in Requests : Claims(q, n)}

CheckInv ==
    /\ IsFiniteSet(Owned)
    /\ Cardinality(Owned) + Cardinality(Adding) < Limit + Cardinality(Requests)
    /\ \A n \in Names :
        Cardinality(Named(n)) + Cardinality(Claiming(n)) <= Cardinality(Requests)

LEMMA SomeRequests ==
    ASSUME NEW S \in SUBSET Requests
    PROVE  /\ IsFiniteSet(S) /\ Cardinality(S) \in Nat /\ Cardinality(Requests) \in Nat
           /\ Cardinality(S) <= Cardinality(Requests)
BY TopicServiceAssumption, FS_Subset, FS_CardinalityType

LEMMA Shrinking ==
    ASSUME NEW A, NEW B, IsFiniteSet(A), IsFiniteSet(B),
           NEW C \in SUBSET A, NEW D \in SUBSET B
    PROVE  /\ IsFiniteSet(C)
           /\ Cardinality(C) + Cardinality(D) <= Cardinality(A) + Cardinality(B)
<1>1. /\ IsFiniteSet(C) /\ IsFiniteSet(D)
      /\ Cardinality(C) <= Cardinality(A) /\ Cardinality(D) <= Cardinality(B)
  BY FS_Subset
<1> QED BY <1>1, FS_CardinalityType

\* One request does what it was about to.
LEMMA Moving ==
    ASSUME NEW A, NEW B, IsFiniteSet(A), IsFiniteSet(B),
           NEW x, NEW y \in B, NEW C \in SUBSET (A \cup {x}), NEW D \in SUBSET (B \ {y})
    PROVE  /\ IsFiniteSet(C)
           /\ Cardinality(C) + Cardinality(D) <= Cardinality(A) + Cardinality(B)
<1>1. Cardinality(A) \in Nat /\ Cardinality(B) \in Nat
  BY FS_CardinalityType
<1>2. IsFiniteSet(A \cup {x}) /\ Cardinality(A \cup {x}) <= Cardinality(A) + 1
  <2>1. Cardinality(A \cup {x}) = IF x \in A THEN Cardinality(A) ELSE Cardinality(A) + 1
    BY FS_AddElement
  <2>2. IsFiniteSet(A \cup {x})
    BY FS_AddElement
  <2> QED BY <1>1, <2>1, <2>2
<1>3. IsFiniteSet(B \ {y}) /\ Cardinality(B \ {y}) = Cardinality(B) - 1
  BY FS_RemoveElement
<1>4. /\ IsFiniteSet(C) /\ IsFiniteSet(D)
      /\ Cardinality(C) <= Cardinality(A \cup {x}) /\ Cardinality(D) <= Cardinality(B \ {y})
  BY <1>2, <1>3, FS_Subset
<1>5. Cardinality(C) \in Nat /\ Cardinality(D) \in Nat /\ Cardinality(A \cup {x}) \in Nat
  BY <1>2, <1>4, FS_CardinalityType
<1> QED BY <1>1, <1>2, <1>3, <1>4, <1>5

\* A step that asks for nothing new, one that asks for what nobody has, and one
\* that does what was asked for before.
LEMMA StillChecked ==
    ASSUME CheckInv,
           \/ Owned' \subseteq Owned /\ Adding' \subseteq Adding
           \/ Owned' \subseteq Owned /\ BelowLimit
           \/ \E t \in Topics, q \in Adding :
                Owned' \subseteq Owned \cup {t} /\ Adding' \subseteq Adding \ {q},
           \A n \in Names :
            \/ Named(n)' \subseteq Named(n) /\ Claiming(n)' \subseteq Claiming(n)
            \/ Named(n)' = {}
            \/ \E t \in Topics, q \in Claiming(n) :
                /\ Named(n)' \subseteq Named(n) \cup {t}
                /\ Claiming(n)' \subseteq Claiming(n) \ {q}
    PROVE  CheckInv'
<1>1. /\ IsFiniteSet(Owned) /\ Cardinality(Owned) \in Nat
      /\ Cardinality(Requests) \in Nat /\ Limit \in Nat
  BY FS_CardinalityType, SomeRequests, TopicServiceAssumption DEF CheckInv
<1>2. /\ IsFiniteSet(Adding) /\ IsFiniteSet(Adding')
      /\ Cardinality(Adding) \in Nat /\ Cardinality(Adding') \in Nat
      /\ Cardinality(Adding') <= Cardinality(Requests)
  <2>1. Adding \in SUBSET Requests /\ Adding' \in SUBSET Requests
    BY DEF Adding
  <2> QED BY <2>1, SomeRequests
<1>3. /\ IsFiniteSet(Owned')
      /\ Cardinality(Owned') + Cardinality(Adding') < Limit + Cardinality(Requests)
  <2>1. CASE Owned' \subseteq Owned /\ Adding' \subseteq Adding
    <3>1. /\ IsFiniteSet(Owned')
          /\ Cardinality(Owned') + Cardinality(Adding')
                <= Cardinality(Owned) + Cardinality(Adding)
      BY <1>1, <1>2, <2>1, Shrinking
    <3> QED BY <1>1, <1>2, <3>1, FS_CardinalityType DEF CheckInv
  <2>2. CASE Owned' \subseteq Owned /\ BelowLimit
    <3>1. IsFiniteSet(Owned') /\ Cardinality(Owned') <= Cardinality(Owned)
      BY <1>1, <2>2, FS_Subset
    <3>2. Cardinality(Owned') \in Nat
      BY <3>1, FS_CardinalityType
    <3> QED BY <1>1, <1>2, <2>2, <3>1, <3>2 DEF BelowLimit
  <2>3. ASSUME NEW t \in Topics, NEW q \in Adding,
               Owned' \subseteq Owned \cup {t}, Adding' \subseteq Adding \ {q}
        PROVE  /\ IsFiniteSet(Owned')
               /\ Cardinality(Owned') + Cardinality(Adding') < Limit + Cardinality(Requests)
    <3>1. /\ IsFiniteSet(Owned')
          /\ Cardinality(Owned') + Cardinality(Adding')
                <= Cardinality(Owned) + Cardinality(Adding)
      BY <1>1, <1>2, <2>3, Moving
    <3> QED BY <1>1, <1>2, <3>1, FS_CardinalityType DEF CheckInv
  <2> QED BY <2>1, <2>2, <2>3
<1>4. ASSUME NEW n \in Names
      PROVE  Cardinality(Named(n)') + Cardinality(Claiming(n)') <= Cardinality(Requests)
  <2>1. /\ Claiming(n) \in SUBSET Requests /\ Claiming(n)' \in SUBSET Requests
        /\ Named(n) \in SUBSET Owned /\ Named(n)' \in SUBSET Owned'
    BY DEF Claiming, Named
  <2>2. /\ IsFiniteSet(Claiming(n)) /\ IsFiniteSet(Claiming(n)')
        /\ IsFiniteSet(Named(n)) /\ IsFiniteSet(Named(n)')
        /\ Cardinality(Claiming(n)') <= Cardinality(Requests)
    BY <1>1, <1>3, <2>1, SomeRequests, FS_Subset
  <2>3. /\ Cardinality(Claiming(n)) \in Nat /\ Cardinality(Claiming(n)') \in Nat
        /\ Cardinality(Named(n)) \in Nat /\ Cardinality(Named(n)') \in Nat
    BY <2>2, FS_CardinalityType
  <2>4. CASE Named(n)' = {}
    <3>1. Cardinality(Named(n)') = 0
      BY <2>4, FS_EmptySet
    <3> QED BY <2>2, <2>3, <3>1
  <2>5. CASE Named(n)' \subseteq Named(n) /\ Claiming(n)' \subseteq Claiming(n)
    <3>1. Cardinality(Named(n)') + Cardinality(Claiming(n)')
            <= Cardinality(Named(n)) + Cardinality(Claiming(n))
      BY <2>2, <2>5, Shrinking
    <3> QED BY <1>1, <2>3, <3>1 DEF CheckInv
  <2>6. ASSUME NEW t \in Topics, NEW q \in Claiming(n),
               Named(n)' \subseteq Named(n) \cup {t}, Claiming(n)' \subseteq Claiming(n) \ {q}
        PROVE  Cardinality(Named(n)') + Cardinality(Claiming(n)') <= Cardinality(Requests)
    <3>1. Cardinality(Named(n)') + Cardinality(Claiming(n)')
            <= Cardinality(Named(n)) + Cardinality(Claiming(n))
      BY <2>2, <2>6, Moving
    <3> QED BY <1>1, <2>3, <3>1 DEF CheckInv
  <2> QED BY <2>4, <2>5, <2>6
<1> QED BY <1>3, <1>4 DEF CheckInv

LEMMA OthersClaim ==
    ASSUME NEW q \in Requests, OthersKept(q), NEW p \in Requests \ {q}
    PROVE  /\ Adds(p)' <=> Adds(p)
           /\ \A n : Claims(p, n)' <=> Claims(p, n)
BY DEF OthersKept, Adds, Claims

\* A step of a request that asks for nothing more than it did.
LEMMA NothingAsked ==
    ASSUME CheckInv, NEW q \in Requests, OthersKept(q),
           Adds(q)' => Adds(q), \A n \in Names : Claims(q, n)' => Claims(q, n),
           Owned' \subseteq Owned, \A t \in Owned' : topics'[t] = topics[t]
    PROVE  CheckInv'
<1>1. Adding' \subseteq Adding
  BY OthersClaim DEF Adding
<1>2. \A n \in Names : Named(n)' \subseteq Named(n) /\ Claiming(n)' \subseteq Claiming(n)
  BY OthersClaim DEF Named, Claiming
<1> QED BY <1>1, <1>2, StillChecked

LEMMA CheckStep ==
    ASSUME Typed, CheckInv, [Next]_vars
    PROVE  CheckInv'
<1> USE DEF Typed
<1>1. ASSUME NEW q \in Requests, UNCHANGED topics, OthersKept(q),
             pc'[q] \notin {"derive", "write"}
      PROVE  CheckInv'
  <2>1. Owned' = Owned
    BY <1>1 DEF Owned
  <2>2. ~Adds(q)' /\ \A n : ~Claims(q, n)'
    BY <1>1 DEF Adds, Claims
  <2> QED BY <1>1, <2>1, <2>2, NothingAsked
<1>2. ASSUME NEW q \in Requests,
             \/ RowGone(q) \/ Dispatch(q) \/ CallFails(q) \/ Crash(q) \/ PutCommit(q)
             \/ CheckDebounce(q) \/ SetDebounce(q) \/ SendTask(q) \/ Remember(q)
      PROVE  CheckInv'
  <2>1. UNCHANGED topics
    BY <1>2 DEF RowGone, Dispatch, CallFails, Crash, PutCommit, CheckDebounce, SetDebounce,
                SendTask, Remember, tables
  <2>2. CASE End(q)
    BY <1>1, <2>1, <2>2, EndOwn
  <2>3. CASE UNCHANGED req /\ \E s \in {"set", "send", "remember"} : Goto(q, s)
    <3>1. OthersKept(q) /\ pc'[q] \in {"set", "send", "remember"}
      BY <2>3 DEF Goto, RequestType, OthersKept
    <3> QED BY <1>1, <2>1, <3>1
  <2> QED BY <1>2, <2>2, <2>3 DEF RowGone, Dispatch, CallFails, Crash, PutCommit,
                                  CheckDebounce, SetDebounce, SendTask, Remember
<1>3. ASSUME NEW q \in Requests, PutBegin(q) \/ Trigger(q)
      PROVE  CheckInv'
  <2>1. UNCHANGED topics
    BY <1>3 DEF PutBegin, Trigger, tables
  <2>2. \E step \in {"put", "debounce"} : \E r : Begin(q, step, r)
    BY <1>3 DEF PutBegin, Trigger
  <2>3. OthersKept(q) /\ pc'[q] \in {"put", "debounce"}
    BY <2>2, BeginOwn
  <2> QED BY <1>1, <2>1, <2>3
<1>4. CASE Schedule \/ TaskEnds \/ DebounceExpires \/ TaskKeyExpires \/ UNCHANGED vars
  <2>1. UNCHANGED <<topics, pc, req>>
    BY <1>4 DEF Schedule, TaskEnds, DebounceExpires, TaskKeyExpires, vars, tables
  <2>2. Owned' = Owned /\ Adding' = Adding
        /\ \A n \in Names : Named(n)' = Named(n) /\ Claiming(n)' = Claiming(n)
    BY <2>1 DEF Owned, Adding, Adds, Named, Claiming, Claims
  <2> QED BY <2>2, StillChecked
<1>5. ASSUME NEW q \in Requests, Derived(q)
      PROVE  CheckInv'
  <2>1. UNCHANGED <<topics, req>> /\ OthersKept(q) /\ pc'[q] = "write" /\ pc[q] = "derive"
        /\ req[q].op = "patch"
    BY <1>5 DEF Derived, tables, Goto, RequestType, OthersKept
  <2>2. Owned' = Owned
    BY <2>1 DEF Owned
  <2>3. ~Adds(q)' /\ \A n : Claims(q, n)' => Claims(q, n)
    BY <2>1 DEF Adds, Claims
  <2> QED BY <2>1, <2>2, <2>3, NothingAsked
<1>6. ASSUME NEW q \in Requests, Delete(q)
      PROVE  CheckInv'
  <2> PICK t \in Owned : topics' = [topics EXCEPT ![t] = Deleted]
    BY <1>6 DEF Delete
  <2>1. UNCHANGED <<pc, req>>
    BY <1>6 DEF Delete
  <2>2. Owned' \subseteq Owned /\ \A u \in Owned' : topics'[u] = topics[u]
    BY OwnedTopic DEF TableType, Owned
  <2>3. OthersKept(q) /\ (Adds(q)' => Adds(q)) /\ \A n \in Names : Claims(q, n)' => Claims(q, n)
    BY <2>1 DEF OthersKept, Adds, Claims
  <2> QED BY <2>2, <2>3, NothingAsked
\* A request begins that asks for a name nobody has.
<1>7. ASSUME NEW q \in Requests, NEW step, NEW r, Begin(q, step, r), UNCHANGED topics,
             r.op = "create" => BelowLimit,
             \A n \in Names :
                \/ r.op = "create" /\ r.name = n
                \/ r.op = "patch" /\ "name" \in r.changed /\ r.patch.name = n
                => Named(n) = {}
      PROVE  CheckInv'
  <2>1. OthersKept(q) /\ req'[q] = r
    BY <1>7, BeginOwn
  <2>2. Owned' = Owned /\ \A n : Named(n)' = Named(n)
    BY <1>7 DEF Owned, Named
  <2>3. BelowLimit \/ Adding' \subseteq Adding
    <3>1. Adds(q)' => BelowLimit
      BY <1>7, <2>1 DEF Adds
    <3> QED BY <2>1, <3>1, OthersClaim DEF Adding
  <2>4. ASSUME NEW n \in Names
        PROVE  Named(n)' = {} \/ Claiming(n)' \subseteq Claiming(n)
    <3>1. Claims(q, n)' => Named(n) = {}
      BY <1>7, <2>1 DEF Claims, Adds
    <3> QED BY <2>1, <2>2, <3>1, OthersClaim DEF Claiming
  <2> QED BY <2>2, <2>3, <2>4, StillChecked
<1>8. ASSUME NEW q \in Requests, Create(q)
      PROVE  CheckInv'
  <2> PICK name \in Names, text \in Texts :
        /\ ~Taken(name, {}) /\ BelowLimit
        /\ Begin(q, "derive", [op |-> "create", id |-> served + 1, name |-> name, text |-> text])
    BY <1>8 DEF Create
  <2> DEFINE r == [op |-> "create", id |-> served + 1, name |-> name, text |-> text]
  <2>1. r.op = "create" /\ r.name = name
    OBVIOUS
  <2>2. Named(name) = {}
    BY DEF Taken, Named
  <2>3. UNCHANGED topics
    BY <1>8 DEF Create, tables
  <2> HIDE DEF r
  <2>4. Begin(q, "derive", r)
    BY DEF r
  <2> QED BY <1>7, <2>1, <2>2, <2>3, <2>4
<1>9. ASSUME NEW q \in Requests, Patch(q)
      PROVE  CheckInv'
  <2> PICK t \in Owned, p \in Patches, step \in {"derive", "write"} :
        /\ Has(p, "name") => ~Taken(p.name, {t})
        /\ Begin(q, step, Patched(t, p))
        /\ Patched(t, p).changed \subseteq DOMAIN p
    BY <1>9, PatchedFields
  <2>1. /\ Patched(t, p).op = "patch" /\ Patched(t, p).patch = p
        /\ "name" \in Patched(t, p).changed => p.name # topics[t].name
    BY DEF Patched
  <2>2. ASSUME "name" \in Patched(t, p).changed
        PROVE  Named(p.name) = {}
    BY <2>1, <2>2 DEF Has, Taken, Named
  <2>3. UNCHANGED topics
    BY <1>9 DEF Patch, tables
  <2> QED BY <1>7, <2>1, <2>2, <2>3
\* A request does what it asked for.
<1>10. ASSUME NEW q \in Requests, NEW t \in Topics, NEW row \in Topic, OthersKept(q),
              pc'[q] = "dispatch", topics' = [topics EXCEPT ![t] = row],
              t \in Owned \/ Adds(q),
              Claims(q, row.name) \/ (t \in Owned /\ row.name = topics[t].name)
       PROVE  CheckInv'
  <2>1. ~Adds(q)' /\ \A n : ~Claims(q, n)'
    BY <1>10 DEF Adds, Claims
  <2>2. Adding' \subseteq Adding \ {q} /\ \A n : Claiming(n)' \subseteq Claiming(n) \ {q}
    BY <1>10, <2>1, OthersClaim DEF Adding, Claiming
  <2>3. Owned' = Owned \cup {t}
    BY <1>10, RowWritten
  <2>4. \A u \in Owned' : u # t => u \in Owned /\ topics'[u] = topics[u]
    BY <1>10, <2>3, OwnedTopic DEF TableType
  <2>5. topics'[t] = row
    BY <1>10 DEF TableType
  <2>6. ASSUME NEW n \in Names
        PROVE  \/ Named(n)' \subseteq Named(n) /\ Claiming(n)' \subseteq Claiming(n)
               \/ /\ q \in Claiming(n)
                  /\ Named(n)' \subseteq Named(n) \cup {t}
    <3>1. Named(n)' \subseteq Named(n) \cup {t}
      BY <2>4 DEF Named
    <3>2. CASE row.name # n
      BY <2>2, <2>4, <2>5, <3>2 DEF Named
    <3>3. CASE row.name = n /\ Claims(q, n)
      BY <3>1, <3>3 DEF Claiming
    <3>4. CASE row.name = n /\ t \in Owned /\ row.name = topics[t].name
      BY <2>2, <3>1, <3>4 DEF Named
    <3> QED BY <1>10, <3>2, <3>3, <3>4
  <2>7. \/ Owned' \subseteq Owned /\ Adding' \subseteq Adding
        \/ q \in Adding /\ Owned' \subseteq Owned \cup {t} /\ Adding' \subseteq Adding \ {q}
    BY <1>10, <2>2, <2>3 DEF Adding
  <2> QED BY <2>2, <2>6, <2>7, StillChecked
<1>11. ASSUME NEW q \in Requests, CreateCommit(q)
       PROVE  CheckInv'
  <2> PICK t \in Topics : t = CHOOSE u \in Topics : topics[u] = Absent
    BY <1>11 DEF CreateCommit
  <2> DEFINE made == [name |-> req[q].name, text |-> req[q].text, by |-> req[q].id]
             row == [name |-> req[q].name, text |-> req[q].text, active |-> TRUE, made |-> made]
             r == [op |-> "create", id |-> req[q].id, topic |-> t, backfill |-> TRUE]
  <2>1. req[q] \in Creating /\ Adds(q)
    BY <1>11, ReqAt DEF CreateCommit, Adds
  <2>2. row \in Topic /\ row.name = req[q].name
    BY <2>1 DEF Creating, Derivation, Topic
  <2>3. topics' = [topics EXCEPT ![t] = row] /\ Goto(q, "dispatch") /\ req' = [req EXCEPT ![q] = r]
    BY <1>11 DEF CreateCommit
  <2>4. OthersKept(q) /\ pc'[q] = "dispatch"
    BY <2>3, GotoOwn
  <2> HIDE DEF made, row, r
  <2>5. Claims(q, row.name)
    BY <2>1, <2>2 DEF Claims
  <2> PICK w \in Topic : w = row
    BY <2>2
  <2> QED BY <1>10, <2>1, <2>3, <2>4, <2>5
<1>12. ASSUME NEW q \in Requests, PatchCommit(q)
       PROVE  CheckInv'
  <2> PICK t \in Owned : t = req[q].topic
    BY <1>12, CommitFacts
  <2> DEFINE derived == IF Rewrites(q) THEN Made(q) ELSE topics[t].made
             r == [op |-> "patch", id |-> req[q].id, topic |-> t,
                   backfill |-> req[q].backfill \/ Rewrites(q)]
  <2>1. t \in Topics /\ derived \in Derivation /\ req[q] \in Patching
    BY <1>12, CommitFacts, OwnedTopic
  <2>2. /\ pc[q] = "write" /\ Goto(q, "dispatch")
        /\ WriteColumns(q, t, derived)
        /\ req' = [req EXCEPT ![q] = r]
    BY <1>12 DEF PatchCommit, Rewrites, Made, RequestType
  <2> HIDE DEF derived, r
  <2>3. OthersKept(q) /\ pc'[q] = "dispatch"
    BY <2>2, GotoOwn
  <2> PICK row \in Topic :
        /\ topics' = [topics EXCEPT ![t] = row]
        /\ row.name = IF "name" \in req[q].changed THEN req[q].patch.name
                                                   ELSE topics[t].name
    BY <2>1, <2>2, WrittenRow
  <2>4. Claims(q, row.name) \/ row.name = topics[t].name
    BY <2>1, <2>2 DEF Claims, Patching
  <2> QED BY <1>10, <2>1, <2>3, <2>4
<1> QED BY <1>2, <1>3, <1>4, <1>5, <1>6, <1>8, <1>9, <1>11, <1>12 DEF Next

\* The limit of a user's topics is overrun by less than the requests that can be
\* under way, and a name is given at most as often.
THEOREM ChecksHold == Spec => []ChecksHoldUpToRaces
<1>1. Init => Typed /\ CheckInv
  <2> SUFFICES ASSUME Init PROVE CheckInv
    BY TypedInit
  <2>1. Owned = {} /\ Adding = {} /\ \A n : Named(n) = {} /\ Claiming(n) = {}
    BY DEF Init, Owned, Adding, Adds, Named, Claiming, Claims
  <2>2. Cardinality(Requests) \in Nat /\ Limit \in Nat \ {0}
    BY SomeRequests, TopicServiceAssumption
  <2> QED BY <2>1, <2>2, FS_EmptySet DEF CheckInv
<1>2. Typed /\ CheckInv /\ [Next]_vars => (Typed /\ CheckInv)'
  BY TypedStep, CheckStep
<1>3. CheckInv => ChecksHoldUpToRaces
  <2> SUFFICES ASSUME CheckInv PROVE ChecksHoldUpToRaces
    OBVIOUS
  <2>1. Cardinality(Adding) \in Nat /\ Cardinality(Requests) \in Nat /\ Limit \in Nat
        /\ Cardinality(Owned) \in Nat
    BY SomeRequests, FS_CardinalityType, TopicServiceAssumption DEF Adding, CheckInv
  <2>2. \A n \in Names :
            Cardinality(Named(n)) \in Nat /\ Cardinality(Claiming(n)) \in Nat
    <3> TAKE n \in Names
    <3>1. Named(n) \subseteq Owned /\ Claiming(n) \subseteq Requests
      BY DEF Named, Claiming
    <3>2. IsFiniteSet(Named(n)) /\ IsFiniteSet(Claiming(n))
      BY <3>1, FS_Subset, SomeRequests DEF CheckInv
    <3> QED BY <3>2, FS_CardinalityType
  <2>3. Cardinality(Owned) < Limit + Cardinality(Requests)
    BY <2>1 DEF CheckInv
  <2>4. \A n \in Names : Cardinality(Named(n)) <= Cardinality(Requests)
    BY <2>1, <2>2 DEF CheckInv
  <2> QED BY <2>3, <2>4 DEF ChecksHoldUpToRaces, Named
<1> QED BY <1>1, <1>2, <1>3, PTL DEF Spec

-----------------------------------------------------------------------------
(* PUTs replace the channels, up to races *)

\* The requests whose rows topic t has.
Setters(t) == {r[2] : r \in channels[t]}

\* If request p is about to replace the channels of t, it will delete i's rows.
WouldDelete(p, t, i) ==
    pc[p] = "put" /\ req[p].topic = t =>
        \A r \in channels[t] : r[2] = i => r \in req[p].seen

\* Each request whose rows a topic still has can be charged to a slot of its own,
\* one whose PUT would delete them: when that PUT commits, the slot is free for
\* the rows it inserts.
Charged(t) ==
    \E f \in Injection(Setters(t), Requests) :
        \A i \in Setters(t) : WouldDelete(f[i], t, i)

PutInv == \A t \in Topics : Charged(t)

LEMMA InjectionIs ==
    ASSUME NEW S, NEW T, NEW f
    PROVE  f \in Injection(S, T) <=>
             f \in [S -> T] /\ \A x, y \in S : f[x] = f[y] => x = y
BY DEF Injection, IsInjective

\* Charges stand while the rows do, and nobody goes on to replace them who has not
\* seen them.
LEMMA ChargesKept ==
    ASSUME NEW t \in Topics, Charged(t), channels'[t] = channels[t],
           \A p \in Requests : pc'[p] = "put" /\ req'[p].topic = t =>
               \/ pc[p] = "put" /\ req'[p] = req[p]
               \/ req'[p].seen = channels[t]
    PROVE  Charged(t)'
<1>1. PICK f \in Injection(Setters(t), Requests) :
        \A i \in Setters(t) : WouldDelete(f[i], t, i)
  BY DEF Charged
<1>2. Setters(t)' = Setters(t)
  BY DEF Setters
<1>3. ASSUME NEW i \in Setters(t) PROVE WouldDelete(f[i], t, i)'
  <2>1. f[i] \in Requests /\ WouldDelete(f[i], t, i)
    BY <1>1, InjectionIs
  <2> QED BY <2>1 DEF WouldDelete
<1> QED BY <1>1, <1>2, <1>3 DEF Charged

\* A request that is not replacing channels, before or after, moves no charge.
LEMMA OthersCharge ==
    ASSUME PutInv, NEW q \in Requests, OthersKept(q), pc'[q] # "put", UNCHANGED channels
    PROVE  PutInv'
<1> SUFFICES ASSUME NEW t \in Topics PROVE Charged(t)'
  BY DEF PutInv
<1>1. \A p \in Requests : pc'[p] = "put" /\ req'[p].topic = t =>
        pc[p] = "put" /\ req'[p] = req[p]
  BY DEF OthersKept
<1> QED BY <1>1, ChargesKept DEF PutInv

LEMMA CreateCharge ==
    ASSUME Typed, PutInv, NEW q \in Requests, CreateCommit(q) PROVE PutInv'
<1>0. PICK t, id : t = (CHOOSE u \in Topics : topics[u] = Absent) /\ id = req[q].id
  OBVIOUS
<1>1. t \in Topics
  BY <1>0 DEF CreateCommit
<1> DEFINE r == [op |-> "create", id |-> id, topic |-> t, backfill |-> TRUE]
<1>2. /\ channels' = [channels EXCEPT ![t] = {<<"websocket", id>>}]
      /\ req' = [req EXCEPT ![q] = r] /\ Goto(q, "dispatch")
  BY <1>0 DEF CreateCommit
<1> HIDE DEF r
<1>3. OthersKept(q) /\ pc'[q] = "dispatch"
  BY <1>2, GotoOwn DEF Typed
<1>4. channels'[t] = {<<"websocket", id>>}
      /\ \A u \in Topics \ {t} : channels'[u] = channels[u]
  BY <1>1, <1>2 DEF Typed, TableType
<1> SUFFICES ASSUME NEW u \in Topics PROVE Charged(u)'
  BY DEF PutInv
<1>5. CASE u # t
  <2>1. \A p \in Requests : pc'[p] = "put" /\ req'[p].topic = u =>
          pc[p] = "put" /\ req'[p] = req[p]
    BY <1>3 DEF OthersKept
  <2> QED BY <1>4, <1>5, <2>1, ChargesKept DEF PutInv
<1>6. CASE u = t
  <2> DEFINE f == [i \in {id} |-> q]
  <2>1. Setters(t)' = {id}
    BY <1>4 DEF Setters
  <2>2. f \in Injection({id}, Requests)
    BY InjectionIs
  <2>3. \A i \in {id} : WouldDelete(f[i], t, i)'
    BY <1>3 DEF WouldDelete
  <2> HIDE DEF f
  <2> QED BY <1>6, <2>1, <2>2, <2>3 DEF Charged
<1> QED BY <1>5, <1>6

LEMMA DeleteCharge ==
    ASSUME Typed, PutInv, NEW q \in Requests, Delete(q) PROVE PutInv'
<1>1. PICK t \in Owned : channels' = [channels EXCEPT ![t] = {}]
  BY DEF Delete
<1>2. t \in Topics /\ UNCHANGED <<pc, req>>
  BY DEF Delete, Owned
<1>3. channels'[t] = {} /\ \A u \in Topics \ {t} : channels'[u] = channels[u]
  BY <1>1, <1>2 DEF Typed, TableType
<1> SUFFICES ASSUME NEW u \in Topics PROVE Charged(u)'
  BY DEF PutInv
<1>4. CASE u # t
  BY <1>2, <1>3, <1>4, ChargesKept DEF PutInv
<1>5. CASE u = t
  <2> DEFINE f == [i \in {} |-> q]
  <2>1. Setters(t)' = {}
    BY <1>3 DEF Setters
  <2>2. f \in Injection({}, Requests)
    BY InjectionIs
  <2> HIDE DEF f
  <2> QED BY <1>5, <2>1, <2>2 DEF Charged
<1> QED BY <1>4, <1>5

LEMMA BeginCharge ==
    ASSUME Typed, PutInv, NEW q \in Requests, PutBegin(q) PROVE PutInv'
<1> PICK t \in Owned, want \in ChannelSets :
      Begin(q, "put", [op |-> "put", id |-> served + 1, topic |-> t,
                       want |-> want, seen |-> channels[t]])
  BY DEF PutBegin
<1> DEFINE r == [op |-> "put", id |-> served + 1, topic |-> t,
                 want |-> want, seen |-> channels[t]]
<1>1. r.topic = t /\ r.seen = channels[t]
  OBVIOUS
<1> HIDE DEF r
<1>2. Begin(q, "put", r)
  BY DEF r
<1>3. OthersKept(q) /\ req'[q] = r
  BY <1>2, BeginOwn DEF Typed
<1>4. channels' = channels
  BY DEF PutBegin, tables
<1> SUFFICES ASSUME NEW u \in Topics PROVE Charged(u)'
  BY DEF PutInv
<1>5. \A p \in Requests : pc'[p] = "put" /\ req'[p].topic = u =>
        \/ pc[p] = "put" /\ req'[p] = req[p]
        \/ req'[p].seen = channels[u]
  BY <1>1, <1>3 DEF OthersKept
<1> QED BY <1>4, <1>5, ChargesKept DEF PutInv

\* The rows a PUT leaves were not charged to it, and it is charged with its own.
LEMMA ReplaceCharge ==
    ASSUME PutInv, NEW q \in Requests, NEW t \in Topics, NEW kept, NEW own, NEW id,
           pc[q] = "put", req[q].topic = t, OthersKept(q), pc'[q] = "idle",
           kept = channels[t] \ req[q].seen, \A r \in own : r[2] = id,
           channels'[t] = kept \cup own
    PROVE  Charged(t)'
<1>1. PICK f \in Injection(Setters(t), Requests) :
        \A i \in Setters(t) : WouldDelete(f[i], t, i)
  BY DEF PutInv, Charged
<1>2. /\ f \in [Setters(t) -> Requests]
      /\ \A i, j \in Setters(t) : f[i] = f[j] => i = j
  BY <1>1, InjectionIs
<1>3. PICK S : S = Setters(t)'
  OBVIOUS
<1>4. ASSUME NEW i \in S, i # id
      PROVE  /\ i \in Setters(t) /\ f[i] # q
             /\ \A r \in channels'[t] : r[2] = i => r \in kept
  <2>1. \A r \in channels'[t] : r[2] = i => r \in kept
    BY <1>4
  <2>2. PICK r \in channels'[t] : r[2] = i
    BY <1>3 DEF Setters
  <2>3. r \in channels[t] /\ r \notin req[q].seen
    BY <2>1, <2>2
  <2>4. i \in Setters(t)
    BY <2>2, <2>3 DEF Setters
  <2>5. f[i] # q
    BY <1>1, <2>2, <2>3, <2>4 DEF WouldDelete
  <2> QED BY <2>1, <2>4, <2>5
<1> DEFINE g == [i \in S |-> IF i = id THEN q ELSE f[i]]
<1>5. g \in Injection(S, Requests)
  <2>1. g \in [S -> Requests] /\ \A i, j \in S : g[i] = g[j] => i = j
    BY <1>2, <1>4
  <2> HIDE DEF g
  <2> QED BY <2>1, InjectionIs
<1>6. ASSUME NEW i \in S PROVE WouldDelete(g[i], t, i)'
  <2>1. CASE i = id
    BY <2>1 DEF WouldDelete
  <2>2. CASE i # id
    <3>1. g[i] = f[i] /\ f[i] \in Requests \ {q} /\ WouldDelete(f[i], t, i)
      BY <1>1, <1>2, <1>4, <2>2
    <3>2. pc'[f[i]] = pc[f[i]] /\ req'[f[i]] = req[f[i]]
      BY <3>1 DEF OthersKept
    <3>3. \A r \in channels'[t] : r[2] = i => r \in channels[t]
      BY <1>4, <2>2
    <3> HIDE DEF g
    <3> QED BY <3>1, <3>2, <3>3 DEF WouldDelete
  <2> QED BY <2>1, <2>2
<1> HIDE DEF g
<1> QED BY <1>3, <1>5, <1>6 DEF Charged

LEMMA PutCharge ==
    ASSUME Typed, PutInv, NEW q \in Requests, PutCommit(q) PROVE PutInv'
<1>1. PICK t, kept, own, id :
        /\ t = req[q].topic /\ kept = channels[t] \ req[q].seen
        /\ own = req[q].want \X {id} /\ id = req[q].id
  OBVIOUS
<1>2. pc[q] = "put" /\ t \in Topics /\ End(q)
  BY <1>1 DEF PutCommit, Owned
<1>3. OthersKept(q) /\ pc'[q] = "idle"
  BY <1>2, EndOwn DEF Typed
<1>4. CASE channels' = channels
  BY <1>3, <1>4, OthersCharge
<1>5. CASE channels' = [channels EXCEPT ![t] = kept \cup own]
  <2>1. channels'[t] = kept \cup own /\ \A u \in Topics \ {t} : channels'[u] = channels[u]
    BY <1>2, <1>5 DEF Typed, TableType
  <2>2. ASSUME NEW u \in Topics \ {t} PROVE Charged(u)'
    <3>1. \A p \in Requests : pc'[p] = "put" /\ req'[p].topic = u =>
            pc[p] = "put" /\ req'[p] = req[p]
      BY <1>3 DEF OthersKept
    <3> QED BY <2>1, <3>1, ChargesKept DEF PutInv
  <2>3. Charged(t)'
    <3>1. \A r \in own : r[2] = id
      BY <1>1
    <3>2. req[q].topic = t /\ kept = channels[t] \ req[q].seen /\ pc[q] = "put"
      BY <1>1, <1>2
    <3>3. channels'[t] = kept \cup own
      BY <2>1
    <3> QED BY <1>2, <1>3, <3>1, <3>2, <3>3, ReplaceCharge
  <2> QED BY <2>2, <2>3 DEF PutInv
<1> QED BY <1>1, <1>4, <1>5 DEF PutCommit

LEMMA PutStep == ASSUME Typed, PutInv, [Next]_vars PROVE PutInv'
<1>1. ASSUME NEW q \in Requests, NEW step, step # "put", UNCHANGED channels,
             \E r : Begin(q, step, r)
      PROVE  PutInv'
  <2>1. OthersKept(q) /\ pc'[q] = step
    BY <1>1, BeginOwn DEF Typed
  <2> QED BY <1>1, <2>1, OthersCharge
<1>2. ASSUME NEW q \in Requests, NEW step, Goto(q, step), step # "put", UNCHANGED channels,
             \E r : req' = [req EXCEPT ![q] = r]
      PROVE  PutInv'
  <2>1. OthersKept(q) /\ pc'[q] = step
    BY <1>2, GotoOwn DEF Typed
  <2> QED BY <1>2, <2>1, OthersCharge
<1>3. ASSUME NEW q \in Requests, End(q), UNCHANGED channels PROVE PutInv'
  BY <1>3, EndOwn, OthersCharge DEF Typed
<1>4. ASSUME UNCHANGED <<channels, pc, req>> PROVE PutInv'
  BY <1>4, ChargesKept DEF PutInv
<1>5. \A q \in Requests : req = [req EXCEPT ![q] = req[q]]
  BY DEF Typed, RequestType
<1>6. ASSUME NEW q \in Requests, Create(q) \/ Patch(q) \/ Trigger(q) PROVE PutInv'
  <2>1. UNCHANGED channels
    BY <1>6 DEF Create, Patch, Trigger, tables
  <2>2. CASE Create(q)
    <3> PICK name \in Names, text \in Texts :
          Begin(q, "derive", [op |-> "create", id |-> served + 1, name |-> name, text |-> text])
      BY <2>2 DEF Create
    <3> QED BY <1>1, <2>1
  <2>3. CASE Patch(q)
    <3> PICK t \in Owned, p \in Patches, step \in {"derive", "write"} :
          Begin(q, step, Patched(t, p))
      BY <2>3, PatchedFields
    <3> QED BY <1>1, <2>1
  <2>4. CASE Trigger(q)
    <3> PICK t \in Owned :
          Begin(q, "debounce", [op |-> "trigger", id |-> served + 1, topic |-> t])
      BY <2>4 DEF Trigger
    <3> QED BY <1>1, <2>1
  <2> QED BY <1>6, <2>2, <2>3, <2>4
<1>7. ASSUME NEW q \in Requests, Derived(q) \/ PatchCommit(q) \/ SetDebounce(q) \/ SendTask(q)
      PROVE  PutInv'
  <2>1. UNCHANGED channels
    BY <1>7 DEF Derived, PatchCommit, SetDebounce, SendTask, tables
  <2>2. \E r : req' = [req EXCEPT ![q] = r]
    BY <1>5, <1>7 DEF Derived, PatchCommit, SetDebounce, SendTask
  <2>3. Goto(q, "write") \/ Goto(q, "dispatch") \/ Goto(q, "send") \/ Goto(q, "remember")
    BY <1>7 DEF Derived, PatchCommit, SetDebounce, SendTask
  <2> QED BY <1>2, <2>1, <2>2, <2>3
<1>8. ASSUME NEW q \in Requests,
             RowGone(q) \/ Dispatch(q) \/ CallFails(q) \/ Remember(q) \/ Crash(q)
      PROVE  PutInv'
  BY <1>3, <1>8 DEF RowGone, Dispatch, CallFails, Remember, Crash, tables
<1>9. ASSUME NEW q \in Requests, CheckDebounce(q) PROVE PutInv'
  BY <1>2, <1>3, <1>5, <1>9 DEF CheckDebounce, tables
<1>10. ASSUME NEW q \in Requests, CreateCommit(q) \/ Delete(q) \/ PutBegin(q) \/ PutCommit(q)
       PROVE  PutInv'
  BY <1>10, CreateCharge, DeleteCharge, BeginCharge, PutCharge
<1>11. CASE Schedule \/ TaskEnds \/ DebounceExpires \/ TaskKeyExpires \/ UNCHANGED vars
  BY <1>4, <1>11 DEF Schedule, TaskEnds, DebounceExpires, TaskKeyExpires, vars, tables
<1> QED BY <1>6, <1>7, <1>8, <1>9, <1>10, <1>11 DEF Next

\* A topic's channels were never set by more requests than can be under way together:
\* a PUT deletes every row but those of requests that overlapped it (topics.py's
\* replace_topic_channels).
THEOREM PutsReplaceHolds == Spec => []PutsReplaceUpToRaces
<1>1. Init => PutInv
  <2> SUFFICES ASSUME Init, NEW t \in Topics PROVE Charged(t)
    BY DEF PutInv
  <2> DEFINE f == [i \in {} |-> {}]
  <2>1. Setters(t) = {}
    BY DEF Init, Setters
  <2>2. f \in Injection({}, Requests)
    BY InjectionIs
  <2> HIDE DEF f
  <2> QED BY <2>1, <2>2 DEF Charged
<1>2. PutInv => PutsReplaceUpToRaces
  <2> SUFFICES ASSUME PutInv, NEW t \in Topics
               PROVE  Cardinality(Setters(t)) <= Cardinality(Requests)
    BY DEF PutsReplaceUpToRaces, Setters
  <2>1. PICK f : f \in Injection(Setters(t), Requests)
    BY DEF PutInv, Charged
  <2> QED BY <2>1, FS_Injection, TopicServiceAssumption
<1>3. Typed /\ [Next]_vars => Typed'
  BY TypedStep
<1> QED BY <1>1, <1>2, <1>3, TypedInit, PutStep, PTL DEF Spec
=============================================================================
