------------------------------ MODULE WorkQueue ------------------------------
(***************************************************************************)
(* The table-as-queue of app/adapters/queue/pg_queue.py: the rows of ONE   *)
(* queue of queue_messages, and the workers that claim, handle and finish  *)
(* them (the pipeline consumer through PgQueue, the two alert consumers    *)
(* through AsyncPgQueue: one SQL text serves both).                        *)
(*                                                                         *)
(* A claim is a transaction of its own: it selects and locks rows (FOR     *)
(* UPDATE SKIP LOCKED), updates them, commits.  The work happens outside   *)
(* any transaction, so nothing but locked_at and the reaper's timeout      *)
(* ties a row to the worker that took it: ack, retry and fail address the  *)
(* row by id alone, whatever became of it meanwhile.                       *)
(*                                                                         *)
(* The answer of a statement can be lost with its connection after the     *)
(* statement committed.  PgQueue sends such a statement again, on a new    *)
(* connection; AsyncPgQueue raises.  Either way the worker goes on with a  *)
(* message whose row says something else than the worker believes:         *)
(*                                                                         *)
(*   working --> finished --> ack sent ------------------> next message    *)
(*      |            |          | answer lost         ^                    *)
(*      |            |       acking -- sent again ----+                    *)
(*      |            |          | raised              |                    *)
(*      +--- retry sent <-------+                     |                    *)
(*               | answer lost                        |                    *)
(*            retrying -------- sent again -----------+                    *)
(*                                                                         *)
(* (fail is drawn like retry, through failing).                            *)
(*                                                                         *)
(* Time is a row's age: the ticks since locked_at (a claimed row) or since *)
(* updated_at (a done row).  It stops counting one past the largest limit  *)
(* it is compared with, and attempts stops at AttemptCap > MaxAttempts;    *)
(* the code only ever compares both with those limits.                     *)
(***************************************************************************)
EXTENDS Integers, FiniteSets

CONSTANTS
    MaxId,              \* rows the BIGSERIAL hands out: the bound on the table
    Workers,            \* consumer replicas
    BatchSize,          \* CLAIM_BATCH_SIZE
    MaxAttempts,        \* DEFAULT_MAX_ATTEMPTS
    AttemptCap,         \* where the model stops counting attempts
    VisibilityTimeout,  \* DEFAULT_VISIBILITY_TIMEOUT_SECONDS, in ticks
    Retention,          \* how long purge_queue_messages keeps a done row
    MaxJob,             \* ticks the handling of one message can take
    MaxFaults,          \* crashes and lost connections a behaviour can have
    NoMsg,              \* "no message"
    Nobody              \* "no worker"

Ids == 1..MaxId

ASSUME SizesAssumption ==
    /\ MaxId \in Nat
    /\ BatchSize \in Nat \ {0}
    /\ MaxAttempts \in Nat \ {0}
    /\ AttemptCap \in Nat /\ AttemptCap > MaxAttempts
    /\ MaxFaults \in Nat
    /\ NoMsg \notin Ids
    /\ Nobody \notin Workers

ASSUME TimesAssumption ==
    /\ VisibilityTimeout \in Nat
    /\ Retention \in Nat /\ Retention >= VisibilityTimeout
    /\ MaxJob \in Nat

VARIABLES
    status,     \* the row's status; "absent" before INSERT, "deleted" after DELETE
    attempts,   \* the row's attempts
    age,        \* ticks since locked_at or updated_at
    pc,         \* where each worker is in its loop
    hand,       \* the rows a worker selected, then the batch claim() gave it
    cur,        \* the message a worker is handling
    busy,       \* ticks it has been handling it
    handled,    \* messages whose handler ran to completion at least once
    doubted,    \* history: messages of which an ack's, retry's or fail's answer was lost
    faults      \* crashes and lost connections so far

vars == <<status, attempts, age, pc, hand, cur, busy, handled, doubted, faults>>
rowVars == <<status, attempts, age>>

Statuses == {"absent", "pending", "processing", "done", "failed", "deleted"}
Settled  == {"done", "failed", "deleted"}
Handling == {"working", "finished", "acking", "retrying", "failing"}
PCs      == {"idle", "claiming", "batch"} \cup Handling
AgeCap   == Retention + 1

TypeOK ==
    /\ status \in [Ids -> Statuses]
    /\ attempts \in [Ids -> 0..AttemptCap]
    /\ age \in [Ids -> 0..AgeCap]
    /\ pc \in [Workers -> PCs]
    /\ hand \in [Workers -> SUBSET Ids]
    /\ cur \in [Workers -> Ids \cup {NoMsg}]
    /\ busy \in [Workers -> 0..MaxJob]
    /\ handled \in SUBSET Ids
    /\ doubted \in SUBSET Ids
    /\ faults \in 0..MaxFaults

Init ==
    /\ status = [m \in Ids |-> "absent"]
    /\ attempts = [m \in Ids |-> 0]
    /\ age = [m \in Ids |-> 0]
    /\ pc = [w \in Workers |-> "idle"]
    /\ hand = [w \in Workers |-> {}]
    /\ cur = [w \in Workers |-> NoMsg]
    /\ busy = [w \in Workers |-> 0]
    /\ handled = {}
    /\ doubted = {}
    /\ faults = 0

-----------------------------------------------------------------------------
(* Helpers *)

\* Mutant of Locked: a claim that takes no row locks.
NoLocks == {}

\* Rows inside a claim transaction that has not committed: every other claim
\* steps over them, every other UPDATE of them waits.
Locked == UNION {hand[w] : w \in {v \in Workers : pc[v] = "claiming"}}

\* ORDER BY id LIMIT BatchSize.
Lowest(S) == {m \in S : Cardinality({k \in S : k < m}) < BatchSize}

\* attempts = m.attempts + 1
Bump(n) == IF n < AttemptCap THEN n + 1 ELSE n

\* UPDATE ... WHERE id = m: no row, no effect.
SetRow(m, s) ==
    /\ m \notin Locked
    /\ IF status[m] \in {"absent", "deleted"}
       THEN UNCHANGED <<status, age>>
       ELSE /\ status' = [status EXCEPT ![m] = s]
            /\ age' = [age EXCEPT ![m] = 0]
    /\ UNCHANGED attempts

\* The for loop over the claimed batch moves on, or returns to the poll loop.
NextMessage(w) ==
    LET left == hand[w] \ {cur[w]}
    IN  /\ hand' = [hand EXCEPT ![w] = left]
        /\ pc' = [pc EXCEPT ![w] = IF left = {} THEN "idle" ELSE "batch"]
        /\ cur' = [cur EXCEPT ![w] = NoMsg]
        /\ busy' = [busy EXCEPT ![w] = 0]

\* The worker has nothing in its memory, as after a restart.
Forget(w) ==
    /\ pc' = [pc EXCEPT ![w] = "idle"]
    /\ hand' = [hand EXCEPT ![w] = {}]
    /\ cur' = [cur EXCEPT ![w] = NoMsg]
    /\ busy' = [busy EXCEPT ![w] = 0]

Fault == faults < MaxFaults /\ faults' = faults + 1

\* The connection dies after the commit of a statement about w's message and
\* before its answer: w is left at step p with a row it knows nothing of.
AnswerLost(w, p) ==
    /\ pc' = [pc EXCEPT ![w] = p]
    /\ doubted' = doubted \cup {cur[w]}
    /\ Fault
    /\ UNCHANGED <<hand, cur, busy, handled>>

-----------------------------------------------------------------------------
(* Producers *)

\* publish_many: one INSERT.  Ids come from a sequence before the commit, so
\* the rows of concurrent producers can appear in any order of ids.
Publish ==
    \E S \in (SUBSET {m \in Ids : status[m] = "absent"}) \ {{}} :
        /\ status' = [m \in Ids |-> IF m \in S THEN "pending" ELSE status[m]]
        /\ UNCHANGED <<attempts, age, pc, hand, cur, busy, handled, doubted, faults>>

-----------------------------------------------------------------------------
(* Consumers *)

\* claim(), first half: select the oldest pending rows and lock them.
ClaimSelect(w) ==
    /\ pc[w] = "idle"
    /\ LET free == {m \in Ids : status[m] = "pending"} \ Locked
       IN  /\ free # {}
           /\ hand' = [hand EXCEPT ![w] = Lowest(free)]
    /\ pc' = [pc EXCEPT ![w] = "claiming"]
    /\ UNCHANGED <<rowVars, cur, busy, handled, doubted, faults>>

\* claim(), second half, on the server: the rows are updated and committed.
LeaseRows(S) ==
    /\ status' = [m \in Ids |-> IF m \in S THEN "processing" ELSE status[m]]
    /\ attempts' = [m \in Ids |-> IF m \in S THEN Bump(attempts[m])
                                             ELSE attempts[m]]
    /\ age' = [m \in Ids |-> IF m \in S THEN 0 ELSE age[m]]

\* The commit's answer reaches the worker: it has its batch.
ClaimCommit(w) ==
    /\ pc[w] = "claiming"
    /\ LeaseRows(hand[w])
    /\ pc' = [pc EXCEPT ![w] = "batch"]
    /\ UNCHANGED <<hand, cur, busy, handled, doubted, faults>>

\* The connection dies after the commit and before the answer: _execute
\* reconnects and claims again, and the first batch is nobody's.
ClaimLost(w) ==
    /\ pc[w] = "claiming"
    /\ LeaseRows(hand[w])
    /\ Forget(w)
    /\ Fault
    /\ UNCHANGED <<handled, doubted>>

\* The rows of a batch are handled one after another, in whatever order
\* RETURNING produced them.
Begin(w) ==
    /\ pc[w] = "batch"
    /\ \E m \in hand[w] : cur' = [cur EXCEPT ![w] = m]
    /\ pc' = [pc EXCEPT ![w] = "working"]
    /\ UNCHANGED <<rowVars, hand, busy, handled, doubted, faults>>

\* The handler returns: its effects are in the database.
Handle(w) ==
    /\ pc[w] = "working"
    /\ handled' = handled \cup {cur[w]}
    /\ pc' = [pc EXCEPT ![w] = "finished"]
    /\ UNCHANGED <<rowVars, hand, cur, busy, doubted, faults>>

\* Mutant of Ack: a message can be acked before its handler returned.
AckEarly(w) ==
    /\ pc[w] \in {"working", "finished"}
    /\ SetRow(cur[w], "done")
    /\ NextMessage(w)
    /\ UNCHANGED <<handled, doubted, faults>>

\* ack(), or ack() sent again: only after the handler returned.
Ack(w) ==
    /\ pc[w] \in {"finished", "acking"}
    /\ SetRow(cur[w], "done")
    /\ NextMessage(w)
    /\ UNCHANGED <<handled, doubted, faults>>

\* The row is done and the worker does not know: it sends the ack again, or
\* the ack raises inside the try and the handler calls retry() instead.
AckLost(w) ==
    /\ pc[w] \in {"finished", "acking"}
    /\ SetRow(cur[w], "done")
    /\ AnswerLost(w, "acking")

\* What retry() makes of a row, by the attempts it has at that moment.
Returned(m) == IF attempts[m] >= MaxAttempts THEN "failed" ELSE "pending"

\* Mutant of Retry: attempts is never compared with its limit.
RetryForever(w) ==
    /\ pc[w] \in {"working", "finished", "acking", "retrying"}
    /\ SetRow(cur[w], "pending")
    /\ NextMessage(w)
    /\ UNCHANGED <<handled, doubted, faults>>

\* retry(), or retry() sent again: the handler raised, before or after its
\* effects were committed, or its ack did, before or after it was committed.
Retry(w) ==
    /\ pc[w] \in {"working", "finished", "acking", "retrying"}
    /\ SetRow(cur[w], Returned(cur[w]))
    /\ NextMessage(w)
    /\ UNCHANGED <<handled, doubted, faults>>

\* The row is pending, for any worker to claim, and retry() is sent again.
RetryLost(w) ==
    /\ pc[w] \in {"working", "finished", "acking"}
    /\ SetRow(cur[w], Returned(cur[w]))
    /\ AnswerLost(w, "retrying")

\* Mutant of Fail: a status the table's CHECK constraint does not list.
FailAsError(w) ==
    /\ pc[w] \in {"working", "failing"}
    /\ SetRow(cur[w], "error")
    /\ NextMessage(w)
    /\ UNCHANGED <<handled, doubted, faults>>

\* fail(), or fail() sent again: the payload is malformed.
Fail(w) ==
    /\ pc[w] \in {"working", "failing"}
    /\ SetRow(cur[w], "failed")
    /\ NextMessage(w)
    /\ UNCHANGED <<handled, doubted, faults>>

FailLost(w) ==
    /\ pc[w] = "working"
    /\ SetRow(cur[w], "failed")
    /\ AnswerLost(w, "failing")

\* The process dies and is restarted.  A claim it had not committed rolls back;
\* a retry() or fail() that raises leaves the loop, and so the process, too.
Crash(w) ==
    /\ pc[w] # "idle"
    /\ Forget(w)
    /\ Fault
    /\ UNCHANGED <<rowVars, handled, doubted>>

\* Mutant of Reap: every processing row is taken for abandoned.
ReapAll(w) ==
    LET stalled == {m \in Ids : status[m] = "processing"}
    IN  /\ pc[w] = "idle"
        /\ stalled # {}
        /\ status' = [m \in Ids |-> IF m \in stalled THEN "pending" ELSE status[m]]
        /\ age' = [m \in Ids |-> IF m \in stalled THEN 0 ELSE age[m]]
        /\ UNCHANGED <<attempts, pc, hand, cur, busy, handled, doubted, faults>>

\* reap_stalled(), at the top of the consumer loop.
Reap(w) ==
    LET stalled == {m \in Ids : status[m] = "processing" /\ age[m] > VisibilityTimeout}
    IN  /\ pc[w] = "idle"
        /\ stalled # {}
        /\ status' = [m \in Ids |-> IF m \in stalled THEN "pending" ELSE status[m]]
        /\ age' = [m \in Ids |-> IF m \in stalled THEN 0 ELSE age[m]]
        /\ UNCHANGED <<attempts, pc, hand, cur, busy, handled, doubted, faults>>

-----------------------------------------------------------------------------
(* Retention and time *)

\* Mutant of Purge: the retention job deletes the dead letters too.
PurgeParked ==
    LET old == {m \in Ids : status[m] = "failed"}
    IN  /\ old # {}
        /\ status' = [m \in Ids |-> IF m \in old THEN "deleted" ELSE status[m]]
        /\ UNCHANGED <<attempts, age, pc, hand, cur, busy, handled, doubted, faults>>

\* purge_queue_messages: done rows go, failed rows are kept.
Purge ==
    LET old == {m \in Ids : status[m] = "done" /\ age[m] > Retention}
    IN  /\ old # {}
        /\ status' = [m \in Ids |-> IF m \in old THEN "deleted" ELSE status[m]]
        /\ age' = [m \in Ids |-> IF m \in old THEN 0 ELSE age[m]]
        /\ UNCHANGED <<attempts, pc, hand, cur, busy, handled, doubted, faults>>

\* A tick passes.  Only handling takes time, and no job takes more than MaxJob.
Tick ==
    /\ \A w \in Workers : /\ pc[w] \notin {"claiming", "batch"}
                          /\ pc[w] # "idle" => busy[w] < MaxJob
    /\ age' = [m \in Ids |->
                 IF status[m] \in {"processing", "done"} /\ age[m] < AgeCap
                 THEN age[m] + 1 ELSE age[m]]
    /\ busy' = [w \in Workers |-> IF pc[w] = "idle" THEN busy[w] ELSE busy[w] + 1]
    /\ UNCHANGED <<status, attempts, pc, hand, cur, handled, doubted, faults>>

-----------------------------------------------------------------------------
Finish(w) == Ack(w) \/ Retry(w) \/ Fail(w)

Next ==
    \/ Publish
    \/ \E w \in Workers :
        \/ ClaimSelect(w) \/ ClaimCommit(w) \/ ClaimLost(w)
        \/ Begin(w) \/ Handle(w)
        \/ Ack(w) \/ Retry(w) \/ Fail(w)
        \/ AckLost(w) \/ RetryLost(w) \/ FailLost(w)
        \/ Crash(w)
        \/ Reap(w)
    \/ Purge
    \/ Tick

Spec == Init /\ [][Next]_vars

\* A running consumer keeps looping and time keeps passing; producers,
\* faults and the purge owe nothing.  A handler may go on failing.
Fairness ==
    /\ WF_vars(Tick)
    /\ \A w \in Workers :
        /\ WF_vars(ClaimSelect(w))
        /\ WF_vars(ClaimCommit(w))
        /\ WF_vars(Begin(w))
        /\ WF_vars(Handle(w) \/ Finish(w))
        /\ WF_vars(Reap(w))

FairSpec == Spec /\ Fairness

-----------------------------------------------------------------------------
(* Properties *)

\* A worker past its claim transaction holds its batch.
Holding(w) == pc[w] \in {"batch"} \cup Handling

\* No message is in the hands of two workers, be it inside the claim
\* transactions or in the batches being worked on (pg_queue.py, module
\* docstring), as long as no worker lost the answer of an ack, retry or fail of
\* that message: a retry sent again can return a row somebody else has claimed
\* meanwhile.
ExclusiveClaims ==
    \A v, w \in Workers : v # w => hand[v] \cap hand[w] \subseteq doubted

\* What a worker holds is still leased to it: the row has not been reaped,
\* finished, parked or deleted behind its back, so the ack, retry or fail it
\* is about to issue by id alone hits the lease it took.  Again the messages
\* an answer was lost about are the only exception.
LeaseKept ==
    \A w \in Workers : Holding(w) =>
        \A m \in hand[w] \ doubted : status[m] = "processing"

\* Nothing leaves the "done" state but by retention: no late retry() or ack()
\* of another worker brings a finished message back.  Only a message an answer
\* was lost about can be: its ack, committed, raised and was followed by retry().
DoneIsFinal ==
    [][\A m \in Ids \ doubted :
        status[m] = "done" => status'[m] \in {"done", "deleted"}]_vars

\* At-least-once: a message the queue is finished with was handled to
\* completion by somebody, or is parked in "failed".
AtLeastOnce ==
    \A m \in Ids : status[m] \in {"done", "deleted"} => m \in handled

\* Every message that enters the queue is in the end done or parked for good,
\* whichever workers crash on it, lose their claim or give up on it on the way.
Settles ==
    \A m \in Ids : status[m] = "pending" ~> [](status[m] \in Settled)

-----------------------------------------------------------------------------
(* The abstract specification *)

\* The timing under which the leases are sound: a whole batch, whose rows are
\* all locked at the moment of the claim, fits in the visibility timeout.
BatchFitsTimeout == BatchSize * MaxJob <= VisibilityTimeout

\* Who holds the lease of a row: the worker that has it in a committed batch.
LeaseHolder ==
    [m \in Ids |->
        IF \E w \in Workers : Holding(w) /\ m \in hand[w] \ doubted
        THEN CHOOSE w \in Workers : Holding(w) /\ m \in hand[w] \ doubted
        ELSE Nobody]

\* What the queue promises of a row: nothing, once an answer about it was lost.
LeaseState == [m \in Ids |-> IF m \in doubted THEN "doubtful" ELSE status[m]]

Leases == INSTANCE LeaseQueue WITH Messages <- Ids, state <- LeaseState,
                                   holder <- LeaseHolder

\* The queue is a queue of exclusive leases: a lease ends when its holder ends
\* it, or after its holder is gone; only its holder can put a message in doubt.
ImplementsLeases == Leases!Spec
=============================================================================
