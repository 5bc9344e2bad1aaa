---------------------------- MODULE AlertDelivery ----------------------------
(***************************************************************************)
(* From a matched-articles message to the user: the alert consumers        *)
(* (app/alert/consumer.py; intelligence_consumer.py is the same machine    *)
(* over its own table), the alert rows, the SMS task and the email digest  *)
(* (app/tasks/notifications), and the gateways of module Gateways.         *)
(*                                                                         *)
(* One user and one topic; a match is an article of the topic.  The queue  *)
(* is that of LeaseQueue, one message at a time; malformed messages, which *)
(* no producer sends, are left out.                                        *)
(***************************************************************************)
EXTENDS Gateways

CONSTANTS
    Messages, Workers, Nobody,
    Match,          \* the match a message carries
    Missing,        \* matches whose article (or snapshot) is not in the table
    NoMatch,
    Wanted,         \* the topic's channels at first
    MaxAttempts,    \* DEFAULT_MAX_ATTEMPTS
    MaxRetries,     \* max_retries of the SMS task
    MaxChanges      \* changes of the topic's channels a behaviour can have

Channels == {"websocket", "sms", "email"}

ASSUME DeliveryAssumption ==
    /\ Match \in [Messages -> Alerts]
    /\ Missing \subseteq Alerts /\ Wanted \subseteq Channels
    /\ Nobody \notin Workers /\ NoMatch \notin Alerts
    /\ MaxAttempts \in Nat \ {0}
    /\ MaxRetries \in Nat /\ MaxChanges \in Nat

VARIABLES
    state, holder, attempts,    \* the matched-articles queue
    wanted,     \* the topic's channels, none when it is inactive
    changes,    \* how often the user has changed them
    pc, match,  \* where each consumer is, and with which match
    chans,      \* the channels it has read, then the rows it has to route
    row,        \* status of the sms and email rows
    queued,     \* SMS tasks of a match in the broker
    run,        \* the SMS task of a match a worker has taken
    tries,      \* its retries
    texted,     \* messages handed to Twilio
    digest,     \* the rows the running digest selected
    phase,      \* where the digest is
    mailed      \* rows that were in a mail handed to the SMTP server

queueVars  == <<state, holder, attempts>>
workVars   == <<pc, match, chans>>
smsVars    == <<queued, run, tries, texted>>
digestVars == <<digest, phase, mailed>>
userVars   == <<wanted, changes>>
vars == <<queueVars, workVars, row, smsVars, digestVars, userVars, gwVars>>

Rows == Alerts \X {"sms", "email"}

TypeOK ==
    /\ GatewaysTypeOK
    /\ state \in [Messages -> {"absent", "pending", "processing", "done", "failed"}]
    /\ holder \in [Messages -> Workers \cup {Nobody}]
    /\ attempts \in [Messages -> 0..MaxAttempts]
    /\ wanted \in SUBSET Channels /\ changes \in 0..MaxChanges
    /\ pc \in [Workers -> {"idle", "lookup", "insert", "route", "ack"}]
    /\ match \in [Workers -> Alerts \cup {NoMatch}]
    /\ chans \in [Workers -> SUBSET Channels]
    /\ row \in [Rows -> {"none", "pending", "sent", "failed"}]
    /\ queued \in [Alerts -> 0..2]
    /\ run \in [Alerts -> {"idle", "running", "texted"}]
    /\ tries \in [Alerts -> 0..MaxRetries]
    /\ texted \in [Alerts -> 0..2]
    /\ digest \in SUBSET Alerts
    /\ phase \in {"off", "selected", "mailed"}
    /\ mailed \in SUBSET Alerts

Queue == INSTANCE LeaseQueue

Init ==
    /\ GatewaysInit
    /\ Queue!Init
    /\ attempts = [m \in Messages |-> 0]
    /\ wanted = Wanted /\ changes = 0
    /\ pc = [w \in Workers |-> "idle"]
    /\ match = [w \in Workers |-> NoMatch]
    /\ chans = [w \in Workers |-> {}]
    /\ row = [r \in Rows |-> "none"]
    /\ queued = [a \in Alerts |-> 0]
    /\ run = [a \in Alerts |-> "idle"]
    /\ tries = [a \in Alerts |-> 0]
    /\ texted = [a \in Alerts |-> 0]
    /\ digest = {} /\ phase = "off" /\ mailed = {}

-----------------------------------------------------------------------------
(* Helpers *)

Goto(w, l) == pc' = [pc EXCEPT ![w] = l]
Held(w) == {m \in Messages : holder[m] = w}
RowOf(a, ch) == IF ch = "websocket" THEN wsRow[a] ELSE row[<<a, ch>>]
Set(a, ch, s) == row' = [row EXCEPT ![<<a, ch>>] = s]

Forget(w) ==
    /\ Goto(w, "idle")
    /\ match' = [match EXCEPT ![w] = NoMatch]
    /\ chans' = [chans EXCEPT ![w] = {}]

Finish(w, to) ==
    /\ \E m \in Held(w) : Queue!End(m, to)
    /\ Forget(w)
    /\ UNCHANGED attempts

\* Mutant of Fresh: the insert returns the rows that were there already.
AllRows(a, S) == S

\* ON CONFLICT DO NOTHING RETURNING: the rows that were not there yet.
Fresh(a, S) == {ch \in S : RowOf(a, ch) = "none"}

-----------------------------------------------------------------------------
(* The queue and the user *)

Enqueue ==
    /\ \E m \in Messages : Queue!Enqueue({m})
    /\ UNCHANGED <<attempts, workVars, row, smsVars, digestVars, userVars, gwVars>>

\* The user edits the topic's channels, pauses it, or takes it up again.
ChangeChannels ==
    /\ changes < MaxChanges /\ changes' = changes + 1
    /\ wanted' \in SUBSET Channels
    /\ UNCHANGED <<queueVars, workVars, row, smsVars, digestVars, gwVars>>

-----------------------------------------------------------------------------
(* The alert consumers *)

Claim(w) ==
    /\ pc[w] = "idle"
    /\ \E m \in Messages :
        /\ Queue!Lease({m}, w)
        /\ attempts' = [attempts EXCEPT ![m] = IF @ < MaxAttempts THEN @ + 1 ELSE @]
        /\ match' = [match EXCEPT ![w] = Match[m]]
    /\ Goto(w, "lookup")
    /\ UNCHANGED <<chans, row, smsVars, digestVars, userVars, gwVars>>

Reap(w) ==
    /\ pc[w] = "idle"
    /\ \E m \in Messages : holder[m] = Nobody /\ Queue!Recover({m})
    /\ UNCHANGED <<attempts, workVars, row, smsVars, digestVars, userVars, gwVars>>

\* get_channels, get_article: without channels or article the message is acked.
Lookup(w) ==
    /\ pc[w] = "lookup"
    /\ chans' = [chans EXCEPT ![w] = wanted]
    /\ Goto(w, IF wanted = {} \/ match[w] \in Missing THEN "ack" ELSE "insert")
    /\ UNCHANGED <<queueVars, match, row, smsVars, digestVars, userVars, gwVars>>

\* bulk_insert_alerts: one row per channel, committed.
Insert(w) ==
    /\ pc[w] = "insert"
    /\ LET a == match[w]
           new == Fresh(a, chans[w])
       IN  /\ chans' = [chans EXCEPT ![w] = new]
           /\ row' = [r \in Rows |-> IF r[1] = a /\ r[2] \in new THEN "pending" ELSE row[r]]
           /\ wsRow' = IF "websocket" \in new THEN [wsRow EXCEPT ![a] = "pending"] ELSE wsRow
           /\ Goto(w, IF new = {} THEN "ack" ELSE "route")
    /\ UNCHANGED <<queueVars, match, smsVars, digestVars, userVars,
                   sock, at, reg, inbox, deaf, hand, via, pushed, faults>>

Routed(w, ch) ==
    /\ pc[w] = "route" /\ ch \in chans[w]
    /\ chans' = [chans EXCEPT ![w] = @ \ {ch}]
    /\ Goto(w, IF chans[w] = {ch} THEN "ack" ELSE "route")
    /\ UNCHANGED <<queueVars, match, digestVars, userVars,
                   sock, at, reg, deaf, hand, via, pushed, wsRow>>

\* Email rows are left to the digest.
RouteEmail(w) == Routed(w, "email") /\ UNCHANGED <<row, smsVars, inbox, faults>>

\* publish_alert never raises.
RouteWebsocket(w) ==
    Routed(w, "websocket") /\ Broadcast(match[w]) /\ UNCHANGED <<row, smsVars>>

\* The SMS task is enqueued.  If delay() raises, because the broker refused the
\* task or took it and its answer was lost, the row is failed, or left pending
\* when that UPDATE raises too.
RouteSms(w) ==
    /\ Routed(w, "sms")
    /\ LET a == match[w]
           sent == [queued EXCEPT ![a] = IF @ < 2 THEN @ + 1 ELSE @]
       IN  \/ queued' = sent /\ UNCHANGED <<row, faults>>
           \/ /\ Fault("broker") /\ (queued' = sent \/ UNCHANGED queued)
              /\ Set(a, "sms", "failed") \/ UNCHANGED row
    /\ UNCHANGED <<run, tries, texted, inbox>>

Ack(w) ==
    /\ pc[w] = "ack"
    /\ Finish(w, "done")
    /\ UNCHANGED <<row, smsVars, digestVars, userVars, gwVars>>

\* Mutant of Raise: a database error is acked like an expected skip.
RaiseAcked(w) ==
    /\ pc[w] \in {"lookup", "insert", "ack"}
    /\ Fault("db")
    /\ Finish(w, "done")
    /\ UNCHANGED <<row, smsVars, digestVars, userVars,
                   sock, at, reg, inbox, deaf, hand, via, pushed, wsRow>>

\* A database error before the commit, or in the ack: back to the queue, until
\* the attempts are used up.
Raise(w) ==
    /\ pc[w] \in {"lookup", "insert", "ack"}
    /\ Fault("db")
    /\ \E m \in Held(w) :
        Finish(w, IF attempts[m] >= MaxAttempts THEN "failed" ELSE "pending")
    /\ UNCHANGED <<row, smsVars, digestVars, userVars,
                   sock, at, reg, inbox, deaf, hand, via, pushed, wsRow>>

\* The process dies, or SIGTERM cancels the consumer's task: CancelledError is
\* no Exception, so the message in hand is left in processing either way.
Crash(w) ==
    /\ pc[w] # "idle"
    /\ Fault("crash")
    /\ Forget(w)
    /\ Queue!Abandon(w)
    /\ UNCHANGED <<attempts, row, smsVars, digestVars, userVars,
                   sock, at, reg, inbox, deaf, hand, via, pushed, wsRow>>

-----------------------------------------------------------------------------
(* dispatch_sms_task, run by a Celery worker that acks a task as it takes it *)

smsFrame == <<queueVars, workVars, digestVars, userVars,
              sock, at, reg, inbox, deaf, hand, via, pushed, wsRow>>

SmsTake(a) ==
    /\ queued[a] > 0 /\ run[a] = "idle"
    /\ queued' = [queued EXCEPT ![a] = @ - 1]
    /\ run' = [run EXCEPT ![a] = "running"]
    /\ UNCHANGED <<tries, texted, row, faults, smsFrame>>

\* The user has no phone number any more.
SmsNoPhone(a) ==
    /\ run[a] = "running"
    /\ Fault("phone")
    /\ Set(a, "sms", "failed")
    /\ run' = [run EXCEPT ![a] = "idle"]
    /\ UNCHANGED <<queued, tries, texted, smsFrame>>

SmsSend(a) ==
    /\ run[a] = "running"
    /\ texted' = [texted EXCEPT ![a] = IF @ < 2 THEN @ + 1 ELSE @]
    /\ run' = [run EXCEPT ![a] = "texted"]
    /\ UNCHANGED <<queued, tries, row, faults, smsFrame>>

SmsMark(a) ==
    /\ run[a] = "texted"
    /\ Set(a, "sms", "sent")
    /\ run' = [run EXCEPT ![a] = "idle"]
    /\ UNCHANGED <<queued, tries, texted, faults, smsFrame>>

\* Mutant of SmsRejected: the retries are not counted against the limit.
SmsRejectedAgain(a) ==
    /\ run[a] = "running"
    /\ "twilio" \in FaultKinds
    /\ run' = [run EXCEPT ![a] = "idle"]
    /\ queued' = [queued EXCEPT ![a] = IF @ < 2 THEN @ + 1 ELSE @]
    /\ tries' = [tries EXCEPT ![a] = @ + 1]
    /\ UNCHANGED <<row, texted, faults, smsFrame>>

\* TwilioRestException, taken to mean that Twilio did not accept the text:
\* enqueued again, or failed after the last retry, which bounds how often it
\* happens.
SmsRejected(a) ==
    /\ run[a] = "running"
    /\ "twilio" \in FaultKinds
    /\ run' = [run EXCEPT ![a] = "idle"]
    /\ IF tries[a] >= MaxRetries
       THEN Set(a, "sms", "failed") /\ UNCHANGED <<queued, tries>>
       ELSE /\ queued' = [queued EXCEPT ![a] = IF @ < 2 THEN @ + 1 ELSE @]
            /\ tries' = [tries EXCEPT ![a] = @ + 1]
            /\ UNCHANGED row
    /\ UNCHANGED <<texted, faults, smsFrame>>

\* The worker dies, or anything else is raised (Twilio unreachable, its answer
\* lost, the UPDATE): the task is over and not retried.
SmsLost(a) ==
    /\ run[a] # "idle"
    /\ Fault("worker")
    /\ run' = [run EXCEPT ![a] = "idle"]
    /\ UNCHANGED <<queued, tries, texted, row, smsFrame>>

-----------------------------------------------------------------------------
(* send_email_digest *)

digestFrame == <<queueVars, workVars, smsVars, userVars,
                 sock, at, reg, inbox, deaf, hand, via, pushed, wsRow>>

PendingMail == {a \in Alerts : row[<<a, "email">>] = "pending"}

DigestSelect ==
    /\ phase = "off" /\ PendingMail # {}
    /\ digest' = PendingMail
    /\ phase' = "selected"
    /\ UNCHANGED <<mailed, row, faults, digestFrame>>

DigestSend ==
    /\ phase = "selected"
    /\ mailed' = mailed \cup digest
    /\ phase' = "mailed"
    /\ UNCHANGED <<digest, row, faults, digestFrame>>

DigestOver == phase' = "off" /\ digest' = {}

\* Mutant of DigestMark: every pending email row is marked, and not those the
\* mail was made of.
DigestMarkAll ==
    /\ phase = "mailed"
    /\ row' = [r \in Rows |-> IF r[2] = "email" /\ r[1] \in PendingMail THEN "sent" ELSE row[r]]
    /\ DigestOver
    /\ UNCHANGED <<mailed, faults, digestFrame>>

DigestMark ==
    /\ phase = "mailed"
    /\ row' = [r \in Rows |-> IF r[2] = "email" /\ r[1] \in digest THEN "sent" ELSE row[r]]
    /\ DigestOver
    /\ UNCHANGED <<mailed, faults, digestFrame>>

\* Mutant of DigestFails: the rows of a digest that failed are given up.
DigestGivesUp ==
    /\ phase = "selected"
    /\ Fault("smtp")
    /\ row' = [r \in Rows |-> IF r[2] = "email" /\ r[1] \in digest THEN "failed" ELSE row[r]]
    /\ DigestOver
    /\ UNCHANGED <<mailed, digestFrame>>

\* SMTP fails, or the task dies before the commit: the rows stay pending.
DigestFails ==
    /\ phase # "off"
    /\ Fault("smtp")
    /\ DigestOver
    /\ UNCHANGED <<mailed, row, digestFrame>>

-----------------------------------------------------------------------------
restVars == <<queueVars, workVars, row, smsVars, digestVars, userVars>>

Next ==
    \/ Enqueue \/ ChangeChannels
    \/ \E w \in Workers :
        \/ Claim(w) \/ Reap(w) \/ Lookup(w) \/ Insert(w)
        \/ RouteEmail(w) \/ RouteWebsocket(w) \/ RouteSms(w)
        \/ Ack(w) \/ Raise(w) \/ Crash(w)
    \/ \E a \in Alerts :
        \/ SmsTake(a) \/ SmsNoPhone(a) \/ SmsSend(a) \/ SmsMark(a)
        \/ SmsRejected(a) \/ SmsLost(a)
    \/ DigestSelect \/ DigestSend \/ DigestMark \/ DigestFails
    \/ GatewaysNext /\ UNCHANGED restVars

Spec == Init /\ [][Next]_vars

\* The digest is run every day (Celery Beat), and its steps are taken.
FairSpec == Spec /\ WF_vars(DigestSelect) /\ WF_vars(DigestSend) /\ WF_vars(DigestMark)

-----------------------------------------------------------------------------
(* Properties *)

\* A row is marked sent only after its alert was handed over: texted, mailed,
\* or written to a socket of the user.  (It is marked by whoever delivers, at
\* a later step, out of a list read earlier.)
SentIsDelivered ==
    \A a \in Alerts :
        /\ wsRow[a] = "sent" => a \in pushed
        /\ row[<<a, "sms">>] = "sent" => texted[a] > 0
        /\ row[<<a, "email">>] = "sent" => a \in mailed

\* However often the message of a match is published, redelivered or retried,
\* and whatever crashes between insert, dispatch and ack, the user gets at most
\* one SMS about it.
OneText == \A a \in Alerts : texted[a] <= 1

\* At-least-once into the table: once a message is acked, every channel the
\* user wants (and has wanted all along) has its row.
AckedIsRecorded ==
    changes = 0 => \A m \in Messages :
        state[m] = "done" /\ Match[m] \notin Missing
            => \A ch \in wanted : RowOf(Match[m], ch) # "none"

\* email.py:9: "No data loss": every email row is in the end in a mail, and
\* marked so, although digests fail, overlap with inserts or die after sending.
EmailIsSent ==
    \A a \in Alerts : row[<<a, "email">>] = "pending" ~> row[<<a, "email">>] = "sent"
=============================================================================
