------------------------- MODULE AlertDeliveryProofs -------------------------
(***************************************************************************)
(* Theorems about AlertDelivery and the Gateways it composes, for every    *)
(* number of matches, messages, consumers, replicas, sockets and faults.   *)
(***************************************************************************)
EXTENDS AlertDelivery, TLAPS

-----------------------------------------------------------------------------
(* Type correctness *)

\* The type invariant by parts, with what makes it inductive: a consumer that is
\* not idle has a match and a replica that writes has an alert in hand, so what
\* is broadcast or written is an alert.
QueueType ==
    /\ state \in [Messages -> {"absent", "pending", "processing", "done", "failed"}]
    /\ holder \in [Messages -> Workers \cup {Nobody}]
    /\ attempts \in [Messages -> 0..MaxAttempts]

WorkType ==
    /\ pc \in [Workers -> {"idle", "lookup", "insert", "route", "ack"}]
    /\ match \in [Workers -> Alerts \cup {NoMatch}]
    /\ chans \in [Workers -> SUBSET Channels]
    /\ \A w \in Workers : pc[w] # "idle" => match[w] \in Alerts

RowType == row \in [Rows -> {"none", "pending", "sent", "failed"}]

SmsType ==
    /\ queued \in [Alerts -> 0..2]
    /\ run \in [Alerts -> {"idle", "running", "texted"}]
    /\ tries \in [Alerts -> 0..MaxRetries]
    /\ texted \in [Alerts -> 0..2]

DigestType ==
    /\ digest \in SUBSET Alerts
    /\ phase \in {"off", "selected", "mailed"}
    /\ mailed \in SUBSET Alerts

UserType == wanted \in SUBSET Channels /\ changes \in 0..MaxChanges

GatewayType ==
    /\ GatewaysTypeOK
    /\ \A g \in Replicas : via[g] # NoSock => hand[g] # NoAlert

Basic ==
    /\ QueueType /\ WorkType /\ RowType /\ SmsType
    /\ DigestType /\ UserType /\ GatewayType

LEMMA BasicTypeOK == Basic => TypeOK
BY DEF Basic, TypeOK, QueueType, WorkType, RowType, SmsType, DigestType, UserType,
       GatewayType

LEMMA BasicInit == Init => Basic
<1> SUFFICES ASSUME Init PROVE Basic
  OBVIOUS
<1>1. QueueType
  BY DeliveryAssumption DEF Init, Queue!Init, QueueType
<1>2. WorkType
  BY DEF Init, WorkType
<1>3. RowType /\ SmsType /\ DigestType /\ UserType
  BY DeliveryAssumption DEF Init, RowType, SmsType, DigestType, UserType
<1>4. GatewayType
  BY GatewaysAssumption DEF Init, GatewaysInit, GatewaysTypeOK, GatewayType
<1> QED BY <1>1, <1>2, <1>3, <1>4 DEF Basic

LEMMA FaultType == \A k : faults \in 0..MaxFaults /\ Fault(k) => faults' \in 0..MaxFaults
BY GatewaysAssumption DEF Fault

\* The sockets of the user and the subscriber loops.
LEMMA GatewayType1 ==
    ASSUME GatewayType, GatewaysNext
    PROVE  GatewayType'
<1> USE GatewaysAssumption DEF GatewayType, GatewaysTypeOK
<1>1. ASSUME NEW s \in Sockets, Open(s) \/ Lose(s) \/ Unregister(s)
      PROVE  GatewayType'
  BY <1>1 DEF Open, Lose, Unregister
<1>2. ASSUME NEW g \in Replicas, Ignore(g) \/ Push(g)
      PROVE  GatewayType'
  BY <1>2 DEF Ignore, Push, Take
<1>3. ASSUME NEW g \in Replicas, Written(g) \/ PushFails(g) \/ PushBreaks(g)
      PROVE  GatewayType'
  BY <1>3 DEF Written, PushFails, PushBreaks
<1>4. ASSUME NEW g \in Replicas, Mark(g)
      PROVE  GatewayType'
  BY <1>4 DEF Mark, Fault
<1>5. ASSUME NEW g \in Replicas, Deafen(g) \/ Resubscribe(g)
      PROVE  GatewayType'
  BY <1>5 DEF Deafen, Resubscribe, Fault
<1>6. ASSUME NEW g \in Replicas, GatewayCrash(g)
      PROVE  GatewayType'
  BY <1>6 DEF GatewayCrash, Fault
<1> QED BY <1>1, <1>2, <1>3, <1>4, <1>5, <1>6 DEF GatewaysNext

LEMMA BroadcastType ==
    ASSUME GatewayType, NEW a \in Alerts, Broadcast(a)
    PROVE  inbox' \in [Replicas -> SUBSET Alerts] /\ faults' \in 0..MaxFaults
BY GatewaysAssumption DEF Broadcast, Fault, GatewayType, GatewaysTypeOK

LEMMA ForgetType ==
    ASSUME WorkType, NEW w \in Workers, Forget(w)
    PROVE  WorkType'
BY DEF Forget, Goto, WorkType

LEMMA FinishType ==
    ASSUME QueueType, WorkType, NEW w \in Workers,
           NEW to \in {"done", "failed", "pending"}, Finish(w, to)
    PROVE  QueueType' /\ WorkType'
<1>1. PICK m \in Held(w) : Queue!End(m, to)
  BY DEF Finish
<1>2. QueueType'
  BY <1>1 DEF Finish, Queue!End, Queue!Move, QueueType
<1> QED BY <1>2, ForgetType DEF Finish

\* What the consumers do to the queue, their own state, the rows and the wire.
LEMMA ConsumerType ==
    ASSUME Basic, NEW w \in Workers,
           \/ Claim(w) \/ Reap(w) \/ Lookup(w) \/ Insert(w)
           \/ RouteEmail(w) \/ RouteWebsocket(w) \/ RouteSms(w)
           \/ Ack(w) \/ Raise(w) \/ Crash(w)
    PROVE  Basic'
<1> USE DEF Basic, GatewayType, GatewaysTypeOK, gwVars
<1>1. CASE Claim(w)
  <2>1. PICK m \in Messages :
            /\ Queue!Lease({m}, w)
            /\ attempts' = [attempts EXCEPT ![m] = IF @ < MaxAttempts THEN @ + 1 ELSE @]
            /\ match' = [match EXCEPT ![w] = Match[m]]
    BY <1>1 DEF Claim
  <2>2. state' \in [Messages -> {"absent", "pending", "processing", "done", "failed"}]
        /\ holder' \in [Messages -> Workers \cup {Nobody}]
    BY <2>1 DEF Queue!Lease, Queue!Move, QueueType
  <2>3. attempts' \in [Messages -> 0..MaxAttempts]
    BY <2>1, DeliveryAssumption DEF QueueType
  <2>4. WorkType'
    BY <1>1, <2>1, DeliveryAssumption DEF Claim, Goto, WorkType
  <2>5. RowType' /\ SmsType' /\ DigestType' /\ UserType' /\ GatewayType'
    BY <1>1 DEF Claim, smsVars, digestVars, userVars, RowType, SmsType, DigestType, UserType
  <2> QED BY <2>2, <2>3, <2>4, <2>5 DEF QueueType
<1>2. CASE Reap(w)
  BY <1>2
  DEF Reap, Queue!Recover, Queue!Move, QueueType, WorkType, workVars, smsVars,
      digestVars, userVars, RowType, SmsType, DigestType, UserType
<1>3. CASE Lookup(w)
  BY <1>3
  DEF Lookup, Goto, queueVars, QueueType, WorkType, smsVars, digestVars, userVars,
      RowType, SmsType, DigestType, UserType
<1>4. CASE Insert(w)
  <2>1. pc[w] = "insert" /\ match[w] \in Alerts
    BY <1>4 DEF Insert, WorkType
  <2>2. Fresh(match[w], chans[w]) \in SUBSET Channels
    BY DEF Fresh, WorkType
  <2>3. WorkType'
    BY <1>4, <2>1, <2>2 DEF Insert, Goto, WorkType
  <2>4. RowType'
    BY <1>4 DEF Insert, RowType
  <2>5. wsRow' \in [Alerts -> {"none", "pending", "sent"}]
    BY <1>4 DEF Insert
  <2>6. QueueType' /\ SmsType' /\ DigestType' /\ UserType'
    BY <1>4 DEF Insert, queueVars, QueueType, smsVars, digestVars, userVars,
                SmsType, DigestType, UserType
  <2>7. GatewayType'
    BY <1>4, <2>5 DEF Insert
  <2> QED BY <2>3, <2>4, <2>6, <2>7
<1>5. CASE RouteEmail(w)
  BY <1>5
  DEF RouteEmail, Routed, Goto, queueVars, QueueType, WorkType, smsVars, digestVars,
      userVars, RowType, SmsType, DigestType, UserType
<1>6. CASE RouteWebsocket(w)
  <2>1. match[w] \in Alerts /\ Broadcast(match[w])
    BY <1>6 DEF RouteWebsocket, Routed, WorkType
  <2>2. inbox' \in [Replicas -> SUBSET Alerts] /\ faults' \in 0..MaxFaults
    BY <2>1, BroadcastType
  <2>3. QueueType' /\ WorkType' /\ RowType' /\ SmsType' /\ DigestType' /\ UserType'
    BY <1>6
    DEF RouteWebsocket, Routed, Goto, queueVars, QueueType, WorkType, smsVars,
        digestVars, userVars, RowType, SmsType, DigestType, UserType
  <2>4. GatewayType'
    BY <1>6, <2>2 DEF RouteWebsocket, Routed
  <2> QED BY <2>3, <2>4
<1>7. CASE RouteSms(w)
  <2>1. queued' \in [Alerts -> 0..2]
    BY <1>7 DEF RouteSms, SmsType
  <2>2. RowType'
    BY <1>7 DEF RouteSms, Set, RowType
  <2>3. faults' \in 0..MaxFaults
    BY <1>7, FaultType DEF RouteSms
  <2>4. QueueType' /\ WorkType' /\ SmsType' /\ DigestType' /\ UserType'
    BY <1>7, <2>1
    DEF RouteSms, Routed, Goto, queueVars, QueueType, WorkType, digestVars,
        userVars, SmsType, DigestType, UserType
  <2>5. GatewayType'
    BY <1>7, <2>3 DEF RouteSms, Routed
  <2> QED BY <2>2, <2>4, <2>5
<1>8. CASE Ack(w)
  <2>1. QueueType' /\ WorkType'
    BY <1>8, FinishType DEF Ack
  <2>2. RowType' /\ SmsType' /\ DigestType' /\ UserType' /\ GatewayType'
    BY <1>8 DEF Ack, smsVars, digestVars, userVars, RowType, SmsType, DigestType, UserType
  <2> QED BY <2>1, <2>2
<1>9. CASE Raise(w)
  <2>1. PICK m \in Held(w) :
            Finish(w, IF attempts[m] >= MaxAttempts THEN "failed" ELSE "pending")
    BY <1>9 DEF Raise
  <2>2. QueueType' /\ WorkType'
    BY <2>1, FinishType
  <2>3. RowType' /\ SmsType' /\ DigestType' /\ UserType'
    BY <1>9 DEF Raise, smsVars, digestVars, userVars, RowType, SmsType, DigestType, UserType
  <2>4. GatewayType'
    BY <1>9, FaultType DEF Raise
  <2> QED BY <2>2, <2>3, <2>4
<1>10. CASE Crash(w)
  <2>1. QueueType' /\ WorkType'
    BY <1>10 DEF Crash, Forget, Goto, Queue!Abandon, QueueType, WorkType
  <2>2. RowType' /\ SmsType' /\ DigestType' /\ UserType'
    BY <1>10 DEF Crash, smsVars, digestVars, userVars, RowType, SmsType, DigestType, UserType
  <2>3. GatewayType'
    BY <1>10, FaultType DEF Crash
  <2> QED BY <2>1, <2>2, <2>3
<1> QED BY <1>1, <1>2, <1>3, <1>4, <1>5, <1>6, <1>7, <1>8, <1>9, <1>10

\* The SMS task touches its own state and the sms row.
LEMMA SmsTypeStep ==
    ASSUME Basic, NEW a \in Alerts,
           \/ SmsTake(a) \/ SmsNoPhone(a) \/ SmsSend(a) \/ SmsMark(a)
           \/ SmsRejected(a) \/ SmsLost(a)
    PROVE  Basic'
<1> USE DEF Basic, GatewayType, GatewaysTypeOK
<1>1. UNCHANGED smsFrame
  BY DEF SmsTake, SmsNoPhone, SmsSend, SmsMark, SmsRejected, SmsLost
<1>2. RowType'
  BY DEF SmsTake, SmsNoPhone, SmsSend, SmsMark, SmsRejected, SmsLost, Set, RowType
<1>3. SmsType'
  BY DeliveryAssumption
  DEF SmsTake, SmsNoPhone, SmsSend, SmsMark, SmsRejected, SmsLost, SmsType
<1>4. faults' \in 0..MaxFaults
  BY FaultType DEF SmsTake, SmsNoPhone, SmsSend, SmsMark, SmsRejected, SmsLost
<1>5. QueueType' /\ WorkType' /\ DigestType' /\ UserType'
  BY <1>1 DEF smsFrame, queueVars, workVars, digestVars, userVars, QueueType,
              WorkType, DigestType, UserType
<1>6. GatewayType'
  BY <1>1, <1>4 DEF smsFrame
<1> QED BY <1>2, <1>3, <1>5, <1>6

\* The digest touches its own state and the email rows.
LEMMA DigestTypeStep ==
    ASSUME Basic, DigestSelect \/ DigestSend \/ DigestMark \/ DigestFails
    PROVE  Basic'
<1> USE DEF Basic, GatewayType, GatewaysTypeOK
<1>1. UNCHANGED digestFrame
  BY DEF DigestSelect, DigestSend, DigestMark, DigestFails
<1>2. RowType'
  BY DEF DigestSelect, DigestSend, DigestMark, DigestFails, RowType
<1>3. DigestType'
  BY DEF DigestSelect, DigestSend, DigestMark, DigestFails, DigestOver,
         PendingMail, DigestType
<1>4. faults' \in 0..MaxFaults
  BY FaultType DEF DigestSelect, DigestSend, DigestMark, DigestFails
<1>5. QueueType' /\ WorkType' /\ SmsType' /\ UserType'
  BY <1>1 DEF digestFrame, queueVars, workVars, smsVars, userVars, QueueType,
              WorkType, SmsType, UserType
<1>6. GatewayType'
  BY <1>1, <1>4 DEF digestFrame
<1> QED BY <1>2, <1>3, <1>5, <1>6

LEMMA BasicStep == Basic /\ [Next]_vars => Basic'
<1> SUFFICES ASSUME Basic, [Next]_vars PROVE Basic'
  OBVIOUS
<1> USE DEF Basic
<1>1. CASE Enqueue
  BY <1>1
  DEF Enqueue, Queue!Enqueue, Queue!Move, QueueType, WorkType, workVars, smsVars,
      digestVars, userVars, gwVars, RowType, SmsType, DigestType, UserType,
      GatewayType, GatewaysTypeOK
<1>2. CASE ChangeChannels
  BY <1>2, DeliveryAssumption
  DEF ChangeChannels, queueVars, QueueType, WorkType, workVars, smsVars,
      digestVars, gwVars, RowType, SmsType, DigestType, UserType,
      GatewayType, GatewaysTypeOK
<1>3. CASE GatewaysNext /\ UNCHANGED restVars
  <2>1. GatewayType'
    BY <1>3, GatewayType1
  <2>2. QueueType' /\ WorkType' /\ RowType' /\ SmsType' /\ DigestType' /\ UserType'
    BY <1>3
    DEF restVars, queueVars, QueueType, WorkType, workVars, smsVars, digestVars,
        userVars, RowType, SmsType, DigestType, UserType
  <2> QED BY <2>1, <2>2
<1>4. CASE UNCHANGED vars
  BY <1>4
  DEF vars, queueVars, QueueType, WorkType, workVars, smsVars, digestVars, userVars,
      gwVars, RowType, SmsType, DigestType, UserType, GatewayType, GatewaysTypeOK
<1> QED BY <1>1, <1>2, <1>3, <1>4, ConsumerType, SmsTypeStep, DigestTypeStep DEF Next

\* Every step of every process leaves every variable well-typed: in particular
\* what is broadcast or written to a socket is always an alert, and no counter
\* leaves its bound.
THEOREM TypeCorrect == Spec => []TypeOK
<1>1. Init => Basic
  BY BasicInit
<1>2. Basic /\ [Next]_vars => Basic'
  BY BasicStep
<1>3. Basic => TypeOK
  BY BasicTypeOK
<1> QED BY <1>1, <1>2, <1>3, PTL DEF Spec

-----------------------------------------------------------------------------
(* The registry of the gateways *)

\* Only the gateways' own steps change a socket, a registry, or what a
\* subscriber is doing.
LEMMA GatewaysApart ==
    ASSUME [Next]_vars
    PROVE  \/ GatewaysNext /\ UNCHANGED restVars
           \/ UNCHANGED <<sock, at, reg, hand, via, pushed>>
<1>1. CASE Enqueue \/ ChangeChannels \/ UNCHANGED vars
  BY <1>1 DEF Enqueue, ChangeChannels, vars, gwVars
<1>2. ASSUME NEW w \in Workers,
             \/ Claim(w) \/ Reap(w) \/ Lookup(w) \/ Insert(w)
             \/ RouteEmail(w) \/ RouteWebsocket(w) \/ RouteSms(w)
             \/ Ack(w) \/ Raise(w) \/ Crash(w)
      PROVE  UNCHANGED <<sock, at, reg, hand, via, pushed>>
  BY <1>2 DEF Claim, Reap, Lookup, Insert, RouteEmail, RouteWebsocket, RouteSms,
              Routed, Ack, Raise, Crash, gwVars
<1>3. ASSUME NEW a \in Alerts,
             \/ SmsTake(a) \/ SmsNoPhone(a) \/ SmsSend(a) \/ SmsMark(a)
             \/ SmsRejected(a) \/ SmsLost(a)
      PROVE  UNCHANGED <<sock, at, reg, hand, via, pushed>>
  BY <1>3 DEF SmsTake, SmsNoPhone, SmsSend, SmsMark, SmsRejected, SmsLost, smsFrame
<1>4. CASE DigestSelect \/ DigestSend \/ DigestMark \/ DigestFails
  BY <1>4 DEF DigestSelect, DigestSend, DigestMark, DigestFails, digestFrame
<1> QED BY <1>1, <1>2, <1>3, <1>4 DEF Next

LEMMA NoStaleEntryStep ==
    ASSUME Basic, NoStaleEntry, [Next]_vars
    PROVE  NoStaleEntry'
<1> USE GatewaysAssumption DEF NoStaleEntry
<1>1. CASE UNCHANGED <<sock, at, reg, hand, via, pushed>>
  BY <1>1
<1>2. CASE GatewaysNext
  <2> USE DEF Basic, GatewayType, GatewaysTypeOK
  <2>1. ASSUME NEW s \in Sockets, Open(s)
        PROVE  NoStaleEntry'
    BY <2>1 DEF Open
  <2>2. ASSUME NEW s \in Sockets, Lose(s)
        PROVE  NoStaleEntry'
    BY <2>2 DEF Lose
  <2>3. ASSUME NEW s \in Sockets, Unregister(s)
        PROVE  NoStaleEntry'
    BY <2>3 DEF Unregister
  <2>4. ASSUME NEW g \in Replicas, PushFails(g) \/ GatewayCrash(g)
        PROVE  NoStaleEntry'
    BY <2>4 DEF PushFails, GatewayCrash
  <2>5. ASSUME NEW g \in Replicas,
               \/ Ignore(g) \/ Push(g) \/ Written(g) \/ PushBreaks(g)
               \/ Mark(g) \/ Deafen(g) \/ Resubscribe(g)
        PROVE  NoStaleEntry'
    BY <2>5 DEF Ignore, Push, Written, PushBreaks, Mark, Deafen, Resubscribe
  <2> QED BY <1>2, <2>1, <2>2, <2>3, <2>4, <2>5 DEF GatewaysNext
<1> QED BY <1>1, <1>2, GatewaysApart

\* Whatever reconnects, failed writes and crashes cross, the socket a replica has
\* registered for the user is one it accepted and whose handler still runs.
THEOREM RegistryServed == Spec => []NoStaleEntry
<1>1. Init => Basic /\ NoStaleEntry
  BY BasicInit DEF Init, GatewaysInit, NoStaleEntry
<1>2. Basic /\ NoStaleEntry /\ [Next]_vars => (Basic /\ NoStaleEntry)'
  BY BasicStep, NoStaleEntryStep
<1> QED BY <1>1, <1>2, PTL DEF Spec

-----------------------------------------------------------------------------
(* What is marked sent was delivered *)

\* Each of the three deliverers marks at a later step than it delivers; in
\* between it remembers only what it did deliver.
Handed ==
    /\ \A g \in Replicas : hand[g] # NoAlert /\ via[g] = NoSock => hand[g] \in pushed
    /\ \A a \in Alerts : run[a] = "texted" => texted[a] > 0
    /\ phase = "mailed" => digest \subseteq mailed

Delivered == Handed /\ SentIsDelivered

LEMMA RowsOf ==
    \A a \in Alerts : <<a, "sms">> \in Rows /\ <<a, "email">> \in Rows
BY DEF Rows

\* A status that is set leaves the rows of other channels and matches alone.
LEMMA SetType ==
    ASSUME RowType, NEW a \in Alerts, NEW s, Set(a, "sms", s)
    PROVE  /\ \A b \in Alerts : row'[<<b, "sms">>] = IF b = a THEN s ELSE row[<<b, "sms">>]
           /\ \A b \in Alerts : row'[<<b, "email">>] = row[<<b, "email">>]
<1>1. row' = [row EXCEPT ![<<a, "sms">>] = s]
  BY DEF Set
<1>2. ASSUME NEW r \in Rows
      PROVE  row'[r] = IF r = <<a, "sms">> THEN s ELSE row[r]
  BY <1>1 DEF RowType
<1>3. \A b \in Alerts : <<b, "sms">> = <<a, "sms">> <=> b = a
  OBVIOUS
<1>4. \A b \in Alerts : <<b, "email">> # <<a, "sms">>
  OBVIOUS
<1> QED BY <1>2, <1>3, <1>4, RowsOf

LEMMA DigestMarkRows ==
    ASSUME DigestMark, NEW b \in Alerts
    PROVE  /\ row'[<<b, "sms">>] = row[<<b, "sms">>]
           /\ row'[<<b, "email">>] = IF b \in digest THEN "sent" ELSE row[<<b, "email">>]
<1>1. ASSUME NEW r \in Rows
      PROVE  row'[r] = IF r[2] = "email" /\ r[1] \in digest THEN "sent" ELSE row[r]
  BY DEF DigestMark
<1>2. <<b, "sms">>[2] = "sms" /\ <<b, "email">>[2] = "email" /\ <<b, "email">>[1] = b
  OBVIOUS
<1> QED BY <1>1, <1>2, RowsOf

LEMMA DeliveredStep ==
    ASSUME Basic, Delivered, [Next]_vars
    PROVE  Delivered'
<1> USE DEF Delivered, Handed, SentIsDelivered
<1> USE DEF Basic, RowType, SmsType, DigestType, GatewayType, GatewaysTypeOK, Rows
<1>1. CASE Enqueue \/ ChangeChannels \/ UNCHANGED vars
  BY <1>1 DEF Enqueue, ChangeChannels, vars, gwVars, smsVars, digestVars
<1>2. ASSUME NEW w \in Workers,
             \/ Claim(w) \/ Reap(w) \/ Lookup(w) \/ Ack(w) \/ Raise(w) \/ Crash(w)
             \/ RouteEmail(w) \/ RouteWebsocket(w)
      PROVE  Delivered'
  BY <1>2 DEF Claim, Reap, Lookup, Ack, Raise, Crash, RouteEmail, RouteWebsocket,
              Routed, gwVars, smsVars, digestVars
<1>3. ASSUME NEW w \in Workers, Insert(w)
      PROVE  Delivered'
  <2>1. \A r \in Rows : row'[r] = "sent" => row[r] = "sent"
    BY <1>3 DEF Insert
  <2>2. \A a \in Alerts : wsRow'[a] = "sent" => wsRow[a] = "sent"
    BY <1>3 DEF Insert
  <2> QED BY <1>3, <2>1, <2>2 DEF Insert, smsVars, digestVars
<1>4. ASSUME NEW w \in Workers, RouteSms(w)
      PROVE  Delivered'
  <2>1. \A r \in Rows : row'[r] = "sent" => row[r] = "sent"
    BY <1>4 DEF RouteSms, Set
  <2> QED BY <1>4, <2>1 DEF RouteSms, Routed, digestVars
<1>5. ASSUME NEW a \in Alerts,
             \/ SmsTake(a) \/ SmsNoPhone(a) \/ SmsSend(a) \/ SmsMark(a)
             \/ SmsRejected(a) \/ SmsLost(a)
      PROVE  Delivered'
  <2>1. UNCHANGED smsFrame
    BY <1>5 DEF SmsTake, SmsNoPhone, SmsSend, SmsMark, SmsRejected, SmsLost
  <2>2. \A b \in Alerts : texted[b] > 0 => texted'[b] > 0
    BY <1>5 DEF SmsTake, SmsNoPhone, SmsSend, SmsMark, SmsRejected, SmsLost
  <2>3. \A b \in Alerts : run'[b] = "texted" => texted'[b] > 0
    BY <1>5 DEF SmsTake, SmsNoPhone, SmsSend, SmsMark, SmsRejected, SmsLost
  <2>4. \/ UNCHANGED row
        \/ Set(a, "sms", "failed")
        \/ run[a] = "texted" /\ Set(a, "sms", "sent")
    BY <1>5 DEF SmsTake, SmsNoPhone, SmsSend, SmsMark, SmsRejected, SmsLost
  <2>5. \A b \in Alerts :
            /\ row'[<<b, "sms">>] = "sent" => row[<<b, "sms">>] = "sent" \/ run[b] = "texted"
            /\ row'[<<b, "email">>] = row[<<b, "email">>]
    <3>1. CASE UNCHANGED row
      BY <3>1
    <3>2. CASE Set(a, "sms", "failed")
      <4>1. \A b \in Alerts :
                /\ row'[<<b, "sms">>] = IF b = a THEN "failed" ELSE row[<<b, "sms">>]
                /\ row'[<<b, "email">>] = row[<<b, "email">>]
        BY <3>2, SetType
      <4> QED BY <4>1
    <3>3. CASE run[a] = "texted" /\ Set(a, "sms", "sent")
      BY <3>3, SetType
    <3> QED BY <2>4, <3>1, <3>2, <3>3
  <2> QED BY <2>1, <2>2, <2>3, <2>4, <2>5 DEF smsFrame, digestVars
<1>6. CASE DigestSelect \/ DigestSend \/ DigestMark \/ DigestFails
  <2>1. UNCHANGED digestFrame
    BY <1>6 DEF DigestSelect, DigestSend, DigestMark, DigestFails
  <2>2. mailed \subseteq mailed' /\ (phase' = "mailed" => digest' \subseteq mailed')
    BY <1>6 DEF DigestSelect, DigestSend, DigestMark, DigestFails, DigestOver
  <2>3. \A b \in Alerts : row'[<<b, "sms">>] = row[<<b, "sms">>]
    BY <1>6, DigestMarkRows DEF DigestSelect, DigestSend, DigestFails
  <2>4. \A b \in Alerts :
            row'[<<b, "email">>] = "sent" => row[<<b, "email">>] = "sent" \/ b \in mailed
    BY <1>6, DigestMarkRows DEF DigestSelect, DigestSend, DigestMark, DigestFails
  <2> QED BY <2>1, <2>2, <2>3, <2>4 DEF digestFrame, smsVars
<1>7. CASE GatewaysNext /\ UNCHANGED restVars
  <2>1. UNCHANGED <<row, run, texted, digest, phase, mailed>>
    BY <1>7 DEF restVars, smsVars, digestVars
  <2>2. pushed \subseteq pushed'
    BY <1>7
    DEF GatewaysNext, Open, Lose, Unregister, Ignore, Push, Written, PushFails,
        PushBreaks, Mark, Deafen, Resubscribe, GatewayCrash
  <2>3. ASSUME NEW g \in Replicas, hand'[g] # NoAlert, via'[g] = NoSock
        PROVE  hand'[g] \in pushed'
    <3>1. ASSUME NEW s \in Sockets, Open(s) \/ Lose(s) \/ Unregister(s)
          PROVE  hand'[g] \in pushed'
      BY <2>3, <3>1 DEF Open, Lose, Unregister
    <3>2. ASSUME NEW h \in Replicas, Ignore(h) \/ Push(h)
          PROVE  hand'[g] \in pushed'
      BY <2>3, <3>2 DEF Ignore, Push, Take
    <3>3. ASSUME NEW h \in Replicas, Written(h) \/ PushFails(h) \/ PushBreaks(h)
          PROVE  hand'[g] \in pushed'
      BY <2>3, <3>3 DEF Written, PushFails, PushBreaks
    <3>4. ASSUME NEW h \in Replicas,
                 Mark(h) \/ Deafen(h) \/ Resubscribe(h) \/ GatewayCrash(h)
          PROVE  hand'[g] \in pushed'
      BY <2>3, <3>4 DEF Mark, Deafen, Resubscribe, GatewayCrash
    <3> QED BY <1>7, <3>1, <3>2, <3>3, <3>4 DEF GatewaysNext
  <2>4. ASSUME NEW a \in Alerts, wsRow'[a] = "sent"
        PROVE  a \in pushed'
    <3>1. wsRow[a] = "sent" \/ \E g \in Replicas : Mark(g) /\ hand[g] = a
      BY <1>7, <2>4
      DEF GatewaysNext, Open, Lose, Unregister, Ignore, Push, Written, PushFails,
          PushBreaks, Mark, Deafen, Resubscribe, GatewayCrash
    <3> QED BY <2>2, <3>1, GatewaysAssumption DEF Mark
  <2> QED BY <2>1, <2>3, <2>4
<1> QED BY <1>1, <1>2, <1>3, <1>4, <1>5, <1>6, <1>7 DEF Next

\* Whoever marks a row sent, the gateway, the SMS task or the digest, had handed
\* the alert over: however the steps of the deliverers, the inserts, the failures
\* and the crashes interleave.
THEOREM MarkedAfterDelivery == Spec => []SentIsDelivered
<1>1. Init => Basic /\ Delivered
  BY BasicInit DEF Init, GatewaysInit, Delivered, Handed, SentIsDelivered, Rows
<1>2. Basic /\ Delivered /\ [Next]_vars => (Basic /\ Delivered)'
  BY BasicStep, DeliveredStep
<1>3. Delivered => SentIsDelivered
  BY DEF Delivered
<1> QED BY <1>1, <1>2, <1>3, PTL DEF Spec

-----------------------------------------------------------------------------
(* At most one SMS *)

\* The right to text a match: a consumer that still has its new sms row to route
\* (it got the row from an insert), then a task in the broker, then a running
\* task, then the text.  There is never more than one of them.
RoutesSms(w, a) == pc[w] = "route" /\ match[w] = a /\ "sms" \in chans[w]

Texting(a) == queued[a] + texted[a] + (IF run[a] = "running" THEN 1 ELSE 0)

OnceOf(a) ==
    /\ Texting(a) <= 1
    /\ row[<<a, "sms">>] = "none" => Texting(a) = 0
    /\ \A w \in Workers : RoutesSms(w, a) =>
        /\ Texting(a) = 0 /\ row[<<a, "sms">>] # "none"
        /\ \A v \in Workers : RoutesSms(v, a) => v = w

SmsOnce == \A a \in Alerts : OnceOf(a)

LEMMA TextingType ==
    ASSUME SmsType, NEW a \in Alerts
    PROVE  Texting(a) \in Nat /\ texted[a] <= Texting(a)
<1>1. queued[a] \in 0..2 /\ texted[a] \in 0..2
  BY DEF SmsType
<1>2. (IF run[a] = "running" THEN 1 ELSE 0) \in 0..1
  OBVIOUS
<1> QED BY <1>1, <1>2 DEF Texting

\* A step that gives no consumer an sms row to route, texts no one and unmakes no
\* row keeps the right where it is.
LEMMA SmsOnceKept ==
    ASSUME Basic, SmsOnce,
           \A a \in Alerts :
              /\ \A w \in Workers : RoutesSms(w, a)' => RoutesSms(w, a)
              /\ row'[<<a, "sms">>] = "none" <=> row[<<a, "sms">>] = "none",
           UNCHANGED <<queued, run, texted>>
    PROVE  SmsOnce'
<1>1. \A a \in Alerts : Texting(a)' = Texting(a)
  BY DEF Texting
<1> QED BY <1>1 DEF SmsOnce, OnceOf

LEMMA SmsOnceStep ==
    ASSUME Basic, SmsOnce, [Next]_vars
    PROVE  SmsOnce'
<1> USE DEF Basic
<1>1. CASE Enqueue \/ ChangeChannels \/ UNCHANGED vars \/ (GatewaysNext /\ UNCHANGED restVars)
  <2>1. UNCHANGED <<pc, match, chans, row, queued, run, texted>>
    BY <1>1 DEF Enqueue, ChangeChannels, vars, restVars, workVars, smsVars
  <2> QED BY <2>1, SmsOnceKept DEF RoutesSms
<1>2. ASSUME NEW w \in Workers,
             \/ Claim(w) \/ Reap(w) \/ Lookup(w) \/ RouteEmail(w) \/ RouteWebsocket(w)
             \/ Ack(w) \/ Raise(w) \/ Crash(w)
      PROVE  SmsOnce'
  <2>1. UNCHANGED <<row, queued, run, texted>>
    BY <1>2 DEF Claim, Reap, Lookup, RouteEmail, RouteWebsocket, Ack, Raise, Crash, smsVars
  <2>2. \A v \in Workers : v # w =>
            pc'[v] = pc[v] /\ match'[v] = match[v] /\ chans'[v] = chans[v]
    BY <1>2
    DEF Claim, Reap, Lookup, RouteEmail, RouteWebsocket, Routed, Ack, Raise, Crash,
        Finish, Forget, Goto, workVars, WorkType
  <2>3. \/ pc'[w] # "route"
        \/ pc'[w] = pc[w] /\ match'[w] = match[w] /\ chans'[w] \subseteq chans[w]
    BY <1>2
    DEF Claim, Reap, Lookup, RouteEmail, RouteWebsocket, Routed, Ack, Raise, Crash,
        Finish, Forget, Goto, workVars, WorkType
  <2>4. \A a \in Alerts, v \in Workers : RoutesSms(v, a)' => RoutesSms(v, a)
    BY <2>2, <2>3 DEF RoutesSms
  <2> QED BY <2>1, <2>4, SmsOnceKept
<1>3. ASSUME NEW w \in Workers, Insert(w)
      PROVE  SmsOnce'
  <2>1. PICK a \in Alerts : match[w] = a /\ pc[w] = "insert"
    BY <1>3 DEF Insert, WorkType
  <2> DEFINE new == Fresh(a, chans[w])
  <2>2. UNCHANGED <<match, queued, run, texted>>
    BY <1>3 DEF Insert, smsVars
  <2>3. \A v \in Workers : v # w => pc'[v] = pc[v] /\ chans'[v] = chans[v]
    BY <1>3 DEF Insert, Goto, WorkType
  <2>4. chans'[w] = new
    BY <1>3, <2>1 DEF Insert, WorkType
  <2>5. ASSUME NEW b \in Alerts
        PROVE  row'[<<b, "sms">>] =
                 IF b = a /\ "sms" \in new THEN "pending" ELSE row[<<b, "sms">>]
    <3>1. row' = [r \in Rows |-> IF r[1] = a /\ r[2] \in new THEN "pending" ELSE row[r]]
      BY <1>3, <2>1 DEF Insert
    <3>2. <<b, "sms">>[1] = b /\ <<b, "sms">>[2] = "sms"
      OBVIOUS
    <3> QED BY <3>1, <3>2, RowsOf
  <2>6. "sms" \in new => row[<<a, "sms">>] = "none"
    BY DEF Fresh, RowOf
  <2>7. \A b \in Alerts : Texting(b)' = Texting(b)
    BY <2>2 DEF Texting
  <2>8. ASSUME NEW b \in Alerts, NEW v \in Workers, RoutesSms(v, b)'
        PROVE  \/ v # w /\ RoutesSms(v, b)
               \/ v = w /\ b = a /\ "sms" \in new
    BY <2>1, <2>2, <2>3, <2>4, <2>8 DEF RoutesSms
  <2>9. ASSUME NEW b \in Alerts, b # a \/ "sms" \notin new
        PROVE  /\ row'[<<b, "sms">>] = row[<<b, "sms">>]
               /\ \A v \in Workers : RoutesSms(v, b)' => RoutesSms(v, b)
    BY <2>5, <2>8, <2>9
  <2>10. CASE "sms" \in new
    <3>1. Texting(a) = 0 /\ \A v \in Workers : ~ RoutesSms(v, a)
      BY <2>1, <2>6, <2>10 DEF SmsOnce, OnceOf
    <3>2. \A v \in Workers : RoutesSms(v, a)' => v = w
      BY <2>1, <2>8, <3>1
    <3>3. row'[<<a, "sms">>] = "pending"
      BY <2>1, <2>5, <2>10
    <3>4. OnceOf(a)'
      BY <2>7, <3>1, <3>2, <3>3 DEF OnceOf
    <3>5. ASSUME NEW b \in Alerts, b # a
          PROVE  OnceOf(b)'
      <4>1. OnceOf(b)
        BY DEF SmsOnce
      <4> QED BY <2>7, <2>9, <3>5, <4>1 DEF OnceOf
    <3> QED BY <3>4, <3>5 DEF SmsOnce
  <2>11. CASE "sms" \notin new
    BY <2>2, <2>9, <2>11, SmsOnceKept
  <2> QED BY <2>10, <2>11
<1>4. ASSUME NEW w \in Workers, RouteSms(w)
      PROVE  SmsOnce'
  <2>1. PICK a \in Alerts : match[w] = a /\ RoutesSms(w, a)
    BY <1>4 DEF RouteSms, Routed, WorkType, RoutesSms
  <2>2. Texting(a) = 0 /\ row[<<a, "sms">>] # "none"
        /\ \A v \in Workers : RoutesSms(v, a) => v = w
    BY <2>1 DEF SmsOnce, OnceOf
  <2>3. UNCHANGED <<match, run, texted>>
    BY <1>4 DEF RouteSms, Routed
  <2>4. /\ \A v \in Workers : v # w => pc'[v] = pc[v] /\ chans'[v] = chans[v]
        /\ chans'[w] = chans[w] \ {"sms"}
    BY <1>4 DEF RouteSms, Routed, Goto, WorkType
  <2>5. \A b \in Alerts, v \in Workers : RoutesSms(v, b)' => v # w /\ RoutesSms(v, b)
    BY <2>3, <2>4 DEF RoutesSms
  <2>6. /\ \A b \in Alerts : b # a => queued'[b] = queued[b]
        /\ queued'[a] \in {queued[a], queued[a] + 1}
    BY <1>4, <2>1 DEF RouteSms, SmsType
  <2>7. UNCHANGED row \/ Set(a, "sms", "failed")
    BY <1>4, <2>1 DEF RouteSms
  <2>8. \A b \in Alerts : row'[<<b, "sms">>] = "none" <=> row[<<b, "sms">>] = "none"
    <3>1. CASE UNCHANGED row
      BY <3>1
    <3>2. CASE Set(a, "sms", "failed")
      <4>1. \A b \in Alerts :
                row'[<<b, "sms">>] = IF b = a THEN "failed" ELSE row[<<b, "sms">>]
        BY <2>1, <3>2, SetType
      <4> QED BY <2>2, <4>1
    <3> QED BY <2>7, <3>1, <3>2
  <2>9. \A b \in Alerts : b # a => Texting(b)' = Texting(b)
    BY <2>3, <2>6 DEF Texting
  <2>10. Texting(a)' <= 1
    BY <2>1, <2>2, <2>3, <2>6 DEF Texting, SmsType
  <2>11. \A v \in Workers : ~ RoutesSms(v, a)'
    BY <2>1, <2>2, <2>5
  <2>12. OnceOf(a)'
    BY <2>2, <2>8, <2>10, <2>11 DEF OnceOf
  <2>13. ASSUME NEW b \in Alerts, b # a
         PROVE  OnceOf(b)'
    <3>1. OnceOf(b)
      BY DEF SmsOnce
    <3> QED BY <2>5, <2>8, <2>9, <2>13, <3>1 DEF OnceOf
  <2> QED BY <2>12, <2>13 DEF SmsOnce
<1>5. ASSUME NEW a \in Alerts,
             \/ SmsTake(a) \/ SmsNoPhone(a) \/ SmsSend(a) \/ SmsMark(a)
             \/ SmsRejected(a) \/ SmsLost(a)
      PROVE  SmsOnce'
  <2>1. UNCHANGED <<pc, match, chans>>
    BY <1>5
    DEF SmsTake, SmsNoPhone, SmsSend, SmsMark, SmsRejected, SmsLost, smsFrame, workVars
  <2>2. UNCHANGED row \/ Set(a, "sms", "failed") \/ Set(a, "sms", "sent")
    BY <1>5 DEF SmsTake, SmsNoPhone, SmsSend, SmsMark, SmsRejected, SmsLost
  <2>3. \A b \in Alerts : row'[<<b, "sms">>] = "none" =>
            row[<<b, "sms">>] = "none" /\ (b = a => UNCHANGED row)
    <3>1. CASE UNCHANGED row
      BY <3>1
    <3>2. ASSUME NEW s \in {"failed", "sent"}, Set(a, "sms", s)
          PROVE  \A b \in Alerts :
                    row'[<<b, "sms">>] = "none" => row[<<b, "sms">>] = "none" /\ b # a
      <4>1. \A b \in Alerts :
                row'[<<b, "sms">>] = IF b = a THEN s ELSE row[<<b, "sms">>]
        BY <3>2, SetType
      <4> QED BY <3>2, <4>1
    <3> QED BY <2>2, <3>1, <3>2
  <2>4. \A b \in Alerts : b # a => Texting(b)' = Texting(b)
    BY <1>5
    DEF SmsTake, SmsNoPhone, SmsSend, SmsMark, SmsRejected, SmsLost, SmsType, Texting
  <2>5. /\ Texting(a) = 0 => Texting(a)' = 0
        /\ Texting(a) = 1 => Texting(a)' <= 1
    BY <1>5
    DEF SmsTake, SmsNoPhone, SmsSend, SmsMark, SmsRejected, SmsLost, SmsType, Texting
  <2>6. Texting(a) \in 0..1
    <3>1. Texting(a) \in Nat
      BY TextingType
    <3>2. Texting(a) <= 1
      BY DEF SmsOnce, OnceOf
    <3> QED BY <3>1, <3>2
  <2>7. \A b \in Alerts, v \in Workers : RoutesSms(v, b)' <=> RoutesSms(v, b)
    BY <2>1 DEF RoutesSms
  <2>8. OnceOf(a)
    BY DEF SmsOnce
  <2>9. OnceOf(a)'
    <3>1. Texting(a)' <= 1 /\ (Texting(a) = 0 => Texting(a)' = 0)
      BY <2>5, <2>6
    <3> QED BY <2>3, <2>7, <2>8, <3>1 DEF OnceOf
  <2>10. ASSUME NEW b \in Alerts, b # a
         PROVE  OnceOf(b)'
    <3>1. OnceOf(b)
      BY DEF SmsOnce
    <3> QED BY <2>3, <2>4, <2>7, <2>10, <3>1 DEF OnceOf
  <2> QED BY <2>9, <2>10 DEF SmsOnce
<1>6. CASE DigestSelect \/ DigestSend \/ DigestMark \/ DigestFails
  <2>1. UNCHANGED <<pc, match, chans, queued, run, texted>>
    BY <1>6
    DEF DigestSelect, DigestSend, DigestMark, DigestFails, digestFrame, workVars, smsVars
  <2>2. \A b \in Alerts : row'[<<b, "sms">>] = row[<<b, "sms">>]
    BY <1>6, DigestMarkRows DEF DigestSelect, DigestSend, DigestFails
  <2> QED BY <2>1, <2>2, SmsOnceKept DEF RoutesSms
<1> QED BY <1>1, <1>2, <1>3, <1>4, <1>5, <1>6 DEF Next

\* However often a match is published, its message redelivered or its task
\* retried, and whatever crashes, the user gets at most one SMS about it: the
\* insert grants the right to text once, and each later step passes it on.
THEOREM AtMostOneText == Spec => []OneText
<1>1. Init => Basic /\ SmsOnce
  BY BasicInit, RowsOf DEF Init, SmsOnce, OnceOf, Texting, RoutesSms
<1>2. Basic /\ SmsOnce /\ [Next]_vars => (Basic /\ SmsOnce)'
  BY BasicStep, SmsOnceStep
<1>3. Basic /\ SmsOnce => OneText
  <2> SUFFICES ASSUME Basic, SmsOnce, NEW a \in Alerts
               PROVE  texted[a] <= 1
    BY DEF OneText
  <2>1. texted[a] <= Texting(a) /\ Texting(a) \in Nat
    BY TextingType DEF Basic
  <2>2. texted[a] \in Nat
    BY DEF Basic, SmsType
  <2>3. Texting(a) <= 1
    BY DEF SmsOnce, OnceOf
  <2> QED BY <2>1, <2>2, <2>3
<1> QED BY <1>1, <1>2, <1>3, PTL DEF Spec

-----------------------------------------------------------------------------
(* At least once into the table *)

\* A consumer holds one message at most, and works on its match.
OneInHand ==
    \A m \in Messages, w \in Workers : holder[m] = w =>
        /\ pc[w] # "idle" /\ match[w] = Match[m]
        /\ \A n \in Messages : holder[n] = w => n = m

Recorded(a, S) == \A ch \in S : RowOf(a, ch) # "none"

\* What a consumer has established when it comes to each of its steps.
Established ==
    \A w \in Workers :
        /\ pc[w] = "insert" => chans[w] = wanted
        /\ pc[w] = "route" => Recorded(match[w], wanted)
        /\ pc[w] = "ack" => match[w] \in Missing \/ Recorded(match[w], wanted)

Recording == OneInHand /\ (changes = 0 => Established /\ AckedIsRecorded)

\* No step unmakes a row.
LEMMA RowsStay ==
    ASSUME Basic, [Next]_vars, NEW a \in Alerts, NEW ch \in Channels,
           RowOf(a, ch) # "none"
    PROVE  RowOf(a, ch)' # "none"
<1> USE DEF Basic
<1>1. ASSUME ch = "websocket"
      PROVE  wsRow'[a] # "none"
  <2>1. wsRow[a] # "none"
    BY <1>1 DEF RowOf
  <2>2. CASE UNCHANGED wsRow
    BY <2>1, <2>2
  <2>3. ASSUME NEW w \in Workers, Insert(w)
        PROVE  wsRow'[a] # "none"
    BY <2>1, <2>3 DEF Insert, GatewayType, GatewaysTypeOK
  <2>4. ASSUME NEW g \in Replicas, Mark(g)
        PROVE  wsRow'[a] # "none"
    BY <2>1, <2>4 DEF Mark, GatewayType, GatewaysTypeOK
  <2>5. \/ UNCHANGED wsRow
        \/ \E w \in Workers : Insert(w)
        \/ \E g \in Replicas : Mark(g)
    <3>1. CASE Enqueue \/ ChangeChannels \/ UNCHANGED vars
      BY <3>1 DEF Enqueue, ChangeChannels, vars, gwVars
    <3>2. ASSUME NEW w \in Workers,
                 \/ Claim(w) \/ Reap(w) \/ Lookup(w)
                 \/ RouteEmail(w) \/ RouteWebsocket(w) \/ RouteSms(w)
                 \/ Ack(w) \/ Raise(w) \/ Crash(w)
          PROVE  UNCHANGED wsRow
      BY <3>2 DEF Claim, Reap, Lookup, RouteEmail, RouteWebsocket, RouteSms,
                  Routed, Ack, Raise, Crash, gwVars
    <3>3. ASSUME NEW b \in Alerts,
                 \/ SmsTake(b) \/ SmsNoPhone(b) \/ SmsSend(b) \/ SmsMark(b)
                 \/ SmsRejected(b) \/ SmsLost(b)
          PROVE  UNCHANGED wsRow
      BY <3>3 DEF SmsTake, SmsNoPhone, SmsSend, SmsMark, SmsRejected, SmsLost, smsFrame
    <3>4. CASE DigestSelect \/ DigestSend \/ DigestMark \/ DigestFails
      BY <3>4 DEF DigestSelect, DigestSend, DigestMark, DigestFails, digestFrame
    <3>5. CASE GatewaysNext
      BY <3>5
      DEF GatewaysNext, Open, Lose, Unregister, Ignore, Push, Written, PushFails,
          PushBreaks, Deafen, Resubscribe, GatewayCrash
    <3> QED BY <3>1, <3>2, <3>3, <3>4, <3>5 DEF Next
  <2> QED BY <2>2, <2>3, <2>4, <2>5
<1>2. ASSUME ch # "websocket"
      PROVE  row'[<<a, ch>>] # "none"
  <2>1. row[<<a, ch>>] # "none" /\ <<a, ch>> \in Rows
    BY <1>2 DEF RowOf, Rows, Channels
  <2>2. CASE UNCHANGED row
    BY <2>1, <2>2
  <2>3. ASSUME NEW b \in Alerts, NEW s \in {"failed", "sent"}, Set(b, "sms", s)
        PROVE  row'[<<a, ch>>] # "none"
    BY <2>1, <2>3 DEF Set, RowType
  <2>4. ASSUME NEW w \in Workers, Insert(w)
        PROVE  row'[<<a, ch>>] # "none"
    BY <2>1, <2>4 DEF Insert
  <2>5. CASE DigestMark
    BY <2>1, <2>5 DEF DigestMark
  <2>6. \/ UNCHANGED row
        \/ \E b \in Alerts : Set(b, "sms", "failed") \/ Set(b, "sms", "sent")
        \/ \E w \in Workers : Insert(w)
        \/ DigestMark
    <3>1. CASE Enqueue \/ ChangeChannels \/ UNCHANGED vars
               \/ (GatewaysNext /\ UNCHANGED restVars)
      BY <3>1 DEF Enqueue, ChangeChannels, vars, restVars
    <3>2. ASSUME NEW w \in Workers,
                 \/ Claim(w) \/ Reap(w) \/ Lookup(w)
                 \/ RouteEmail(w) \/ RouteWebsocket(w)
                 \/ Ack(w) \/ Raise(w) \/ Crash(w)
          PROVE  UNCHANGED row
      BY <3>2 DEF Claim, Reap, Lookup, RouteEmail, RouteWebsocket, Ack, Raise, Crash
    <3>3. ASSUME NEW w \in Workers, RouteSms(w)
          PROVE  UNCHANGED row \/ (Set(match[w], "sms", "failed") /\ match[w] \in Alerts)
      BY <3>3 DEF RouteSms, Routed, WorkType
    <3>4. ASSUME NEW b \in Alerts,
                 \/ SmsTake(b) \/ SmsNoPhone(b) \/ SmsSend(b) \/ SmsMark(b)
                 \/ SmsRejected(b) \/ SmsLost(b)
          PROVE  UNCHANGED row \/ Set(b, "sms", "failed") \/ Set(b, "sms", "sent")
      BY <3>4 DEF SmsTake, SmsNoPhone, SmsSend, SmsMark, SmsRejected, SmsLost
    <3>5. CASE DigestSelect \/ DigestSend \/ DigestFails
      BY <3>5 DEF DigestSelect, DigestSend, DigestFails
    <3> QED BY <3>1, <3>2, <3>3, <3>4, <3>5 DEF Next
  <2> QED BY <2>2, <2>3, <2>4, <2>5, <2>6
<1> QED BY <1>1, <1>2 DEF RowOf

ConsumerStep(w) ==
    \/ Claim(w) \/ Reap(w) \/ Lookup(w) \/ Insert(w)
    \/ RouteEmail(w) \/ RouteWebsocket(w) \/ RouteSms(w)
    \/ Ack(w) \/ Raise(w) \/ Crash(w)

\* The consumers and the publisher alone touch the queue and the consumers' state.
LEMMA ConsumersApart ==
    ASSUME [Next]_vars
    PROVE  \/ \E w \in Workers : ConsumerStep(w)
           \/ Enqueue
           \/ UNCHANGED <<state, holder, pc, match, chans>>
<1>1. CASE ChangeChannels \/ UNCHANGED vars \/ (GatewaysNext /\ UNCHANGED restVars)
  BY <1>1 DEF ChangeChannels, vars, restVars, queueVars, workVars
<1>2. ASSUME NEW a \in Alerts,
             \/ SmsTake(a) \/ SmsNoPhone(a) \/ SmsSend(a) \/ SmsMark(a)
             \/ SmsRejected(a) \/ SmsLost(a)
      PROVE  UNCHANGED <<state, holder, pc, match, chans>>
  BY <1>2 DEF SmsTake, SmsNoPhone, SmsSend, SmsMark, SmsRejected, SmsLost, smsFrame,
              queueVars, workVars
<1>3. CASE DigestSelect \/ DigestSend \/ DigestMark \/ DigestFails
  BY <1>3 DEF DigestSelect, DigestSend, DigestMark, DigestFails, digestFrame,
              queueVars, workVars
<1> QED BY <1>1, <1>2, <1>3 DEF Next, ConsumerStep

LEMMA OthersStay ==
    ASSUME Basic, NEW w \in Workers, ConsumerStep(w), NEW v \in Workers, v # w
    PROVE  pc'[v] = pc[v] /\ match'[v] = match[v] /\ chans'[v] = chans[v]
BY DEF Basic, WorkType, ConsumerStep, Claim, Reap, Lookup, Insert, RouteEmail,
       RouteWebsocket, RouteSms, Routed, Ack, Raise, Crash, Finish, Forget, Goto, workVars

LEMMA OneInHandStep ==
    ASSUME Basic, OneInHand, [Next]_vars
    PROVE  OneInHand'
<1> USE DeliveryAssumption DEF OneInHand, Basic, QueueType, WorkType
<1>1. CASE UNCHANGED <<state, holder, pc, match, chans>>
  BY <1>1
<1>2. CASE Enqueue
  BY <1>2 DEF Enqueue, Queue!Enqueue, workVars
<1>3. ASSUME NEW w \in Workers, Claim(w)
      PROVE  OneInHand'
  <2>1. PICK m \in Messages : Queue!Lease({m}, w) /\ match' = [match EXCEPT ![w] = Match[m]]
    BY <1>3 DEF Claim
  <2>2. \A n \in Messages : holder'[n] = IF n = m THEN w ELSE holder[n]
    BY <2>1 DEF Queue!Lease
  <2>3. \A n \in Messages : holder[n] # w
    BY <1>3 DEF Claim
  <2>4. pc'[w] = "lookup" /\ match'[w] = Match[m]
    BY <1>3, <2>1 DEF Claim, Goto
  <2>5. \A v \in Workers : v # w => pc'[v] = pc[v] /\ match'[v] = match[v]
    BY <1>3, OthersStay DEF ConsumerStep
  <2> QED BY <2>2, <2>3, <2>4, <2>5
<1>4. ASSUME NEW w \in Workers, Reap(w)
      PROVE  OneInHand'
  BY <1>4 DEF Reap, Queue!Recover, workVars
<1>5. ASSUME NEW w \in Workers,
             \/ Lookup(w) \/ Insert(w)
             \/ RouteEmail(w) \/ RouteWebsocket(w) \/ RouteSms(w)
      PROVE  OneInHand'
  <2>1. UNCHANGED <<holder, match>> /\ pc'[w] # "idle"
    BY <1>5 DEF Lookup, Insert, RouteEmail, RouteWebsocket, RouteSms, Routed, Goto, queueVars
  <2>2. \A v \in Workers : v # w => pc'[v] = pc[v]
    BY <1>5, OthersStay DEF ConsumerStep
  <2> QED BY <2>1, <2>2
<1>6. ASSUME NEW w \in Workers, Ack(w) \/ Raise(w) \/ Crash(w)
      PROVE  OneInHand'
  <2>1. \A n \in Messages : holder'[n] \in {holder[n], Nobody} /\ holder'[n] # w
    <3>1. ASSUME NEW to, Finish(w, to)
          PROVE  \A n \in Messages : holder'[n] \in {holder[n], Nobody} /\ holder'[n] # w
      <4>1. PICK m \in Held(w) : Queue!End(m, to)
        BY <3>1 DEF Finish
      <4>2. m \in Messages /\ holder[m] = w /\ holder' = [holder EXCEPT ![m] = Nobody]
        BY <4>1 DEF Held, Queue!End
      <4> QED BY <4>2
    <3>2. CASE Ack(w)
      BY <3>1, <3>2 DEF Ack
    <3>3. CASE Raise(w)
      BY <3>1, <3>3 DEF Raise
    <3>4. CASE Crash(w)
      BY <3>4 DEF Crash, Queue!Abandon
    <3> QED BY <1>6, <3>2, <3>3, <3>4
  <2>2. \A v \in Workers : v # w => pc'[v] = pc[v] /\ match'[v] = match[v]
    BY <1>6, OthersStay DEF ConsumerStep
  <2> QED BY <2>1, <2>2
<1> QED BY <1>1, <1>2, <1>3, <1>4, <1>5, <1>6, ConsumersApart DEF ConsumerStep

\* As long as the user leaves her channels alone, wanted is what it was, and a
\* match that is recorded stays recorded.
LEMMA WantedStays ==
    ASSUME Basic, [Next]_vars, changes' = 0
    PROVE  /\ changes = 0 /\ wanted' = wanted
           /\ \A a \in Alerts : Recorded(a, wanted) => Recorded(a, wanted)'
<1>1. ~ ChangeChannels
  BY DEF ChangeChannels, Basic, UserType
<1>2. UNCHANGED userVars
  <2>1. CASE Enqueue \/ UNCHANGED vars \/ (GatewaysNext /\ UNCHANGED restVars)
    BY <2>1 DEF Enqueue, vars, restVars
  <2>2. ASSUME NEW w \in Workers, ConsumerStep(w)
        PROVE  UNCHANGED userVars
    BY <2>2 DEF ConsumerStep, Claim, Reap, Lookup, Insert, RouteEmail,
                RouteWebsocket, RouteSms, Routed, Ack, Raise, Crash
  <2>3. ASSUME NEW a \in Alerts,
               \/ SmsTake(a) \/ SmsNoPhone(a) \/ SmsSend(a) \/ SmsMark(a)
               \/ SmsRejected(a) \/ SmsLost(a)
        PROVE  UNCHANGED userVars
    BY <2>3 DEF SmsTake, SmsNoPhone, SmsSend, SmsMark, SmsRejected, SmsLost, smsFrame
  <2>4. CASE DigestSelect \/ DigestSend \/ DigestMark \/ DigestFails
    BY <2>4 DEF DigestSelect, DigestSend, DigestMark, DigestFails, digestFrame
  <2> QED BY <1>1, <2>1, <2>2, <2>3, <2>4 DEF Next, ConsumerStep
<1>3. changes = 0 /\ wanted' = wanted
  BY <1>2 DEF userVars
<1>4. \A a \in Alerts : Recorded(a, wanted) => Recorded(a, wanted)'
  BY <1>3, RowsStay DEF Recorded, Basic, UserType
<1> QED BY <1>3, <1>4

LEMMA EstablishedStep ==
    ASSUME Basic, Recording, [Next]_vars, changes' = 0
    PROVE  Established'
<1>1. /\ changes = 0 /\ wanted' = wanted
      /\ \A a \in Alerts : Recorded(a, wanted) => Recorded(a, wanted)'
  BY WantedStays
<1>2. Established
  BY <1>1 DEF Recording
<1> DEFINE EstablishedBy(w) ==
        /\ pc[w] = "insert" => chans[w] = wanted
        /\ pc[w] = "route" => Recorded(match[w], wanted)
        /\ pc[w] = "ack" => match[w] \in Missing \/ Recorded(match[w], wanted)
<1>3. ASSUME NEW v \in Workers,
             pc'[v] = pc[v] /\ match'[v] = match[v] /\ chans'[v] = chans[v]
      PROVE  EstablishedBy(v)'
  <2>1. pc[v] # "idle" => match[v] \in Alerts
    BY DEF Basic, WorkType
  <2>2. EstablishedBy(v)
    BY <1>2 DEF Established
  <2>3. Recorded(match[v], wanted) /\ match[v] \in Alerts => Recorded(match[v], wanted)'
    <3>1. SUFFICES ASSUME Recorded(match[v], wanted), NEW a \in Alerts, a = match[v]
                   PROVE  Recorded(match[v], wanted)'
      OBVIOUS
    <3>2. Recorded(a, wanted)'
      BY <1>1, <3>1
    <3>3. match'[v] = a
      BY <1>3, <3>1
    <3> QED BY <3>2, <3>3
  <2> QED BY <1>1, <1>3, <2>1, <2>2, <2>3
<1>4. ASSUME NEW w \in Workers, ConsumerStep(w)
      PROVE  EstablishedBy(w)'
  <2> USE DEF Basic, WorkType
  <2>1. CASE Claim(w)
    BY <2>1 DEF Claim, Goto
  <2>2. CASE Reap(w)
    BY <1>3, <2>2 DEF Reap, workVars
  <2>3. CASE Lookup(w)
    <3>1. pc'[w] = IF wanted = {} \/ match[w] \in Missing THEN "ack" ELSE "insert"
      BY <2>3 DEF Lookup, Goto
    <3>2. UNCHANGED match /\ chans'[w] = wanted
      BY <2>3 DEF Lookup
    <3>3. wanted = {} => Recorded(match[w], wanted)'
      BY <1>1 DEF Recorded
    <3> QED BY <1>1, <3>1, <3>2, <3>3
  <2>4. CASE Insert(w)
    <3>1. PICK a \in Alerts : match[w] = a /\ match'[w] = a
      BY <2>4 DEF Insert
    <3>2. chans[w] = wanted
      BY <1>2, <2>4 DEF Insert, Established
    <3>3. ASSUME NEW ch \in wanted
          PROVE  RowOf(a, ch)' # "none"
      <4>1. ch \in Channels
        BY DEF UserType
      <4>2. CASE RowOf(a, ch) # "none"
        BY <4>1, <4>2, RowsStay
      <4>3. CASE ch = "websocket" /\ RowOf(a, ch) = "none"
        <5>1. wsRow'[a] = "pending"
          BY <2>4, <3>1, <3>2, <4>3 DEF Insert, Fresh, GatewayType, GatewaysTypeOK
        <5> QED BY <4>3, <5>1 DEF RowOf
      <4>4. CASE ch # "websocket" /\ RowOf(a, ch) = "none"
        <5>1. <<a, ch>> \in Rows /\ ch \in Fresh(a, chans[w])
          BY <3>2, <4>1, <4>4 DEF Rows, Channels, Fresh
        <5>2. row'[<<a, ch>>] = "pending"
          BY <2>4, <3>1, <5>1 DEF Insert
        <5> QED BY <4>4, <5>2 DEF RowOf
      <4> QED BY <4>2, <4>3, <4>4
    <3>4. Recorded(a, wanted)'
      BY <1>1, <3>3 DEF Recorded
    <3>5. Recorded(match[w], wanted)'
      BY <3>1, <3>4
    <3>6. pc'[w] \in {"ack", "route"}
      BY <2>4 DEF Insert, Goto
    <3> QED BY <3>5, <3>6
  <2>5. CASE RouteEmail(w) \/ RouteWebsocket(w) \/ RouteSms(w)
    <3>1. pc[w] = "route" /\ pc'[w] \in {"ack", "route"} /\ UNCHANGED match
      BY <2>5 DEF RouteEmail, RouteWebsocket, RouteSms, Routed, Goto
    <3>2. PICK a \in Alerts : match[w] = a /\ match'[w] = a
      BY <3>1
    <3>3. Recorded(a, wanted)
      BY <1>2, <3>1, <3>2 DEF Established
    <3>4. Recorded(a, wanted)'
      BY <1>1, <3>3
    <3>5. Recorded(match[w], wanted)'
      BY <3>2, <3>4
    <3> QED BY <3>1, <3>5
  <2>6. CASE Ack(w) \/ Raise(w) \/ Crash(w)
    <3>1. pc'[w] = "idle"
      BY <2>6 DEF Ack, Raise, Crash, Finish, Forget, Goto
    <3> QED BY <3>1
  <2> QED BY <1>4, <2>1, <2>2, <2>3, <2>4, <2>5, <2>6 DEF ConsumerStep
<1>5. \A v \in Workers : EstablishedBy(v)'
  <2>1. CASE Enqueue \/ UNCHANGED <<state, holder, pc, match, chans>>
    BY <1>3, <2>1 DEF Enqueue, workVars
  <2>2. ASSUME NEW w \in Workers, ConsumerStep(w)
        PROVE  \A v \in Workers : EstablishedBy(v)'
    BY <1>3, <1>4, <2>2, OthersStay
  <2> QED BY <2>1, <2>2, ConsumersApart
<1> QED BY <1>5 DEF Established

LEMMA AckedStep ==
    ASSUME Basic, Recording, [Next]_vars, changes' = 0
    PROVE  AckedIsRecorded'
<1>1. /\ changes = 0 /\ wanted' = wanted
      /\ \A a \in Alerts : Recorded(a, wanted) => Recorded(a, wanted)'
  BY WantedStays
<1>2. Established /\ AckedIsRecorded /\ OneInHand
  BY <1>1 DEF Recording
<1>3. ASSUME NEW m \in Messages, state'[m] = "done", Match[m] \notin Missing
      PROVE  Recorded(Match[m], wanted)'
  <2>1. Match[m] \in Alerts
    BY DeliveryAssumption
  <2>2. CASE state[m] = "done"
    <3>1. Recorded(Match[m], wanted)
      BY <1>1, <1>2, <1>3, <2>2 DEF AckedIsRecorded, Recorded
    <3> QED BY <1>1, <2>1, <3>1
  <2>3. ASSUME NEW w \in Workers, Ack(w), holder[m] = w
        PROVE  Recorded(Match[m], wanted)'
    <3>1. pc[w] = "ack" /\ match[w] = Match[m]
      BY <1>2, <2>3 DEF Ack, OneInHand
    <3>2. Recorded(Match[m], wanted)
      BY <1>2, <1>3, <3>1 DEF Established
    <3> QED BY <1>1, <2>1, <3>2
  <2>4. state[m] = "done" \/ \E w \in Workers : Ack(w) /\ holder[m] = w
    <3> USE DEF Basic, QueueType, Queue!Move
    <3>1. CASE UNCHANGED <<state, holder, pc, match, chans>>
      BY <1>3, <3>1
    <3>2. CASE Enqueue
      BY <1>3, <3>2 DEF Enqueue, Queue!Enqueue
    <3>3. ASSUME NEW w \in Workers, Claim(w) \/ Reap(w)
          PROVE  state[m] = "done"
      BY <1>3, <3>3 DEF Claim, Reap, Queue!Lease, Queue!Recover
    <3>4. ASSUME NEW w \in Workers,
                 \/ Lookup(w) \/ Insert(w)
                 \/ RouteEmail(w) \/ RouteWebsocket(w) \/ RouteSms(w) \/ Crash(w)
          PROVE  state[m] = "done"
      BY <1>3, <3>4 DEF Lookup, Insert, RouteEmail, RouteWebsocket, RouteSms, Routed,
                        Crash, Queue!Abandon, queueVars
    <3>5. ASSUME NEW w \in Workers, Raise(w)
          PROVE  state[m] = "done"
      BY <1>3, <3>5 DEF Raise, Finish, Queue!End
    <3>6. ASSUME NEW w \in Workers, Ack(w)
          PROVE  state[m] = "done" \/ holder[m] = w
      BY <1>3, <3>6 DEF Ack, Finish, Held, Queue!End
    <3> QED BY <3>1, <3>2, <3>3, <3>4, <3>5, <3>6, ConsumersApart DEF ConsumerStep
  <2> QED BY <2>2, <2>3, <2>4
<1> QED BY <1>1, <1>3 DEF AckedIsRecorded, Recorded

\* Once the message of a match is acked, every channel of an unchanged topic has
\* its row, whatever redelivery, races between consumers and crashes came before.
THEOREM AckedAfterRecording == Spec => []AckedIsRecorded
<1>1. Init => Basic /\ Recording
  BY BasicInit, DeliveryAssumption
  DEF Init, Queue!Init, Recording, OneInHand, Established, AckedIsRecorded
<1>2. Basic /\ Recording /\ [Next]_vars => (Basic /\ Recording)'
  BY BasicStep, OneInHandStep, EstablishedStep, AckedStep DEF Recording
<1>3. Recording => AckedIsRecorded
  BY DEF Recording, AckedIsRecorded
<1> QED BY <1>1, <1>2, <1>3, PTL DEF Spec
=============================================================================
