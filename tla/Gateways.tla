------------------------------- MODULE Gateways ------------------------------
(***************************************************************************)
(* The backplane (app/adapters/redis_pubsub.py) and the gateway replicas   *)
(* (app/alert/websocket.py), seen by one user: the sockets she opens one   *)
(* after another, each replica's registry of one socket per user, and the  *)
(* subscriber loop that writes a broadcast alert to the registered socket  *)
(* and then marks its row.                                                 *)
(***************************************************************************)
EXTENDS Integers, FiniteSets

CONSTANTS
    Alerts,         \* what is broadcast: one websocket row each
    Replicas,       \* gateway processes
    MaxSocket,      \* sockets the user ever opens
    NoSock,         \* no socket registered
    NoAlert,
    FaultKinds,     \* the faults that can happen, and how many in all
    MaxFaults

Sockets == 1..MaxSocket

ASSUME GatewaysAssumption ==
    /\ MaxSocket \in Nat /\ MaxFaults \in Nat
    /\ NoSock \notin Sockets
    /\ NoAlert \notin Alerts

VARIABLES
    sock,       \* a socket is "new", "open", "closed" (its handler has not
                \* noticed yet) or "gone" (its handler has returned)
    at,         \* the replica that accepted it
    reg,        \* each replica's entry for the user in _connections
    inbox,      \* broadcasts a replica's subscriber has still to read
    deaf,       \* replicas whose subscription is down
    hand,       \* the alert a replica is delivering
    via,        \* the socket it is writing to; NoSock once it only has to mark
    pushed,     \* alerts written to a socket of the user
    wsRow,      \* status of each websocket row, "none" before its INSERT
    faults

gwVars == <<sock, at, reg, inbox, deaf, hand, via, pushed, wsRow, faults>>

GatewaysTypeOK ==
    /\ sock \in [Sockets -> {"new", "open", "closed", "gone"}]
    /\ at \in [Sockets -> Replicas]
    /\ reg \in [Replicas -> Sockets \cup {NoSock}]
    /\ inbox \in [Replicas -> SUBSET Alerts]
    /\ deaf \in SUBSET Replicas
    /\ hand \in [Replicas -> Alerts \cup {NoAlert}]
    /\ via \in [Replicas -> Sockets \cup {NoSock}]
    /\ pushed \in SUBSET Alerts
    /\ wsRow \in [Alerts -> {"none", "pending", "sent"}]
    /\ faults \in 0..MaxFaults

GatewaysInit ==
    /\ sock = [s \in Sockets |-> "new"]
    /\ at \in [Sockets -> Replicas]
    /\ reg = [g \in Replicas |-> NoSock]
    /\ inbox = [g \in Replicas |-> {}]
    /\ deaf = {}
    /\ hand = [g \in Replicas |-> NoAlert]
    /\ via = [g \in Replicas |-> NoSock]
    /\ pushed = {}
    /\ wsRow = [a \in Alerts |-> "none"]
    /\ faults = 0

Fault(k) == k \in FaultKinds /\ faults < MaxFaults /\ faults' = faults + 1

-----------------------------------------------------------------------------
(* The sockets of the user *)

\* connect(): the new connection replaces the one registered.
Open(s) ==
    /\ sock[s] = "new" /\ \A r \in 1..(s - 1) : sock[r] # "new"
    /\ sock' = [sock EXCEPT ![s] = "open"]
    /\ reg' = [reg EXCEPT ![at[s]] = s]
    /\ UNCHANGED <<at, inbox, deaf, hand, via, pushed, wsRow, faults>>

\* The browser closes the page, or the network drops the connection.
Lose(s) ==
    /\ sock[s] = "open"
    /\ sock' = [sock EXCEPT ![s] = "closed"]
    /\ UNCHANGED <<at, reg, inbox, deaf, hand, via, pushed, wsRow, faults>>

\* Mutant of Unregister: the handler returns without its finally.
UnregisterNot(s) ==
    /\ sock[s] = "closed"
    /\ sock' = [sock EXCEPT ![s] = "gone"]
    /\ UNCHANGED <<at, reg, inbox, deaf, hand, via, pushed, wsRow, faults>>

\* The handler's finally: disconnect(user_id) pops the user's entry, whichever
\* socket it holds.
Unregister(s) ==
    /\ sock[s] = "closed"
    /\ sock' = [sock EXCEPT ![s] = "gone"]
    /\ reg' = [reg EXCEPT ![at[s]] = NoSock]
    /\ UNCHANGED <<at, inbox, deaf, hand, via, pushed, wsRow, faults>>

-----------------------------------------------------------------------------
(* The subscriber of replica g *)

\* publish_alert: whoever is subscribed receives it, or Redis is down.
Broadcast(a) ==
    \/ /\ inbox' = [g \in Replicas |-> IF g \in deaf THEN {} ELSE inbox[g] \cup {a}]
       /\ UNCHANGED faults
    \/ Fault("redis") /\ UNCHANGED inbox

Take(g, a) == a \in inbox[g] /\ inbox' = [inbox EXCEPT ![g] = @ \ {a}]

\* _deliver: not our user.
Ignore(g) ==
    /\ reg[g] = NoSock /\ hand[g] = NoAlert
    /\ \E a \in inbox[g] : Take(g, a)
    /\ UNCHANGED <<sock, at, reg, deaf, hand, via, pushed, wsRow, faults>>

\* Mutant of Push: the row is marked even if there is no socket to write to.
PushAny(g) ==
    /\ hand[g] = NoAlert
    /\ \E a \in inbox[g] : Take(g, a) /\ hand' = [hand EXCEPT ![g] = a]
    /\ via' = [via EXCEPT ![g] = reg[g]]
    /\ UNCHANGED <<sock, at, reg, deaf, pushed, wsRow, faults>>

\* _deliver finds a socket and push() starts to write to it.
Push(g) ==
    /\ reg[g] # NoSock /\ hand[g] = NoAlert
    /\ \E a \in inbox[g] : Take(g, a) /\ hand' = [hand EXCEPT ![g] = a]
    /\ via' = [via EXCEPT ![g] = reg[g]]
    /\ UNCHANGED <<sock, at, reg, deaf, pushed, wsRow, faults>>

\* The write returns, into the buffers of a socket that is lost too.
Written(g) ==
    /\ via[g] # NoSock
    /\ pushed' = pushed \cup {hand[g]}
    /\ via' = [via EXCEPT ![g] = NoSock]
    /\ UNCHANGED <<sock, at, reg, inbox, deaf, hand, wsRow, faults>>

\* The write raises WebSocketDisconnect: the user's entry is popped, and the
\* row is left as it is.
PushFails(g) ==
    /\ via[g] # NoSock /\ sock[via[g]] \in {"closed", "gone"}
    /\ reg' = [reg EXCEPT ![g] = NoSock]
    /\ via' = [via EXCEPT ![g] = NoSock]
    /\ hand' = [hand EXCEPT ![g] = NoAlert]
    /\ UNCHANGED <<sock, at, inbox, deaf, pushed, wsRow, faults>>

\* The write raises something else: it leaves the subscriber loop, which
\* subscribes anew after a pause.
PushBreaks(g) ==
    /\ via[g] # NoSock /\ sock[via[g]] \in {"closed", "gone"}
    /\ via' = [via EXCEPT ![g] = NoSock]
    /\ hand' = [hand EXCEPT ![g] = NoAlert]
    /\ inbox' = [inbox EXCEPT ![g] = {}]
    /\ deaf' = deaf \cup {g}
    /\ UNCHANGED <<sock, at, reg, pushed, wsRow, faults>>

\* mark_alert_sent; a failure is logged.
Mark(g) ==
    /\ hand[g] # NoAlert /\ via[g] = NoSock
    /\ hand' = [hand EXCEPT ![g] = NoAlert]
    /\ \/ wsRow' = [wsRow EXCEPT ![hand[g]] = "sent"] /\ UNCHANGED faults
       \/ Fault("db") /\ UNCHANGED wsRow
    /\ UNCHANGED <<sock, at, reg, inbox, deaf, via, pushed>>

\* The subscription drops: what was on its way to g is gone.
Deafen(g) ==
    /\ g \notin deaf
    /\ Fault("redis")
    /\ deaf' = deaf \cup {g}
    /\ inbox' = [inbox EXCEPT ![g] = {}]
    /\ UNCHANGED <<sock, at, reg, hand, via, pushed, wsRow>>

Resubscribe(g) ==
    /\ g \in deaf
    /\ deaf' = deaf \ {g}
    /\ UNCHANGED <<sock, at, reg, inbox, hand, via, pushed, wsRow, faults>>

\* The gateway process dies: its sockets, registry and subscription with it.
GatewayCrash(g) ==
    /\ Fault("gateway")
    /\ sock' = [s \in Sockets |-> IF at[s] = g /\ sock[s] # "new" THEN "gone" ELSE sock[s]]
    /\ reg' = [reg EXCEPT ![g] = NoSock]
    /\ inbox' = [inbox EXCEPT ![g] = {}]
    /\ deaf' = deaf \cup {g}
    /\ hand' = [hand EXCEPT ![g] = NoAlert]
    /\ via' = [via EXCEPT ![g] = NoSock]
    /\ UNCHANGED <<at, pushed, wsRow>>

GatewaysNext ==
    \/ \E s \in Sockets : Open(s) \/ Lose(s) \/ Unregister(s)
    \/ \E g \in Replicas :
        \/ Ignore(g) \/ Push(g) \/ Written(g)
        \/ PushFails(g) \/ PushBreaks(g) \/ Mark(g)
        \/ Deafen(g) \/ Resubscribe(g) \/ GatewayCrash(g)

-----------------------------------------------------------------------------
(* Properties *)

\* No registry entry outlives its socket's handler: whatever reconnects,
\* failed writes and crashes cross, a replica never goes on writing to a socket
\* nobody serves while it believes the user is connected.
NoStaleEntry ==
    \A g \in Replicas : reg[g] # NoSock =>
        sock[reg[g]] \in {"open", "closed"} /\ at[reg[g]] = g
=============================================================================
