----------------------------- MODULE LeaseQueue ------------------------------
(***************************************************************************)
(* What queue_messages promises its consumers, as section 2 of             *)
(* docs/low-level-design/queue-lld.md draws it: a message is leased to one *)
(* worker at a time; only the worker that holds the lease finishes, parks  *)
(* or returns the message; a lease whose holder is gone, and no other, is  *)
(* taken back; failed is final, done ends in retention.  A message whose   *)
(* holder lost the answer of what it asked for is in doubt: for it the     *)
(* promise ends.                                                           *)
(***************************************************************************)
CONSTANTS Messages, Workers, Nobody

VARIABLES
    state,      \* the state of each message
    holder      \* the worker holding its lease, or Nobody

Init ==
    /\ state = [m \in Messages |-> "absent"]
    /\ holder = [m \in Messages |-> Nobody]

Move(S, from, to) ==
    /\ S # {}
    /\ \A m \in S : state[m] = from
    /\ state' = [m \in Messages |-> IF m \in S THEN to ELSE state[m]]

Enqueue(S) == Move(S, "absent", "pending") /\ UNCHANGED holder

\* h takes the lease of every message in S, at once.
Lease(S, h) ==
    /\ Move(S, "pending", "processing")
    /\ holder' = [m \in Messages |-> IF m \in S THEN h ELSE holder[m]]

\* The holder of m ends its lease.
End(m, to) ==
    /\ holder[m] # Nobody
    /\ Move({m}, "processing", to)
    /\ holder' = [holder EXCEPT ![m] = Nobody]

\* Worker w is gone, and so is every lease it held.
Abandon(w) ==
    /\ holder' = [m \in Messages |-> IF holder[m] = w THEN Nobody ELSE holder[m]]
    /\ UNCHANGED state

\* The holder of m asked to end its lease and does not know what became of it.
Doubt(m) ==
    /\ holder[m] # Nobody
    /\ Move({m}, "processing", "doubtful")
    /\ holder' = [holder EXCEPT ![m] = Nobody]

\* Leases nobody holds are taken back.
Recover(S) ==
    /\ \A m \in S : holder[m] = Nobody
    /\ Move(S, "processing", "pending")
    /\ UNCHANGED holder

Delete(S) == Move(S, "done", "deleted") /\ UNCHANGED holder

Next ==
    \/ \E S \in SUBSET Messages :
        \/ Enqueue(S)
        \/ \E h \in Workers \cup {Nobody} : Lease(S, h)
        \/ Recover(S)
        \/ Delete(S)
    \/ \E m \in Messages, to \in {"done", "failed", "pending"} : End(m, to)
    \/ \E m \in Messages : Doubt(m)
    \/ \E w \in Workers : Abandon(w)

Spec == Init /\ [][Next]_<<state, holder>>
=============================================================================
