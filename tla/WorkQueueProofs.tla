--------------------------- MODULE WorkQueueProofs ---------------------------
(***************************************************************************)
(* Theorems about WorkQueue, for every number of rows, replicas, attempts, *)
(* faults and every timing.  The type invariant and at-least-once hold     *)
(* whatever the timing; exclusive claims, the leases and the refinement of *)
(* LeaseQueue need BatchFitsTimeout and nothing else, and say of a message *)
(* an answer was lost about what can still be said: nothing.               *)
(***************************************************************************)
EXTENDS WorkQueue, FiniteSetTheorems, TLAPS

-----------------------------------------------------------------------------
(* Type correctness *)

LEMMA BumpType ==
    \A n \in 0..AttemptCap : Bump(n) \in 0..AttemptCap
BY SizesAssumption DEF Bump

\* A transaction that leases the rows in S keeps the columns well-typed.
LEMMA LeaseRowsType ==
    ASSUME TypeOK, NEW S, LeaseRows(S)
    PROVE  /\ status' \in [Ids -> Statuses]
           /\ attempts' \in [Ids -> 0..AttemptCap]
           /\ age' \in [Ids -> 0..AgeCap]
<1>1. status' \in [Ids -> Statuses]
  BY DEF LeaseRows, TypeOK, Statuses
<1>2. attempts' \in [Ids -> 0..AttemptCap]
  BY BumpType DEF LeaseRows, TypeOK
<1>3. age' \in [Ids -> 0..AgeCap]
  BY TimesAssumption DEF LeaseRows, TypeOK, AgeCap
<1> QED BY <1>1, <1>2, <1>3

LEMMA SetRowType ==
    ASSUME TypeOK, NEW m \in Ids, NEW s \in Statuses, SetRow(m, s)
    PROVE  /\ status' \in [Ids -> Statuses]
           /\ attempts' \in [Ids -> 0..AttemptCap]
           /\ age' \in [Ids -> 0..AgeCap]
BY TimesAssumption DEF SetRow, TypeOK, AgeCap

LEMMA ForgetType ==
    ASSUME TypeOK, NEW w \in Workers, Forget(w)
    PROVE  /\ pc' \in [Workers -> PCs]
           /\ hand' \in [Workers -> SUBSET Ids]
           /\ cur' \in [Workers -> Ids \cup {NoMsg}]
           /\ busy' \in [Workers -> 0..MaxJob]
BY TimesAssumption DEF Forget, TypeOK, PCs

LEMMA NextMessageType ==
    ASSUME TypeOK, NEW w \in Workers, NextMessage(w)
    PROVE  /\ pc' \in [Workers -> PCs]
           /\ hand' \in [Workers -> SUBSET Ids]
           /\ cur' \in [Workers -> Ids \cup {NoMsg}]
           /\ busy' \in [Workers -> 0..MaxJob]
<1>1. hand[w] \ {cur[w]} \in SUBSET Ids
  BY DEF TypeOK
<1>2. pc' \in [Workers -> PCs]
  BY DEF NextMessage, TypeOK, PCs
<1>3. hand' \in [Workers -> SUBSET Ids]
  BY <1>1 DEF NextMessage, TypeOK
<1>4. cur' \in [Workers -> Ids \cup {NoMsg}]
  BY DEF NextMessage, TypeOK
<1>5. busy' \in [Workers -> 0..MaxJob]
  BY TimesAssumption DEF NextMessage, TypeOK
<1> QED BY <1>2, <1>3, <1>4, <1>5

\* A worker that is handling a message has one.
WorkerShape ==
    \A w \in Workers :
        /\ pc[w] \in {"idle", "claiming", "batch"} => cur[w] = NoMsg
        /\ pc[w] \in Handling => cur[w] \in hand[w]
        /\ pc[w] = "idle" => hand[w] = {}
        /\ pc[w] \notin Handling => busy[w] = 0
        /\ pc[w] \in {"finished", "acking"} => cur[w] \in handled

Basic == TypeOK /\ WorkerShape

\* What the three statements about a message have in common.
Statement(w) ==
    /\ pc[w] \in Handling
    /\ \E s \in {"done", "failed", "pending"} : SetRow(cur[w], s)

Answered(w) ==
    /\ Statement(w)
    /\ NextMessage(w)
    /\ UNCHANGED <<handled, doubted, faults>>

Unanswered(w) ==
    /\ Statement(w)
    /\ \E p \in Handling : AnswerLost(w, p)

LEMMA StatementForms ==
    ASSUME NEW w \in Workers
    PROVE  /\ Ack(w) \/ Retry(w) \/ Fail(w) => Answered(w)
           /\ AckLost(w) \/ RetryLost(w) \/ FailLost(w) => Unanswered(w)
BY DEF Ack, Retry, Fail, AckLost, RetryLost, FailLost, Returned, Answered,
       Unanswered, Statement, Handling

LEMMA BasicInit == Init => Basic
<1> SUFFICES ASSUME Init PROVE Basic
  OBVIOUS
<1>1. TypeOK
  BY SizesAssumption, TimesAssumption DEF Init, TypeOK, Statuses, PCs, Handling, AgeCap
<1>2. WorkerShape
  BY DEF Init, WorkerShape, Handling
<1> QED BY <1>1, <1>2 DEF Basic

\* Every step keeps the types and the shape of the workers' memory.
LEMMA BasicStep == Basic /\ [Next]_vars => Basic'
<1> SUFFICES ASSUME Basic, [Next]_vars PROVE Basic'
  OBVIOUS
<1> USE DEF Basic
<1>1. CASE Publish
  <2>1. TypeOK'
    BY <1>1 DEF Publish, TypeOK, Statuses
  <2>2. WorkerShape'
    BY <1>1 DEF Publish, WorkerShape, Handling
  <2> QED BY <2>1, <2>2
<1>2. ASSUME NEW w \in Workers, ClaimSelect(w) PROVE Basic'
  <2>1. TypeOK'
    BY <1>2 DEF ClaimSelect, rowVars, TypeOK, PCs, Handling, Lowest
  <2>2. WorkerShape'
    BY <1>2 DEF ClaimSelect, rowVars, WorkerShape, Handling, TypeOK
  <2> QED BY <2>1, <2>2
<1>3. ASSUME NEW w \in Workers, ClaimCommit(w) PROVE Basic'
  <2>1. TypeOK'
    BY <1>3, LeaseRowsType DEF ClaimCommit, TypeOK, PCs, Handling
  <2>2. WorkerShape'
    BY <1>3 DEF ClaimCommit, WorkerShape, Handling, TypeOK
  <2> QED BY <2>1, <2>2
<1>4. ASSUME NEW w \in Workers, ClaimLost(w) PROVE Basic'
  <2>1. TypeOK'
    BY <1>4, LeaseRowsType, ForgetType, SizesAssumption DEF ClaimLost, Fault, TypeOK
  <2>2. WorkerShape'
    BY <1>4 DEF ClaimLost, Forget, WorkerShape, Handling, TypeOK
  <2> QED BY <2>1, <2>2
<1>5. ASSUME NEW w \in Workers, Begin(w) PROVE Basic'
  <2>1. TypeOK'
    BY <1>5 DEF Begin, rowVars, TypeOK, PCs, Handling
  <2>2. WorkerShape'
    BY <1>5 DEF Begin, rowVars, WorkerShape, Handling, TypeOK
  <2> QED BY <2>1, <2>2
<1>6. ASSUME NEW w \in Workers, Handle(w) PROVE Basic'
  <2>0. cur[w] \in Ids
    BY <1>6 DEF Handle, WorkerShape, Handling, TypeOK
  <2>1. TypeOK'
    BY <1>6, <2>0 DEF Handle, rowVars, TypeOK, PCs, Handling
  <2>2. WorkerShape'
    BY <1>6 DEF Handle, rowVars, WorkerShape, Handling, TypeOK
  <2> QED BY <2>1, <2>2
<1>7. ASSUME NEW w \in Workers, Answered(w) PROVE Basic'
  <2>0. cur[w] \in Ids /\ NextMessage(w) /\ UNCHANGED <<handled, doubted, faults>>
    BY <1>7 DEF Answered, Statement, WorkerShape, TypeOK
  <2>1. \E s \in Statuses : SetRow(cur[w], s)
    BY <1>7 DEF Answered, Statement, Statuses
  <2>2. TypeOK'
    BY <2>0, <2>1, SetRowType, NextMessageType DEF TypeOK
  <2>3. WorkerShape'
    BY <2>0 DEF NextMessage, WorkerShape, Handling, TypeOK
  <2> QED BY <2>2, <2>3
<1>13. ASSUME NEW w \in Workers, AckLost(w) \/ RetryLost(w) \/ FailLost(w) PROVE Basic'
  <2>0. Unanswered(w)
    BY <1>13, StatementForms
  <2>1. PICK p \in Handling : AnswerLost(w, p)
    BY <2>0 DEF Unanswered
  <2>2. cur[w] \in Ids
    BY <2>0 DEF Unanswered, Statement, WorkerShape, TypeOK
  <2>3. \E s \in Statuses : SetRow(cur[w], s)
    BY <2>0 DEF Unanswered, Statement, Statuses
  <2>4. TypeOK'
    BY <2>1, <2>2, <2>3, SetRowType, SizesAssumption DEF AnswerLost, Fault, TypeOK, PCs
  <2>5. ASSUME pc'[w] = "acking" PROVE cur[w] \in handled
    BY <1>13, <2>5 DEF AckLost, RetryLost, FailLost, AnswerLost, WorkerShape, TypeOK
  <2>6. pc[w] \in Handling /\ pc'[w] \in Handling /\ pc'[w] # "finished"
    BY <1>13, <2>0, <2>1
       DEF Unanswered, Statement, AckLost, RetryLost, FailLost, AnswerLost, TypeOK, Handling
  <2>7. ASSUME NEW v \in Workers, v # w PROVE pc'[v] = pc[v]
    BY <2>1, <2>7 DEF AnswerLost, TypeOK
  <2>8. WorkerShape'
    BY <2>1, <2>5, <2>6, <2>7 DEF AnswerLost, WorkerShape, Handling
  <2> QED BY <2>4, <2>8
<1>8. ASSUME NEW w \in Workers, Crash(w) PROVE Basic'
  <2>1. TypeOK'
    BY <1>8, ForgetType, SizesAssumption DEF Crash, Fault, rowVars, TypeOK
  <2>2. WorkerShape'
    BY <1>8 DEF Crash, Forget, WorkerShape, Handling, TypeOK
  <2> QED BY <2>1, <2>2
<1>9. ASSUME NEW w \in Workers, Reap(w) PROVE Basic'
  <2>1. TypeOK'
    BY <1>9, TimesAssumption DEF Reap, TypeOK, Statuses, AgeCap
  <2>2. WorkerShape'
    BY <1>9 DEF Reap, WorkerShape, Handling
  <2> QED BY <2>1, <2>2
<1>10. CASE Purge
  <2>1. TypeOK'
    BY <1>10, TimesAssumption DEF Purge, TypeOK, Statuses, AgeCap
  <2>2. WorkerShape'
    BY <1>10 DEF Purge, WorkerShape, Handling
  <2> QED BY <2>1, <2>2
<1>11. CASE Tick
  <2>1. age' \in [Ids -> 0..AgeCap]
    BY <1>11, TimesAssumption DEF Tick, TypeOK, AgeCap
  <2>2. busy' \in [Workers -> 0..MaxJob]
    BY <1>11, TimesAssumption DEF Tick, TypeOK
  <2>3. TypeOK'
    BY <1>11, <2>1, <2>2 DEF Tick, TypeOK
  <2>4. WorkerShape'
    BY <1>11 DEF Tick, WorkerShape, Handling, TypeOK, PCs, Handling
  <2> QED BY <2>3, <2>4
<1>12. CASE UNCHANGED vars
  BY <1>12 DEF vars, TypeOK, WorkerShape
<1> QED
  BY <1>1, <1>2, <1>3, <1>4, <1>5, <1>6, <1>7, <1>8, <1>9, <1>10, <1>11, <1>12, <1>13,
     StatementForms DEF Next

\* The rows and the workers' memory are always of the declared types, whatever
\* the timing of workers, crashes and the reaper.
THEOREM TypeCorrect == Spec => []TypeOK
<1>1. Basic => TypeOK
  BY DEF Basic
<1> QED BY <1>1, BasicInit, BasicStep, PTL DEF Spec
-----------------------------------------------------------------------------
(* At-least-once *)

LEMMA AtLeastOnceStep == Basic /\ AtLeastOnce /\ [Next]_vars => AtLeastOnce'
<1> SUFFICES ASSUME Basic, AtLeastOnce, [Next]_vars,
                    NEW m \in Ids, status'[m] \in {"done", "deleted"}
             PROVE  m \in handled'
  BY DEF AtLeastOnce
<1> USE DEF Basic
<1>1. handled \subseteq handled'
  BY DEF Next, Publish, ClaimSelect, ClaimCommit, ClaimLost, Begin, Handle, Ack,
         Retry, Fail, AckLost, RetryLost, FailLost, AnswerLost, Crash, Reap, Purge,
         Tick, vars
<1>2. CASE status[m] \in {"done", "deleted"}
  BY <1>1, <1>2 DEF AtLeastOnce
<1>3. CASE status[m] \notin {"done", "deleted"}
  <2>1. \E w \in Workers : (Ack(w) \/ AckLost(w)) /\ m = cur[w]
    <3>1. CASE Publish
      BY <1>3, <3>1 DEF Publish, TypeOK
    <3>2. ASSUME NEW w \in Workers, LeaseRows(hand[w]) PROVE FALSE
      BY <1>3, <3>2 DEF LeaseRows, TypeOK
    <3>3. ASSUME NEW w \in Workers,
                 Retry(w) \/ Fail(w) \/ RetryLost(w) \/ FailLost(w)
          PROVE  FALSE
      BY <1>3, <3>3 DEF Retry, Fail, RetryLost, FailLost, Returned, SetRow, TypeOK
    <3>4. ASSUME NEW w \in Workers, Ack(w) \/ AckLost(w) PROVE m = cur[w]
      BY <1>3, <3>4 DEF Ack, AckLost, SetRow, TypeOK
    <3>5. ASSUME NEW w \in Workers, Reap(w) PROVE FALSE
      BY <1>3, <3>5 DEF Reap, TypeOK
    <3>6. CASE Purge
      BY <1>3, <3>6 DEF Purge, TypeOK
    <3>7. ASSUME UNCHANGED status PROVE FALSE
      BY <1>3, <3>7
    <3> QED
      BY <3>1, <3>2, <3>3, <3>4, <3>5, <3>6, <3>7
         DEF Next, ClaimSelect, ClaimCommit, ClaimLost, Begin, Handle, Crash, Tick,
             vars, rowVars
  <2>2. m \in handled
    BY <2>1 DEF Ack, AckLost, WorkerShape
  <2> QED BY <1>1, <2>2
<1> QED BY <1>2, <1>3

\* A message that is done, or purged as done, was handled to completion:
\* crashes, lost claims and late reaps only ever repeat work.
THEOREM AtLeastOnceHolds == Spec => []AtLeastOnce
<1>1. Init => AtLeastOnce
  BY DEF Init, AtLeastOnce
<1> QED BY <1>1, BasicInit, BasicStep, AtLeastOnceStep, PTL DEF Spec

-----------------------------------------------------------------------------
(* The claim takes at most BatchSize rows *)

LEMMA IdsFinite ==
    ASSUME NEW S \in SUBSET Ids
    PROVE  IsFiniteSet(S) /\ Cardinality(S) \in Nat
<1>1. IsFiniteSet(Ids)
  BY FS_Interval, SizesAssumption DEF Ids
<1> QED BY <1>1, FS_Subset, FS_CardinalityType

\* Ranking the rows by the number of older rows is an injection of the claimed
\* rows into 0..BatchSize-1.
LEMMA LowestIsSmall ==
    ASSUME NEW S \in SUBSET Ids
    PROVE  /\ Lowest(S) \in SUBSET Ids
           /\ Cardinality(Lowest(S)) <= BatchSize
<1> DEFINE older(m) == {k \in S : k < m}
           rank == [m \in Lowest(S) |-> Cardinality(older(m))]
<1>1. Lowest(S) \in SUBSET S
  BY DEF Lowest
<1>2. \A m \in S : /\ IsFiniteSet(older(m))
                   /\ Cardinality(older(m)) \in Nat
  <2> TAKE m \in S
  <2>1. older(m) \in SUBSET Ids
    OBVIOUS
  <2> QED BY <2>1, IdsFinite
<1>3. rank \in [Lowest(S) -> 0..(BatchSize - 1)]
  <2> SUFFICES ASSUME NEW m \in Lowest(S)
               PROVE  Cardinality(older(m)) \in 0..(BatchSize - 1)
    OBVIOUS
  <2>1. Cardinality(older(m)) < BatchSize
    BY DEF Lowest
  <2>2. Cardinality(older(m)) \in Nat
    BY <1>1, <1>2
  <2> QED BY <2>1, <2>2, SizesAssumption
<1>4. ASSUME NEW m \in Lowest(S), NEW n \in Lowest(S), m < n
      PROVE  Cardinality(older(m)) < Cardinality(older(n))
  <2>1. m \in Ids /\ n \in Ids /\ m \in S
    BY <1>1
  <2>2. m \notin older(m) /\ m \in older(n)
    BY <1>4, <2>1 DEF Ids
  <2>3. older(m) \cup {m} \in SUBSET older(n)
    <3>1. \A k \in S : k \in Int
      BY SizesAssumption DEF Ids
    <3> QED BY <1>1, <1>4, <2>1, <2>2, <3>1
  <2>4. /\ IsFiniteSet(older(m)) /\ Cardinality(older(m)) \in Nat
        /\ IsFiniteSet(older(n)) /\ Cardinality(older(n)) \in Nat
    BY <1>1, <1>2
  <2>5. Cardinality(older(m) \cup {m}) = Cardinality(older(m)) + 1
    <3> HIDE DEF older
    <3> QED BY <2>2, <2>4, FS_AddElement
  <2>6. Cardinality(older(m) \cup {m}) <= Cardinality(older(n))
    <3> HIDE DEF older
    <3> QED BY <2>3, <2>4, FS_Subset
  <2> HIDE DEF older
  <2> QED BY <2>4, <2>5, <2>6
<1>5. rank \in Injection(Lowest(S), 0..(BatchSize - 1))
  <2> SUFFICES ASSUME NEW m \in Lowest(S), NEW n \in Lowest(S), m # n
               PROVE  rank[m] # rank[n]
    BY <1>3 DEF Injection, IsInjective
  <2>1. m \in Int /\ n \in Int
    <3>1. m \in Ids /\ n \in Ids
      BY <1>1
    <3> HIDE DEF rank
    <3> QED BY <3>1, SizesAssumption DEF Ids
  <2>2. Cardinality(older(m)) \in Nat /\ Cardinality(older(n)) \in Nat
    BY <1>1, <1>2
  <2>3. m < n \/ n < m
    BY <2>1
  <2>4. Cardinality(older(m)) # Cardinality(older(n))
    <3>1. CASE m < n
      <4>1. Cardinality(older(m)) < Cardinality(older(n))
        BY <3>1, <1>4
      <4> HIDE DEF older
      <4> QED BY <4>1, <2>2
    <3>2. CASE n < m
      <4>1. Cardinality(older(n)) < Cardinality(older(m))
        BY <3>2, <1>4
      <4> HIDE DEF older
      <4> QED BY <4>1, <2>2
    <3> QED BY <2>3, <3>1, <3>2
  <2> QED BY <2>4
<1>6. /\ IsFiniteSet(0..(BatchSize - 1))
      /\ Cardinality(0..(BatchSize - 1)) = BatchSize
  BY FS_Interval, SizesAssumption
<1>7. Cardinality(Lowest(S)) <= BatchSize
  <2> HIDE DEF rank
  <2> QED BY <1>5, <1>6, FS_Injection
<1> QED BY <1>1, <1>7
-----------------------------------------------------------------------------
(* The leases *)

\* Rows selected by an uncommitted claim are pending still.
SelectedPending ==
    \A w \in Workers : pc[w] = "claiming" =>
        \A m \in hand[w] \ doubted : status[m] = "pending"

SmallHands == \A w \in Workers : Cardinality(hand[w]) <= BatchSize

\* The time a batch can have taken when n of its messages are left.
Spent(n) == (BatchSize - n) * MaxJob

\* A lease is no older than the jobs finished since the claim, and the current one.
InTime ==
    \A w \in Workers : Holding(w) =>
        \A m \in hand[w] \ doubted : age[m] <= Spent(Cardinality(hand[w])) + busy[w]

LeaseInv == ExclusiveClaims /\ SelectedPending /\ LeaseKept /\ SmallHands /\ InTime

LEMMA SpentFacts ==
    ASSUME NEW n \in Nat, n <= BatchSize
    PROVE  /\ Spent(n) \in Nat
           /\ n > 0 => /\ Spent(n - 1) = Spent(n) + MaxJob
                       /\ Spent(n) + MaxJob <= BatchSize * MaxJob
<1> DEFINE d == BatchSize - n
<1>1. d \in Nat /\ n = BatchSize - d
  BY SizesAssumption
<1>2. d * MaxJob \in Nat
  BY <1>1, TimesAssumption, SMT
<1>3. Spent(n) = d * MaxJob
  BY DEF Spent
<1>4. ASSUME n > 0
      PROVE  /\ Spent(n - 1) = Spent(n) + MaxJob
             /\ Spent(n) + MaxJob <= BatchSize * MaxJob
  <2>1. BatchSize - (n - 1) = d + 1
    BY <1>1, SizesAssumption
  <2>2. (d + 1) * MaxJob = d * MaxJob + MaxJob
    BY <1>1, TimesAssumption
  <2>3. Spent(n - 1) = Spent(n) + MaxJob
    BY <1>3, <2>1, <2>2 DEF Spent
  <2>4. BatchSize = (d + 1) + (n - 1) /\ n - 1 \in Nat
    BY <1>1, <1>4, SizesAssumption
  <2>5. (n - 1) * MaxJob \in Nat
    BY <2>4, TimesAssumption
  <2>6. BatchSize * MaxJob = (d + 1) * MaxJob + (n - 1) * MaxJob
    BY <1>1, <2>4, TimesAssumption
  <2>7. Spent(n) + MaxJob <= BatchSize * MaxJob
    <3> HIDE DEF d
    <3> QED BY <1>1, <1>2, <1>3, <2>2, <2>5, <2>6, TimesAssumption
  <2> QED BY <2>3, <2>7
<1> QED BY <1>2, <1>3, <1>4

\* While a batch is being worked on none of its leases expires.
LEMMA NoLeaseExpires ==
    ASSUME Basic, LeaseInv, BatchFitsTimeout,
           NEW w \in Workers, Holding(w), NEW m \in hand[w] \ doubted
    PROVE  ~ (age[m] > VisibilityTimeout)
<1> DEFINE n == Cardinality(hand[w])
<1>1. hand[w] \in SUBSET Ids /\ m \in Ids /\ age[m] \in Nat /\ busy[w] \in 0..MaxJob
  BY DEF Basic, TypeOK
<1>2. n \in Nat /\ n <= BatchSize /\ n > 0
  BY <1>1, IdsFinite, FS_EmptySet DEF LeaseInv, SmallHands
<1>3. age[m] <= Spent(n) + busy[w]
  BY DEF LeaseInv, InTime
<1>4. Spent(n) \in Nat /\ Spent(n) + MaxJob <= BatchSize * MaxJob
  BY <1>2, SpentFacts
<1> HIDE DEF n
<1> QED BY <1>1, <1>3, <1>4, TimesAssumption, SizesAssumption DEF BatchFitsTimeout
LEMMA LeaseInit == Init => LeaseInv
<1> SUFFICES ASSUME Init PROVE LeaseInv
  OBVIOUS
<1>1. \A w \in Workers : hand[w] = {} /\ pc[w] = "idle"
  BY DEF Init
<1>2. SmallHands
  BY <1>1, FS_EmptySet, SizesAssumption DEF SmallHands
<1> QED
  BY <1>1, <1>2 DEF LeaseInv, ExclusiveClaims, SelectedPending, LeaseKept, InTime

\* A step that leaves the workers alone and keeps the status of every row in a
\* worker's hands keeps the leases, if it lets no row in hand grow older.
LEMMA LeaseFrame ==
    ASSUME Basic, LeaseInv, UNCHANGED <<pc, hand, busy, doubted>>,
           \A w \in Workers : \A m \in hand[w] \ doubted :
               status'[m] = status[m] /\ age'[m] = age[m]
    PROVE  LeaseInv'
<1>1. ExclusiveClaims'
  BY DEF LeaseInv, ExclusiveClaims
<1>2. SelectedPending'
  BY DEF LeaseInv, SelectedPending
<1>3. LeaseKept'
  BY DEF LeaseInv, LeaseKept, Holding
<1>4. SmallHands'
  BY DEF LeaseInv, SmallHands
<1>5. InTime'
  BY DEF LeaseInv, InTime, Holding, Spent
<1> QED BY <1>1, <1>2, <1>3, <1>4, <1>5 DEF LeaseInv

\* A claim selects pending rows that no other worker has in its hands.
LEMMA LeaseSelect ==
    ASSUME Basic, LeaseInv, NEW w \in Workers, ClaimSelect(w)
    PROVE  LeaseInv'
<1> DEFINE free == {m \in Ids : status[m] = "pending"} \ Locked
<1>0. /\ hand' = [hand EXCEPT ![w] = Lowest(free)]
      /\ pc' = [pc EXCEPT ![w] = "claiming"]
      /\ UNCHANGED <<status, age, busy, doubted>>
      /\ pc[w] = "idle"
  BY DEF ClaimSelect, rowVars
<1>1. Lowest(free) \subseteq free /\ Cardinality(Lowest(free)) <= BatchSize
  BY LowestIsSmall DEF Lowest
<1>2. \A v \in Workers : v # w => hand[v] \cap free \subseteq doubted
  BY DEF LeaseInv, LeaseKept, Holding, Locked, Basic, WorkerShape, TypeOK, PCs
<1>3. \A v \in Workers : v # w => hand'[v] = hand[v] /\ pc'[v] = pc[v]
  BY <1>0 DEF Basic, TypeOK
<1>4. hand'[w] = Lowest(free) /\ pc'[w] = "claiming"
  BY <1>0 DEF Basic, TypeOK
<1> HIDE DEF free
<1>5. ExclusiveClaims'
  BY <1>0, <1>1, <1>2, <1>3, <1>4 DEF LeaseInv, ExclusiveClaims
<1>6. SelectedPending'
  BY <1>0, <1>1, <1>3, <1>4 DEF LeaseInv, SelectedPending, free
<1>7. LeaseKept'
  BY <1>0, <1>3, <1>4 DEF LeaseInv, LeaseKept, Holding, Handling
<1>8. SmallHands'
  BY <1>1, <1>3, <1>4 DEF LeaseInv, SmallHands
<1>9. InTime'
  BY <1>0, <1>3, <1>4 DEF LeaseInv, InTime, Holding, Handling, Spent
<1> QED BY <1>5, <1>6, <1>7, <1>8, <1>9 DEF LeaseInv

\* The commit of a claim touches the claimer's rows only, and starts their leases.
LEMMA LeaseCommit ==
    ASSUME Basic, LeaseInv, NEW w \in Workers, ClaimCommit(w)
    PROVE  LeaseInv'
<1>0. /\ LeaseRows(hand[w])
      /\ pc' = [pc EXCEPT ![w] = "batch"]
      /\ UNCHANGED <<hand, busy, doubted>>
  BY DEF ClaimCommit
<1>1. \A v \in Workers : v # w => pc'[v] = pc[v]
  BY <1>0 DEF Basic, TypeOK
<1>2. pc'[w] = "batch"
  BY <1>0 DEF Basic, TypeOK
<1>3. \A v \in Workers : \A m \in hand[v] \ doubted :
         v # w => status'[m] = status[m] /\ age'[m] = age[m]
  BY <1>0 DEF LeaseRows, LeaseInv, ExclusiveClaims, Basic, TypeOK
<1>4. \A m \in hand[w] : status'[m] = "processing" /\ age'[m] = 0
  BY <1>0 DEF LeaseRows, Basic, TypeOK
<1>5. ExclusiveClaims'
  BY <1>0 DEF LeaseInv, ExclusiveClaims
<1>6. SelectedPending'
  BY <1>0, <1>1, <1>2, <1>3 DEF LeaseInv, SelectedPending
<1>7. LeaseKept'
  BY <1>0, <1>1, <1>2, <1>3, <1>4 DEF LeaseInv, LeaseKept, Holding
<1>8. SmallHands'
  BY <1>0 DEF LeaseInv, SmallHands
<1>9. InTime'
  <2> SUFFICES ASSUME NEW v \in Workers, Holding(v)', NEW m \in hand[v] \ doubted
               PROVE  age'[m] <= Spent(Cardinality(hand[v])) + busy[v]
    BY <1>0 DEF InTime, Spent
  <2>1. CASE v = w
    <3>1. Cardinality(hand[v]) \in Nat /\ Cardinality(hand[v]) <= BatchSize
      BY IdsFinite DEF Basic, TypeOK, LeaseInv, SmallHands
    <3>2. Spent(Cardinality(hand[v])) \in Nat
      BY <3>1, SpentFacts
    <3>3. busy[v] \in Nat
      BY DEF Basic, TypeOK
    <3> QED BY <1>4, <2>1, <3>2, <3>3
  <2>2. CASE v # w
    BY <1>1, <1>3, <2>2 DEF LeaseInv, InTime, Holding
  <2> QED BY <2>1, <2>2
<1> QED BY <1>5, <1>6, <1>7, <1>8, <1>9 DEF LeaseInv

\* A worker that forgets everything breaks no lease of another, whether it
\* leases its selected rows to nobody first or leaves the rows as they are.
LEMMA LeaseForget ==
    ASSUME Basic, LeaseInv, NEW w \in Workers, Forget(w), UNCHANGED doubted,
           \A v \in Workers : \A m \in hand[v] \ doubted :
               v # w => status'[m] = status[m] /\ age'[m] = age[m]
    PROVE  LeaseInv'
<1>1. \A v \in Workers : v # w => /\ pc'[v] = pc[v] /\ hand'[v] = hand[v]
                                  /\ busy'[v] = busy[v]
  BY DEF Forget, Basic, TypeOK
<1>2. pc'[w] = "idle" /\ hand'[w] = {}
  BY DEF Forget, Basic, TypeOK
<1>3. ExclusiveClaims'
  BY <1>1, <1>2 DEF LeaseInv, ExclusiveClaims
<1>4. SelectedPending'
  BY <1>1, <1>2 DEF LeaseInv, SelectedPending
<1>5. LeaseKept'
  BY <1>1, <1>2 DEF LeaseInv, LeaseKept, Holding
<1>6. SmallHands'
  <2>1. Cardinality({}) <= BatchSize
    BY FS_EmptySet, SizesAssumption
  <2> SUFFICES ASSUME NEW v \in Workers PROVE Cardinality(hand'[v]) <= BatchSize
    BY DEF SmallHands
  <2> QED BY <1>1, <1>2, <2>1 DEF LeaseInv, SmallHands
<1>7. InTime'
  BY <1>1, <1>2 DEF LeaseInv, InTime, Holding, Spent
<1> QED BY <1>3, <1>4, <1>5, <1>6, <1>7 DEF LeaseInv

\* Finishing one message of the batch frees the time the next jobs may take.
LEMMA LeaseFinish ==
    ASSUME Basic, LeaseInv, NEW w \in Workers, pc[w] \in Handling,
           UNCHANGED doubted, NEW s, SetRow(cur[w], s), NextMessage(w)
    PROVE  LeaseInv'
<1> DEFINE left == hand[w] \ {cur[w]}
           n == Cardinality(hand[w])
<1>1. /\ cur[w] \in hand[w] /\ hand[w] \in SUBSET Ids
      /\ Holding(w)
  BY DEF Basic, WorkerShape, TypeOK, Holding
<1>2. \A v \in Workers : v # w => /\ pc'[v] = pc[v] /\ hand'[v] = hand[v]
                                  /\ busy'[v] = busy[v]
  BY DEF NextMessage, Basic, TypeOK
<1>3. /\ pc'[w] \in {"idle", "batch"}
      /\ hand'[w] = left /\ busy'[w] = 0
  BY DEF NextMessage, Basic, TypeOK
<1>4. \A v \in Workers : \A m \in hand'[v] : m \in hand[v]
  BY <1>1, <1>2, <1>3
<1>11. \A v \in Workers : \A m \in hand'[v] \ doubted :
         m \in hand[v] /\ status'[m] = status[m] /\ age'[m] = age[m]
  BY <1>1, <1>2, <1>3 DEF SetRow, LeaseInv, ExclusiveClaims, Basic, TypeOK
<1>5. n \in Nat /\ n <= BatchSize /\ n > 0 /\ Cardinality(left) = n - 1
  BY <1>1, IdsFinite, FS_EmptySet, FS_RemoveElement DEF LeaseInv, SmallHands
<1>6. ExclusiveClaims'
  BY <1>4 DEF LeaseInv, ExclusiveClaims
<1>7. SelectedPending'
  BY <1>2, <1>3, <1>11 DEF LeaseInv, SelectedPending
<1>8. LeaseKept'
  BY <1>1, <1>2, <1>3, <1>11 DEF LeaseInv, LeaseKept, Holding
<1>9. SmallHands'
  <2> SUFFICES ASSUME NEW v \in Workers PROVE Cardinality(hand'[v]) <= BatchSize
    BY DEF SmallHands
  <2>1. n - 1 <= BatchSize
    <3> HIDE DEF n
    <3> QED BY <1>5, SizesAssumption
  <2> HIDE DEF n, left
  <2> QED BY <1>2, <1>3, <1>5, <2>1 DEF LeaseInv, SmallHands
<1>10. InTime'
  <2> SUFFICES ASSUME NEW v \in Workers, Holding(v)', NEW m \in hand'[v] \ doubted
               PROVE  age'[m] <= Spent(Cardinality(hand'[v])) + busy'[v]
    BY DEF InTime, Spent
  <2>1. CASE v = w
    <3>1. age[m] <= Spent(n) + busy[w]
      BY <1>1, <1>11, <2>1 DEF LeaseInv, InTime
    <3>2. age[m] \in Nat /\ busy[w] \in 0..MaxJob
      BY <1>1, <1>11, <2>1 DEF Basic, TypeOK
    <3>3. Spent(n) \in Nat /\ Spent(n - 1) = Spent(n) + MaxJob
      BY <1>5, SpentFacts
    <3>4. age[m] <= Spent(n - 1)
      <4> HIDE DEF n
      <4> QED BY <3>1, <3>2, <3>3, TimesAssumption
    <3>5. Cardinality(hand'[v]) = n - 1 /\ busy'[v] = 0 /\ age'[m] = age[m]
      BY <1>3, <1>11, <1>5, <2>1
    <3>6. Spent(n - 1) \in Nat
      <4> HIDE DEF n
      <4> QED BY <3>3, TimesAssumption
    <3> HIDE DEF n
    <3> QED BY <3>2, <3>4, <3>5, <3>6
  <2>2. CASE v # w
    BY <1>2, <1>11, <2>2 DEF LeaseInv, InTime, Holding
  <2> QED BY <2>1, <2>2
<1> QED BY <1>6, <1>7, <1>8, <1>9, <1>10 DEF LeaseInv

\* A message whose answer is lost is in doubt, and no other row changes.
LEMMA LeaseDoubt ==
    ASSUME Basic, LeaseInv, NEW w \in Workers, Unanswered(w)
    PROVE  LeaseInv'
<1>1. /\ pc[w] \in Handling
      /\ UNCHANGED <<hand, busy>>
      /\ doubted' = doubted \cup {cur[w]}
  BY DEF Unanswered, Statement, AnswerLost
<1>2. \A v \in Workers : /\ Holding(v)' <=> Holding(v)
                         /\ pc'[v] = "claiming" <=> pc[v] = "claiming"
  BY <1>1 DEF Unanswered, AnswerLost, Holding, Handling, Basic, TypeOK
<1>3. \A m \in Ids \ doubted' : status'[m] = status[m] /\ age'[m] = age[m]
  BY <1>1 DEF Unanswered, Statement, SetRow, Basic, TypeOK
<1>4. \A v \in Workers : hand[v] \in SUBSET Ids
  BY DEF Basic, TypeOK
<1>5. ExclusiveClaims'
  BY <1>1 DEF LeaseInv, ExclusiveClaims
<1>6. SelectedPending'
  BY <1>1, <1>2, <1>3, <1>4 DEF LeaseInv, SelectedPending
<1>7. LeaseKept'
  BY <1>1, <1>2, <1>3, <1>4 DEF LeaseInv, LeaseKept
<1>8. SmallHands'
  BY <1>1 DEF LeaseInv, SmallHands
<1>9. InTime'
  BY <1>1, <1>2, <1>3, <1>4 DEF LeaseInv, InTime, Spent
<1> QED BY <1>5, <1>6, <1>7, <1>8, <1>9 DEF LeaseInv

LEMMA LeaseStep ==
    BatchFitsTimeout /\ Basic /\ LeaseInv /\ [Next]_vars => LeaseInv'
<1> SUFFICES ASSUME BatchFitsTimeout, Basic, LeaseInv, [Next]_vars
             PROVE  LeaseInv'
  OBVIOUS
<1>0. \A w \in Workers : \A m \in hand[w] \ doubted :
         m \in Ids /\ status[m] \in {"pending", "processing"}
  BY DEF LeaseInv, LeaseKept, SelectedPending, Holding, Basic, WorkerShape, TypeOK, PCs
<1>1. CASE Publish
  BY <1>0, <1>1, LeaseFrame DEF Publish
<1>2. ASSUME NEW w \in Workers, ClaimSelect(w) PROVE LeaseInv'
  BY <1>2, LeaseSelect
<1>3. ASSUME NEW w \in Workers, ClaimCommit(w) PROVE LeaseInv'
  BY <1>3, LeaseCommit
<1>4. ASSUME NEW w \in Workers, ClaimLost(w) PROVE LeaseInv'
  <2>1. \A v \in Workers : \A m \in hand[v] \ doubted :
           v # w => status'[m] = status[m] /\ age'[m] = age[m]
    BY <1>0, <1>4 DEF ClaimLost, LeaseRows, LeaseInv, ExclusiveClaims
  <2> QED BY <1>4, <2>1, LeaseForget DEF ClaimLost
<1>5. ASSUME NEW w \in Workers, Begin(w) \/ Handle(w) PROVE LeaseInv'
  <2>0. /\ UNCHANGED <<status, age, hand, busy, doubted>>
        /\ pc[w] \in {"batch", "working"}
        /\ \E p \in {"working", "finished"} : pc' = [pc EXCEPT ![w] = p]
    BY <1>5 DEF Begin, Handle, rowVars
  <2>1. \A v \in Workers : /\ Holding(v)' <=> Holding(v)
                           /\ pc'[v] = "claiming" <=> pc[v] = "claiming"
    BY <2>0 DEF Holding, Handling, Basic, TypeOK
  <2> QED
    BY <2>0, <2>1 DEF LeaseInv, ExclusiveClaims, SelectedPending, LeaseKept,
                      SmallHands, InTime, Spent
<1>6. ASSUME NEW w \in Workers, Answered(w) PROVE LeaseInv'
  BY <1>6, LeaseFinish DEF Answered, Statement
<1>12. ASSUME NEW w \in Workers, Unanswered(w) PROVE LeaseInv'
  BY <1>12, LeaseDoubt
<1>7. ASSUME NEW w \in Workers, Crash(w) PROVE LeaseInv'
  BY <1>7, LeaseForget DEF Crash, rowVars
<1>8. ASSUME NEW w \in Workers, Reap(w) PROVE LeaseInv'
  <2>1. \A v \in Workers : \A m \in hand[v] \ doubted :
           ~ (status[m] = "processing" /\ age[m] > VisibilityTimeout)
    BY NoLeaseExpires DEF LeaseInv, SelectedPending, Holding, Basic, WorkerShape,
                          TypeOK, PCs
  <2> QED BY <1>0, <1>8, <2>1, LeaseFrame DEF Reap
<1>9. CASE Purge
  BY <1>0, <1>9, LeaseFrame DEF Purge
<1>10. CASE Tick
  <2>0. UNCHANGED <<status, pc, hand, doubted>>
    BY <1>10 DEF Tick
  <2>1. ExclusiveClaims' /\ SelectedPending' /\ LeaseKept' /\ SmallHands'
    BY <2>0 DEF LeaseInv, ExclusiveClaims, SelectedPending, LeaseKept, SmallHands,
                Holding
  <2>2. ASSUME NEW w \in Workers, Holding(w), NEW m \in hand[w] \ doubted
        PROVE  age'[m] <= Spent(Cardinality(hand[w])) + busy'[w]
    <3>1. age[m] <= Spent(Cardinality(hand[w])) + busy[w]
      BY <2>2 DEF LeaseInv, InTime
    <3>2. busy'[w] = busy[w] + 1
      BY <1>10, <2>2 DEF Tick, Holding, Handling
    <3>3. m \in Ids /\ age[m] \in Nat /\ busy[w] \in Nat
      BY DEF Basic, TypeOK
    <3>4. age'[m] = age[m] \/ age'[m] = age[m] + 1
      BY <1>10, <3>3 DEF Tick
    <3>5. Spent(Cardinality(hand[w])) \in Nat
      BY IdsFinite, SpentFacts DEF Basic, TypeOK, LeaseInv, SmallHands
    <3> QED BY <3>1, <3>2, <3>3, <3>4, <3>5
  <2>3. InTime'
    BY <2>0, <2>2 DEF InTime, Holding, Spent
  <2> QED BY <2>1, <2>3 DEF LeaseInv
<1>11. CASE UNCHANGED vars
  BY <1>11, LeaseFrame DEF vars
<1> QED
  BY <1>1, <1>2, <1>3, <1>4, <1>5, <1>6, <1>7, <1>8, <1>9, <1>10, <1>11, <1>12,
     StatementForms DEF Next

LEMMA LeasesHold == ASSUME BatchFitsTimeout PROVE Spec => [](Basic /\ LeaseInv)
<1>1. Init => Basic /\ LeaseInv
  BY BasicInit, LeaseInit
<1>2. Basic /\ LeaseInv /\ [Next]_vars => (Basic /\ LeaseInv)'
  BY BasicStep, LeaseStep
<1> QED BY <1>1, <1>2, PTL DEF Spec

\* If a whole batch is handled within the visibility timeout, no message is
\* ever in the hands of two workers, unless the answer of an ack, retry or fail
\* of that very message was lost.
THEOREM ClaimsAreExclusive ==
    ASSUME BatchFitsTimeout PROVE Spec => []ExclusiveClaims
<1>1. Basic /\ LeaseInv => ExclusiveClaims
  BY DEF LeaseInv
<1> QED BY <1>1, LeasesHold, PTL

\* Under the same timing what a worker acks, retries or parks is always a row
\* it still leases, with the same exception.
THEOREM LeasesAreKept ==
    ASSUME BatchFitsTimeout PROVE Spec => []LeaseKept
<1>1. Basic /\ LeaseInv => LeaseKept
  BY DEF LeaseInv
<1> QED BY <1>1, LeasesHold, PTL
LEMMA DoneStep ==
    Basic /\ LeaseInv /\ [Next]_vars =>
        [\A m \in Ids \ doubted : status[m] = "done" => status'[m] \in {"done", "deleted"}]_vars
<1> SUFFICES ASSUME Basic, LeaseInv, [Next]_vars,
                    NEW m \in Ids \ doubted, status[m] = "done"
             PROVE  status'[m] \in {"done", "deleted"}
  OBVIOUS
<1>1. \A w \in Workers : m \notin hand[w]
  BY DEF LeaseInv, LeaseKept, SelectedPending, Holding, Basic, WorkerShape, TypeOK, PCs
<1>2. CASE Publish
  BY <1>2 DEF Publish, Basic, TypeOK
<1>3. ASSUME NEW w \in Workers, LeaseRows(hand[w]) PROVE status'[m] = "done"
  BY <1>1, <1>3 DEF LeaseRows
<1>4. ASSUME NEW w \in Workers, Answered(w) \/ Unanswered(w) PROVE status'[m] = "done"
  <2>1. Statement(w)
    BY <1>4 DEF Answered, Unanswered
  <2>2. cur[w] # m
    BY <1>1, <2>1 DEF Statement, Basic, WorkerShape
  <2> QED BY <2>1, <2>2 DEF Statement, SetRow, Basic, TypeOK
<1>5. ASSUME NEW w \in Workers, Reap(w) PROVE status'[m] = "done"
  BY <1>5 DEF Reap
<1>6. CASE Purge
  BY <1>6 DEF Purge
<1>7. CASE UNCHANGED status
  BY <1>7
<1> QED
  BY <1>2, <1>3, <1>4, <1>5, <1>6, <1>7, StatementForms
     DEF Next, ClaimSelect, ClaimCommit, ClaimLost, Begin, Handle, Crash, Tick, vars,
         rowVars

\* Under the same timing a finished message stays finished until it is purged,
\* with the same exception.
THEOREM DoneStaysDone == ASSUME BatchFitsTimeout PROVE Spec => DoneIsFinal
BY LeasesHold, DoneStep, PTL DEF Spec, DoneIsFinal

-----------------------------------------------------------------------------
(* WorkQueue implements LeaseQueue *)

Holds(w, m) == Holding(w) /\ m \in hand[w] \ doubted

\* The holder of a message is the worker that holds it, if any does.
HolderChar ==
    /\ LeaseHolder = [m \in Ids |-> LeaseHolder[m]]
    /\ \A m \in Ids :
        /\ \A w \in Workers : Holds(w, m) => LeaseHolder[m] = w
        /\ (\A w \in Workers : ~ Holds(w, m)) => LeaseHolder[m] = Nobody

LEMMA HolderFacts == LeaseInv => HolderChar
<1> SUFFICES ASSUME LeaseInv PROVE HolderChar
  OBVIOUS
<1>1. LeaseHolder = [m \in Ids |-> LeaseHolder[m]]
  BY DEF LeaseHolder
<1>2. ASSUME NEW m \in Ids, NEW w \in Workers, Holds(w, m)
      PROVE  LeaseHolder[m] = w
  <2> DEFINE h == CHOOSE v \in Workers : Holding(v) /\ m \in hand[v] \ doubted
  <2>1. h \in Workers /\ Holding(h) /\ m \in hand[h] \ doubted
    BY <1>2 DEF Holds
  <2>2. LeaseHolder[m] = h
    BY <1>2 DEF LeaseHolder, Holds
  <2>3. h = w
    <3> HIDE DEF h
    <3> QED BY <1>2, <2>1 DEF LeaseInv, ExclusiveClaims, Holds
  <2> QED BY <2>2, <2>3
<1>3. ASSUME NEW m \in Ids, \A w \in Workers : ~ Holds(w, m)
      PROVE  LeaseHolder[m] = Nobody
  BY <1>3 DEF LeaseHolder, Holds
<1> QED BY <1>1, <1>2, <1>3 DEF HolderChar

\* If nobody gains or loses a message, no holder changes.
LEMMA SameHolders ==
    ASSUME HolderChar, HolderChar',
           \A w \in Workers, m \in Ids : Holds(w, m)' <=> Holds(w, m)
    PROVE  LeaseHolder' = LeaseHolder
<1>1. ASSUME NEW m \in Ids PROVE LeaseHolder'[m] = LeaseHolder[m]
  <2>1. CASE \E w \in Workers : Holds(w, m)
    BY <2>1 DEF HolderChar
  <2>2. CASE \A w \in Workers : ~ Holds(w, m)
    BY <2>2 DEF HolderChar
  <2> QED BY <2>1, <2>2
<1> QED BY <1>1 DEF HolderChar
\* Everything a step of the refinement proof may use of its two states.
Context ==
    /\ Basic /\ LeaseInv /\ HolderChar
    /\ LeaseInv' /\ HolderChar'

LEMMA ContextFacts ==
    ASSUME Context
    PROVE  /\ LeaseHolder = [m \in Ids |-> LeaseHolder[m]]
           /\ LeaseHolder' = [m \in Ids |-> LeaseHolder'[m]]
           /\ status \in [Ids -> Statuses]
           /\ LeaseState = [m \in Ids |-> LeaseState[m]]
           /\ LeaseState' = [m \in Ids |-> LeaseState'[m]]
           /\ \A m \in Ids : LeaseState[m] = IF m \in doubted THEN "doubtful" ELSE status[m]
           /\ \A m \in Ids :
                LeaseState'[m] = IF m \in doubted' THEN "doubtful" ELSE status'[m]
           /\ Nobody \notin Workers
           /\ \A w \in Workers : \A m \in hand[w] \ doubted :
                m \in Ids /\ status[m] \in {"pending", "processing"}
           /\ \A v, w \in Workers, m \in Ids : Holds(v, m) /\ Holds(w, m) => v = w
BY SizesAssumption
   DEF Context, HolderChar, Basic, TypeOK, WorkerShape, LeaseInv, LeaseKept,
       SelectedPending, ExclusiveClaims, Holding, Holds, PCs, LeaseState

\* A statement that moves rows from one status to another moves those of them
\* that are not in doubt.
LEMMA LeaseMove ==
    ASSUME Context, NEW S \in SUBSET Ids, NEW from \in Statuses, NEW to,
           \A m \in S \ doubted : status[m] = from,
           status' = [m \in Ids |-> IF m \in S THEN to ELSE status[m]],
           UNCHANGED doubted
    PROVE  IF S \ doubted = {} THEN LeaseState' = LeaseState
           ELSE Leases!Move(S \ doubted, from, to)
<1>1. \A m \in Ids : LeaseState'[m] = IF m \in S \ doubted THEN to ELSE LeaseState[m]
  BY ContextFacts
<1>2. CASE S \ doubted = {}
  BY <1>1, <1>2, ContextFacts
<1>3. CASE S \ doubted # {}
  <2>1. \A m \in S \ doubted : LeaseState[m] = from
    BY ContextFacts
  <2>2. LeaseState' = [m \in Ids |-> IF m \in S \ doubted THEN to ELSE LeaseState[m]]
    BY <1>1, ContextFacts
  <2>3. Leases!Move(S \ doubted, from, to)
    BY <1>3, <2>1, <2>2 DEF Leases!Move
  <2> QED BY <1>3, <2>3
<1> QED BY <1>2, <1>3

LEMMA RefinePublish ==
    ASSUME Context, Publish PROVE Leases!Next \/ UNCHANGED <<LeaseState, LeaseHolder>>
<1>1. PICK S \in SUBSET {m \in Ids : status[m] = "absent"} :
         /\ S # {}
         /\ status' = [m \in Ids |-> IF m \in S THEN "pending" ELSE status[m]]
  BY DEF Publish
<1>2. LeaseHolder' = LeaseHolder
  BY SameHolders DEF Publish, Context, Holds, Holding
<1>3. /\ S \in SUBSET Ids /\ \A m \in S : status[m] = "absent"
      /\ UNCHANGED doubted /\ "absent" \in Statuses
  BY DEF Publish, Statuses
<1>4. IF S \ doubted = {} THEN LeaseState' = LeaseState
      ELSE Leases!Move(S \ doubted, "absent", "pending")
  BY <1>1, <1>3, LeaseMove
<1>5. CASE S \ doubted = {}
  BY <1>2, <1>4, <1>5
<1>6. CASE S \ doubted # {}
  <2>1. Leases!Enqueue(S \ doubted)
    BY <1>2, <1>4, <1>6 DEF Leases!Enqueue
  <2> QED BY <1>3, <2>1 DEF Leases!Next
<1> QED BY <1>5, <1>6

LEMMA RefineClaimCommit ==
    ASSUME Context, NEW w \in Workers, ClaimCommit(w)
    PROVE  Leases!Next \/ UNCHANGED <<LeaseState, LeaseHolder>>
<1>1. /\ pc[w] = "claiming" /\ LeaseRows(hand[w])
      /\ pc' = [pc EXCEPT ![w] = "batch"] /\ hand' = hand /\ doubted' = doubted
  BY DEF ClaimCommit
<1>2. /\ hand[w] \in SUBSET Ids
      /\ \A m \in hand[w] \ doubted : status[m] = "pending"
      /\ \A v \in Workers : v # w => pc'[v] = pc[v]
      /\ pc'[w] = "batch"
  BY <1>1 DEF Context, Basic, TypeOK, LeaseInv, SelectedPending
<1>3. \A v \in Workers, m \in Ids :
         Holds(v, m)' <=> Holds(v, m) \/ (v = w /\ m \in hand[w] \ doubted)
  BY <1>1, <1>2 DEF Holds, Holding
<1> DEFINE S == hand[w] \ doubted
<1>4. \A m \in Ids : LeaseHolder'[m] = IF m \in S THEN w ELSE LeaseHolder[m]
  <2> SUFFICES ASSUME NEW m \in Ids
               PROVE  LeaseHolder'[m] = IF m \in S THEN w ELSE LeaseHolder[m]
    OBVIOUS
  <2>1. CASE m \in S
    BY <1>3, <2>1 DEF Context, HolderChar
  <2>2. CASE m \notin S /\ \E v \in Workers : Holds(v, m)
    BY <1>3, <2>2 DEF Context, HolderChar
  <2>3. CASE m \notin S /\ \A v \in Workers : ~ Holds(v, m)
    BY <1>3, <2>3 DEF Context, HolderChar
  <2> QED BY <2>1, <2>2, <2>3
<1>5. LeaseHolder' = [m \in Ids |-> IF m \in S THEN w ELSE LeaseHolder[m]]
  BY <1>4, ContextFacts
<1>6. IF S = {} THEN LeaseState' = LeaseState ELSE Leases!Move(S, "pending", "processing")
  BY <1>1, <1>2, LeaseMove DEF LeaseRows, Statuses
<1>7. CASE S = {}
  BY <1>4, <1>6, <1>7, ContextFacts
<1>8. CASE S # {}
  <2>1. Leases!Lease(S, w)
    BY <1>5, <1>6, <1>8 DEF Leases!Lease
  <2>2. S \in SUBSET Ids
    BY <1>2
  <2> QED BY <2>1, <2>2 DEF Leases!Next
<1> QED BY <1>7, <1>8

LEMMA RefineClaimLost ==
    ASSUME Context, NEW w \in Workers, ClaimLost(w)
    PROVE  Leases!Next \/ UNCHANGED <<LeaseState, LeaseHolder>>
<1> DEFINE S == hand[w] \ doubted
<1>1. /\ pc[w] = "claiming" /\ LeaseRows(hand[w]) /\ doubted' = doubted
      /\ pc' = [pc EXCEPT ![w] = "idle"] /\ hand' = [hand EXCEPT ![w] = {}]
  BY DEF ClaimLost, Forget
<1>2. /\ hand[w] \in SUBSET Ids
      /\ \A m \in S : status[m] = "pending"
      /\ \A v \in Workers : v # w => pc'[v] = pc[v] /\ hand'[v] = hand[v]
      /\ pc'[w] = "idle"
  BY <1>1 DEF Context, Basic, TypeOK, LeaseInv, SelectedPending
<1>3. \A v \in Workers, m \in Ids : Holds(v, m)' <=> Holds(v, m)
  BY <1>1, <1>2 DEF Holds, Holding, Handling
<1>4. LeaseHolder' = LeaseHolder
  BY <1>3, SameHolders DEF Context
<1>5. \A m \in S : LeaseHolder[m] = Nobody
  BY <1>2 DEF Context, LeaseInv, LeaseKept, HolderChar, Holds
<1>6. IF S = {} THEN LeaseState' = LeaseState ELSE Leases!Move(S, "pending", "processing")
  BY <1>1, <1>2, LeaseMove DEF LeaseRows, Statuses
<1>7. CASE S = {}
  BY <1>4, <1>6, <1>7
<1>8. CASE S # {}
  <2>1. LeaseHolder' = [m \in Ids |-> IF m \in S THEN Nobody ELSE LeaseHolder[m]]
    BY <1>4, <1>5, ContextFacts
  <2>2. Leases!Lease(S, Nobody)
    BY <1>6, <1>8, <2>1 DEF Leases!Lease
  <2>3. S \in SUBSET Ids
    BY <1>2
  <2> QED BY <2>2, <2>3 DEF Leases!Next
<1> QED BY <1>7, <1>8

\* No holder but that of m changes when w ends what it had to do with m, or
\* no longer knows what became of it.
LEMMA HolderGone ==
    ASSUME Context, NEW w \in Workers, NEW m \in Ids,
           \A v \in Workers, k \in Ids :
               Holds(v, k)' <=> Holds(v, k) /\ ~ (v = w /\ k = m),
           Holds(w, m) \/ \A v \in Workers : ~ Holds(v, m)
    PROVE  LeaseHolder' = [LeaseHolder EXCEPT ![m] = Nobody]
<1>1. ASSUME NEW k \in Ids
      PROVE  LeaseHolder'[k] = IF k = m THEN Nobody ELSE LeaseHolder[k]
  <2>1. CASE k = m
    <3>1. \A v \in Workers : ~ Holds(v, m)'
      BY ContextFacts
    <3> QED BY <2>1, <3>1 DEF Context, HolderChar
  <2>2. CASE k # m /\ \E v \in Workers : Holds(v, k)
    BY <2>2 DEF Context, HolderChar
  <2>3. CASE k # m /\ \A v \in Workers : ~ Holds(v, k)
    BY <2>3 DEF Context, HolderChar
  <2> QED BY <2>1, <2>2, <2>3
<1> QED BY <1>1, ContextFacts

\* The statements of w are about a message it holds, or one in doubt.
LEMMA StatementContext ==
    ASSUME Context, NEW w \in Workers, Statement(w)
    PROVE  /\ cur[w] \in Ids /\ cur[w] \in hand[w]
           /\ cur[w] \notin doubted => /\ Holds(w, cur[w])
                                      /\ LeaseHolder[cur[w]] = w
                                      /\ status[cur[w]] = "processing"
<1>1. cur[w] \in hand[w] /\ cur[w] \in Ids /\ Holding(w)
  BY DEF Context, Basic, WorkerShape, TypeOK, Statement, Holding
<1>2. ASSUME cur[w] \notin doubted PROVE Holds(w, cur[w])
  BY <1>1, <1>2 DEF Holds
<1>3. ASSUME cur[w] \notin doubted PROVE status[cur[w]] = "processing"
  BY <1>2, <1>3 DEF Context, LeaseInv, LeaseKept, Holds
<1>4. ASSUME cur[w] \notin doubted PROVE LeaseHolder[cur[w]] = w
  BY <1>1, <1>2, <1>4 DEF Context, HolderChar
<1> QED BY <1>1, <1>2, <1>3, <1>4

LEMMA RefineFinish ==
    ASSUME Context, NEW w \in Workers, Answered(w)
    PROVE  Leases!Next \/ UNCHANGED <<LeaseState, LeaseHolder>>
<1> DEFINE m == cur[w]
<1>1. /\ Statement(w) /\ NextMessage(w) /\ doubted' = doubted
      /\ \E s \in {"done", "failed", "pending"} : SetRow(m, s)
  BY DEF Answered, Statement
<1>2. /\ m \in hand[w] /\ m \in Ids /\ pc[w] \in Handling
      /\ m \notin doubted => /\ Holds(w, m) /\ LeaseHolder[m] = w
                            /\ status[m] = "processing"
  BY <1>1, StatementContext DEF Statement
<1>3. \A v \in Workers, k \in Ids : Holds(v, k)' <=> Holds(v, k) /\ ~ (v = w /\ k = m)
  <2>1. /\ hand' = [hand EXCEPT ![w] = hand[w] \ {m}]
        /\ pc' = [pc EXCEPT ![w] = IF hand[w] \ {m} = {} THEN "idle" ELSE "batch"]
    BY <1>1 DEF NextMessage
  <2> SUFFICES ASSUME NEW v \in Workers, NEW k \in Ids
               PROVE  Holds(v, k)' <=> Holds(v, k) /\ ~ (v = w /\ k = m)
    OBVIOUS
  <2>2. CASE v = w
    BY <1>1, <1>2, <2>1, <2>2 DEF Holds, Holding, Handling, Context, Basic, TypeOK
  <2>3. CASE v # w
    BY <1>1, <2>1, <2>3 DEF Holds, Holding, Handling, Context, Basic, TypeOK
  <2> QED BY <2>2, <2>3
<1>4. CASE m \in doubted
  <2>1. \A k \in Ids : k \notin doubted => status'[k] = status[k]
    BY <1>1, <1>4 DEF SetRow, Context, Basic, TypeOK
  <2>2. LeaseState' = LeaseState
    BY <1>1, <2>1, ContextFacts
  <2>3. \A v \in Workers, k \in Ids : Holds(v, k)' <=> Holds(v, k)
    BY <1>3, <1>4 DEF Holds
  <2> QED BY <2>2, <2>3, SameHolders DEF Context
<1>5. CASE m \notin doubted
  <2>1. PICK s \in {"done", "failed", "pending"} : status' = [status EXCEPT ![m] = s]
    BY <1>1, <1>2, <1>5 DEF SetRow
  <2>2. LeaseHolder' = [LeaseHolder EXCEPT ![m] = Nobody]
    <3> HIDE DEF m
    <3> QED BY <1>2, <1>3, <1>5, HolderGone
  <2> HIDE DEF m
  <2>3. status' = [k \in Ids |-> IF k \in {m} THEN s ELSE status[k]]
    BY <1>2, <2>1, ContextFacts
  <2>4. {m} \ doubted = {m}
    BY <1>5
  <2>5. Leases!Move({m}, "processing", s)
    <3>1. \A k \in {m} \ doubted : status[k] = "processing"
      BY <1>2, <1>5
    <3>2. {m} \in SUBSET Ids /\ "processing" \in Statuses
      BY <1>2 DEF Statuses
    <3>3. IF {m} \ doubted = {} THEN LeaseState' = LeaseState
          ELSE Leases!Move({m} \ doubted, "processing", s)
      BY <1>1, <2>3, <3>1, <3>2, LeaseMove
    <3> QED BY <2>4, <3>3
  <2>6. Leases!End(m, s)
    BY <1>2, <1>5, <2>2, <2>5, ContextFacts DEF Leases!End
  <2> QED BY <1>2, <2>1, <2>6 DEF Leases!Next
<1> QED BY <1>4, <1>5

LEMMA RefineDoubt ==
    ASSUME Context, NEW w \in Workers, Unanswered(w)
    PROVE  Leases!Next \/ UNCHANGED <<LeaseState, LeaseHolder>>
<1> DEFINE m == cur[w]
<1>1. /\ Statement(w) /\ doubted' = doubted \cup {m} /\ hand' = hand
      /\ \E s \in {"done", "failed", "pending"} : SetRow(m, s)
  BY DEF Unanswered, Statement, AnswerLost
<1>2. /\ m \in hand[w] /\ m \in Ids /\ pc[w] \in Handling
      /\ m \notin doubted => /\ Holds(w, m) /\ LeaseHolder[m] = w
                            /\ status[m] = "processing"
  BY <1>1, StatementContext DEF Statement
<1>3. \A v \in Workers : Holding(v)' <=> Holding(v)
  BY <1>2 DEF Unanswered, AnswerLost, Holding, Handling, Context, Basic, TypeOK
<1>4. \A v \in Workers, k \in Ids : Holds(v, k)' <=> Holds(v, k) /\ k # m
  BY <1>1, <1>3 DEF Holds
<1>5. \A k \in Ids : k # m => status'[k] = status[k]
  BY <1>1 DEF SetRow, Context, Basic, TypeOK
<1>6. CASE m \in doubted
  <2>1. LeaseState' = LeaseState
    BY <1>1, <1>5, <1>6, ContextFacts
  <2>2. \A v \in Workers, k \in Ids : Holds(v, k)' <=> Holds(v, k)
    BY <1>4, <1>6 DEF Holds
  <2> QED BY <2>1, <2>2, SameHolders DEF Context
<1>7. CASE m \notin doubted
  <2> HIDE DEF m
  <2>1. \A v \in Workers, k \in Ids :
           Holds(v, k)' <=> Holds(v, k) /\ ~ (v = w /\ k = m)
    BY <1>2, <1>4, <1>7, ContextFacts
  <2>2. LeaseHolder' = [LeaseHolder EXCEPT ![m] = Nobody]
    BY <1>2, <1>7, <2>1, HolderGone
  <2>3. \A k \in Ids : LeaseState'[k] = IF k \in {m} THEN "doubtful" ELSE LeaseState[k]
    BY <1>1, <1>5, ContextFacts
  <2>4. LeaseState' = [k \in Ids |-> IF k \in {m} THEN "doubtful" ELSE LeaseState[k]]
    BY <2>3, ContextFacts
  <2>5. LeaseState[m] = "processing"
    BY <1>2, <1>7, ContextFacts
  <2>6. Leases!Doubt(m)
    BY <1>2, <1>7, <2>2, <2>4, <2>5, ContextFacts DEF Leases!Doubt, Leases!Move
  <2> QED BY <1>2, <2>6 DEF Leases!Next
<1> QED BY <1>6, <1>7

LEMMA RefineCrash ==
    ASSUME Context, NEW w \in Workers, Crash(w) PROVE Leases!Next
<1>1. /\ UNCHANGED <<status, doubted>>
      /\ pc' = [pc EXCEPT ![w] = "idle"] /\ hand' = [hand EXCEPT ![w] = {}]
  BY DEF Crash, Forget, rowVars
<1>2. \A v \in Workers, m \in Ids : Holds(v, m)' <=> Holds(v, m) /\ v # w
  BY <1>1 DEF Holds, Holding, Handling, Context, Basic, TypeOK
<1>3. \A m \in Ids :
         LeaseHolder'[m] = IF LeaseHolder[m] = w THEN Nobody ELSE LeaseHolder[m]
  <2> SUFFICES ASSUME NEW m \in Ids
               PROVE  LeaseHolder'[m] =
                        IF LeaseHolder[m] = w THEN Nobody ELSE LeaseHolder[m]
    OBVIOUS
  <2>1. CASE Holds(w, m)
    <3>1. \A v \in Workers : ~ Holds(v, m)'
      BY <1>2, <2>1, ContextFacts
    <3> QED BY <2>1, <3>1 DEF Context, HolderChar
  <2>2. CASE \E v \in Workers : v # w /\ Holds(v, m)
    BY <1>2, <2>2 DEF Context, HolderChar
  <2>3. CASE \A v \in Workers : ~ Holds(v, m)
    BY <1>2, <2>3, ContextFacts DEF Context, HolderChar
  <2> QED BY <2>1, <2>2, <2>3
<1>4. LeaseState' = LeaseState
  BY <1>1 DEF LeaseState
<1>5. Leases!Abandon(w)
  BY <1>3, <1>4, ContextFacts DEF Leases!Abandon
<1> QED BY <1>5 DEF Leases!Next

LEMMA RefineReap ==
    ASSUME BatchFitsTimeout, Context, NEW w \in Workers, Reap(w)
    PROVE  Leases!Next \/ UNCHANGED <<LeaseState, LeaseHolder>>
<1> DEFINE stalled == {m \in Ids : status[m] = "processing" /\ age[m] > VisibilityTimeout}
           S == stalled \ doubted
<1>1. /\ UNCHANGED <<pc, hand, doubted>>
      /\ status' = [m \in Ids |-> IF m \in stalled THEN "pending" ELSE status[m]]
  BY DEF Reap
<1>2. LeaseHolder' = LeaseHolder
  BY <1>1, SameHolders DEF Context, Holds, Holding
<1>3. \A m \in S : LeaseHolder[m] = Nobody
  <2> SUFFICES ASSUME NEW m \in S, NEW v \in Workers PROVE ~ Holds(v, m)
    BY DEF Context, HolderChar
  <2> QED BY NoLeaseExpires DEF Holds, Context
<1>4. IF S = {} THEN LeaseState' = LeaseState ELSE Leases!Move(S, "processing", "pending")
  <2>1. \A m \in S : status[m] = "processing"
    OBVIOUS
  <2>2. stalled \in SUBSET Ids /\ "processing" \in Statuses
    BY DEF Statuses
  <2> HIDE DEF stalled
  <2> QED BY <1>1, <2>1, <2>2, LeaseMove
<1>5. CASE S = {}
  BY <1>2, <1>4, <1>5
<1>6. CASE S # {}
  <2>1. Leases!Recover(S)
    BY <1>2, <1>3, <1>4, <1>6 DEF Leases!Recover
  <2> QED BY <2>1 DEF Leases!Next
<1> QED BY <1>5, <1>6

LEMMA RefinePurge ==
    ASSUME Context, Purge PROVE Leases!Next \/ UNCHANGED <<LeaseState, LeaseHolder>>
<1> DEFINE old == {m \in Ids : status[m] = "done" /\ age[m] > Retention}
           S == old \ doubted
<1>1. /\ UNCHANGED <<pc, hand, doubted>>
      /\ status' = [m \in Ids |-> IF m \in old THEN "deleted" ELSE status[m]]
  BY DEF Purge
<1>2. LeaseHolder' = LeaseHolder
  BY <1>1, SameHolders DEF Context, Holds, Holding
<1>3. IF S = {} THEN LeaseState' = LeaseState ELSE Leases!Move(S, "done", "deleted")
  <2>1. \A m \in S : status[m] = "done"
    OBVIOUS
  <2>2. old \in SUBSET Ids /\ "done" \in Statuses
    BY DEF Statuses
  <2> HIDE DEF old
  <2> QED BY <1>1, <2>1, <2>2, LeaseMove
<1>4. CASE S = {}
  BY <1>2, <1>3, <1>4
<1>5. CASE S # {}
  <2>1. Leases!Delete(S)
    BY <1>2, <1>3, <1>5 DEF Leases!Delete
  <2> QED BY <2>1 DEF Leases!Next
<1> QED BY <1>4, <1>5

LEMMA RefineStep ==
    BatchFitsTimeout /\ Context /\ [Next]_vars => [Leases!Next]_<<LeaseState, LeaseHolder>>
<1> SUFFICES ASSUME BatchFitsTimeout, Context, [Next]_vars
             PROVE  Leases!Next \/ UNCHANGED <<LeaseState, LeaseHolder>>
  OBVIOUS
<1>1. ASSUME UNCHANGED <<status, pc, hand, doubted>>
      PROVE  UNCHANGED <<LeaseState, LeaseHolder>>
  BY <1>1, SameHolders DEF Context, Holds, Holding, LeaseState
<1>2. ASSUME NEW w \in Workers, ClaimSelect(w)
      PROVE  UNCHANGED <<LeaseState, LeaseHolder>>
  <2>1. \A v \in Workers, m \in Ids : Holds(v, m)' <=> Holds(v, m)
    BY <1>2 DEF ClaimSelect, Holds, Holding, Handling, Context, Basic, TypeOK
  <2> QED BY <1>2, <2>1, SameHolders DEF Context, ClaimSelect, rowVars, LeaseState
<1>3. ASSUME NEW w \in Workers, Begin(w) \/ Handle(w)
      PROVE  UNCHANGED <<LeaseState, LeaseHolder>>
  <2>1. \A v \in Workers, m \in Ids : Holds(v, m)' <=> Holds(v, m)
    BY <1>3 DEF Begin, Handle, Holds, Holding, Handling, Context, Basic, TypeOK
  <2> QED BY <1>3, <2>1, SameHolders DEF Context, Begin, Handle, rowVars, LeaseState
<1> QED
  BY <1>1, <1>2, <1>3, StatementForms, RefinePublish, RefineClaimCommit, RefineClaimLost,
     RefineFinish, RefineDoubt, RefineCrash, RefineReap, RefinePurge DEF Next, Tick, vars

\* With batches that fit the timeout, the table, its workers and the reaper are
\* a queue of exclusive leases: nobody but the holder of a lease ends it, and
\* none is taken back from a live holder, but for the messages whose holder lost
\* the answer of its own ack, retry or fail.
THEOREM QueueImplementsLeases ==
    ASSUME BatchFitsTimeout PROVE Spec => ImplementsLeases
<1>1. Init => Leases!Init
  <2> SUFFICES ASSUME Init PROVE Leases!Init
    OBVIOUS
  <2>1. \A w \in Workers, m \in Ids : ~ (Holding(w) /\ m \in hand[w])
    BY DEF Init
  <2>2. LeaseHolder = [m \in Ids |-> Nobody]
    BY <2>1 DEF LeaseHolder
  <2>3. LeaseState = [m \in Ids |-> "absent"]
    BY DEF Init, LeaseState
  <2> QED BY <2>2, <2>3 DEF Leases!Init
<1>2. (Basic /\ LeaseInv) /\ (Basic /\ LeaseInv)' /\ [Next]_vars
        => [Leases!Next]_<<LeaseState, LeaseHolder>>
  <2>1. LeaseInv' => HolderChar'
    BY HolderFacts, PTL
  <2> QED BY <2>1, HolderFacts, RefineStep DEF Context
<1> QED BY <1>1, <1>2, LeasesHold, PTL DEF Spec, ImplementsLeases, Leases!Spec
=============================================================================
