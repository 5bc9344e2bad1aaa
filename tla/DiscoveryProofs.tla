---------------------------- MODULE DiscoveryProofs ----------------------------
(***************************************************************************)
(* Theorems about Discovery, for every number of workers, sub-themes,      *)
(* runs, clusters and faults: its types, what the dashboard shows, what    *)
(* the users are told, that no event is forgotten, and that it implements  *)
(* NarrativeLifecycle.                                                     *)
(***************************************************************************)
EXTENDS Discovery, NarrativesProofs

-----------------------------------------------------------------------------
(* The rules of evolution *)

Volume == Nat \cup {NoVolume}

LEMMA ClassifyCases ==
    ASSUME NEW prev \in Volume, NEW v \in Nat
    PROVE  /\ v = 0 => ClassifyStatus(prev, v) = "dormant"
           /\ v > 0 /\ prev = NoVolume => ClassifyStatus(prev, v) = "new"
           /\ v > 0 /\ prev = 0 => ClassifyStatus(prev, v) = "revival"
           /\ v > 0 /\ prev > 0 =>
                ClassifyStatus(prev, v) \in {"growing", "declining", "steady"}
<1> DEFINE grew == GrewBy(prev, v, GrowPct)
           fell == 100 * (prev - v) >= DeclinePct * prev
<1>1. ClassifyStatus(prev, v) =
        CASE v = 0                          -> "dormant"
          [] v > 0 /\ prev = NoVolume       -> "new"
          [] v > 0 /\ prev = 0              -> "revival"
          [] v > 0 /\ prev > 0 /\ grew      -> "growing"
          [] v > 0 /\ prev > 0 /\ fell      -> "declining"
          [] OTHER                          -> "steady"
  BY DEF ClassifyStatus
<1> HIDE DEF grew, fell
<1> QED BY <1>1 DEF Volume, NoVolume

LEMMA ClassifyType ==
    ASSUME NEW prev \in Volume, NEW v \in Nat
    PROVE  ClassifyStatus(prev, v) \in Statuses \ {"rejected"}
<1>1. v = 0 \/ (v > 0 /\ (prev = NoVolume \/ prev = 0 \/ prev > 0))
  BY DEF Volume, NoVolume
<1> QED BY <1>1, ClassifyCases DEF Statuses, Visible, Hidden

LEMMA EventCases ==
    ASSUME NEW was \in Statuses \cup {"none"}, NEW is \in Statuses
    PROVE  /\ DeriveEvents(was, is) \in SUBSET Kinds
           /\ is = was => DeriveEvents(was, is) = {}
           /\ was = "none" /\ is = "new" => DeriveEvents(was, is) = {"emerging"}
           /\ was = "none" /\ is = "dormant" => DeriveEvents(was, is) = {}
           /\ was \in Visible /\ is = "dormant" => DeriveEvents(was, is) = {"disappearing"}
           /\ was = "dormant" /\ is = "revival" => DeriveEvents(was, is) = {"emerging"}
           /\ was \in Visible /\ is \in {"growing", "declining", "steady"}
                => DeriveEvents(was, is) \subseteq {"growing"}
BY DEF DeriveEvents, Statuses, Visible, Hidden, Kinds

-----------------------------------------------------------------------------
(* One row of sub_themes *)

\* What the latest snapshot and the last event say of a narrative.
History(row) ==
    /\ row.volume = NoVolume => row.seen = "none" /\ row.heard = "none"
    /\ row.volume = 0 => row.seen = "dormant" /\ row.heard # "emerging"
    /\ row.volume > 0 => row.seen \in Visible /\ row.heard = "emerging"

\* A narrative that is shown was measured by run r and found non-empty.
Measured(row, r) ==
    row.status \notin Hidden => row.run = r /\ row.volume > 0 /\ row.seen = row.status

\* The model's refusal is the label of barred narratives only.
Named(row) ==
    row.shown # "refusal" /\ (row.label = "refusal" => row.status = "rejected")

LEMMA BlankRow == Blank \in Row /\ History(Blank) /\ Named(Blank)
<1>1. 0 \in 0..MaxRuns
  BY DiscoveryAssumption
<1>2. Blank \in Row
  BY <1>1 DEF Blank, Row, Statuses, Visible, Labels
<1>3. History(Blank) /\ Named(Blank)
  BY DEF Blank, History, Named, NoVolume
<1> QED BY <1>2, <1>3

MeasuredRow(row, new, v, text, r) ==
    /\ new \in Row /\ History(new) /\ Measured(new, r)
    /\ text # "refusal" => Named(new)
    /\ new.run = r /\ new.volume = v
    /\ new.status \in IF v = 0 THEN {"dormant"} ELSE Visible
    /\ row.named => new.named

LEMMA MeasureRow ==
    ASSUME NEW row \in Row, History(row), NEW v \in Nat, NEW relabel \in BOOLEAN,
           NEW text \in Labels, NEW r \in 0..MaxRuns
    PROVE  MeasuredRow(row, Measure(row, v, relabel, text, r), v, text, r)
<1> DEFINE status == ClassifyStatus(row.volume, v)
           news   == DeriveEvents(row.seen, status) \cap {"emerging", "disappearing"}
           heard  == IF news = {} THEN row.heard ELSE CHOOSE k \in news : TRUE
           base   == IF relabel /\ text # "none" THEN v ELSE row.base
           named  == row.named \/ (relabel /\ text # "none")
           new    == [status |-> status, label |-> text, named |-> named, base |-> base,
                      volume |-> v, seen |-> status, shown |-> text, run |-> r,
                      heard |-> heard]
<1>1. Measure(row, v, relabel, text, r) = new
  BY DEF Measure
<1>2. row.volume \in Volume /\ row.seen \in Statuses \cup {"none"}
      /\ row.heard \in {"none", "emerging", "disappearing"}
      /\ row.named \in BOOLEAN /\ row.base \in Nat
  BY DEF Row, Volume
<1>3. status \in Statuses \ {"rejected"}
  BY <1>2, ClassifyType
<1>4. heard \in {"none", "emerging", "disappearing"}
  BY <1>2
<1>5. new \in Row
  <2>1. named \in BOOLEAN /\ base \in Nat
    BY <1>2
  <2> HIDE DEF status, heard, base, named
  <2> QED BY <1>3, <1>4, <2>1 DEF Row
<1>6. v > 0 => status \in Visible /\ heard = "emerging"
  <2> SUFFICES ASSUME v > 0 PROVE status \in Visible /\ heard = "emerging"
    OBVIOUS
  <2>1. CASE row.volume = NoVolume
    <3>1. status = "new" /\ row.seen = "none"
      BY <1>2, <2>1, ClassifyCases DEF History
    <3>2. DeriveEvents(row.seen, status) = {"emerging"}
      BY <1>2, <1>3, <3>1, EventCases
    <3> QED BY <3>1, <3>2 DEF Visible
  <2>2. CASE row.volume = 0
    <3>1. status = "revival" /\ row.seen = "dormant"
      BY <1>2, <2>2, ClassifyCases DEF History
    <3>2. DeriveEvents(row.seen, status) = {"emerging"}
      BY <1>2, <1>3, <3>1, EventCases
    <3> QED BY <3>1, <3>2 DEF Visible
  <2>3. CASE row.volume > 0
    <3>1. status \in {"growing", "declining", "steady"} /\ row.seen \in Visible
          /\ row.heard = "emerging"
      BY <1>2, <2>3, ClassifyCases DEF History
    <3>2. DeriveEvents(row.seen, status) \subseteq {"growing"}
      BY <1>2, <1>3, <3>1, EventCases
    <3>3. news = {}
      BY <3>2
    <3> QED BY <3>1, <3>3 DEF Visible
  <2> QED BY <1>2, <2>1, <2>2, <2>3 DEF Volume, NoVolume
<1>7. v = 0 => status = "dormant" /\ heard # "emerging"
  <2> SUFFICES ASSUME v = 0 PROVE status = "dormant" /\ heard # "emerging"
    OBVIOUS
  <2>1. status = "dormant"
    BY <1>2, ClassifyCases
  <2>2. CASE row.volume = NoVolume
    <3>1. DeriveEvents(row.seen, status) = {} /\ row.heard = "none"
      BY <1>2, <1>3, <2>1, <2>2, EventCases DEF History
    <3>2. news = {}
      BY <3>1
    <3> QED BY <2>1, <3>1, <3>2
  <2>3. CASE row.volume = 0
    <3>1. DeriveEvents(row.seen, status) = {} /\ row.heard # "emerging"
      BY <1>2, <1>3, <2>1, <2>3, EventCases DEF History
    <3>2. news = {}
      BY <3>1
    <3> QED BY <2>1, <3>1, <3>2
  <2>4. CASE row.volume > 0
    <3>1. DeriveEvents(row.seen, status) = {"disappearing"}
      BY <1>2, <1>3, <2>1, <2>4, EventCases DEF History
    <3>2. news = {"disappearing"}
      BY <3>1
    <3> QED BY <2>1, <3>2
  <2> QED BY <1>2, <2>2, <2>3, <2>4 DEF Volume, NoVolume
<1>11. row.named => named
  BY <1>2
<1> HIDE DEF status, heard, base, named
<1>12. new.run = r /\ new.volume = v /\ (row.named => new.named)
       /\ new.status \in IF v = 0 THEN {"dormant"} ELSE Visible
  BY <1>6, <1>7, <1>11
<1>8. History(new)
  BY <1>6, <1>7 DEF History, NoVolume
<1>9. Measured(new, r)
  BY <1>6, <1>7 DEF Measured, Hidden
<1>10. text # "refusal" => Named(new)
  BY DEF Named
<1> HIDE DEF new
<1> QED BY <1>1, <1>5, <1>8, <1>9, <1>10, <1>12 DEF MeasuredRow

Answers == {"named", "refused", "silent"}

\* A run leaves a cluster's row as it was, because it was refused before; or bars a
\* row that never had a name; or measures it.
Judged(row, new, v, judge, r) ==
    \/ new = row /\ judge /\ row.status = "rejected"
    \/ /\ \E l \in Labels : new = [row EXCEPT !.status = "rejected", !.label = l]
       /\ judge /\ ~row.named
    \/ /\ \E b \in BOOLEAN, l \in Labels : new = Measure(row, v, b, l, r)
       /\ judge => row.status # "rejected"

LEMMA JudgeRow ==
    ASSUME NEW row \in Row, History(row), NEW v \in Nat, NEW verdict \in Answers,
           NEW judge \in BOOLEAN, NEW r \in 0..MaxRuns
    PROVE  /\ Judge(row, v, verdict, judge, r) \in Row
           /\ History(Judge(row, v, verdict, judge, r))
           /\ Measured(Judge(row, v, verdict, judge, r), r)
           /\ judge /\ Named(row) => Named(Judge(row, v, verdict, judge, r))
           /\ Judged(row, Judge(row, v, verdict, judge, r), v, judge, r)
<1>1. CASE Recognised(row, judge)
  <2>1. Judge(row, v, verdict, judge, r) = row
    BY <1>1 DEF Judge
  <2>2. judge /\ row.status = "rejected"
    BY <1>1 DEF Recognised
  <2> QED BY <2>1, <2>2 DEF Measured, Hidden, Judged
<1>2. CASE ~Recognised(row, judge) /\ Refused(row, v, verdict, judge)
  <2> DEFINE new == [row EXCEPT !.status = "rejected", !.label = "refusal"]
  <2>1. Judge(row, v, verdict, judge, r) = new
    BY <1>2 DEF Judge
  <2>2. judge /\ ~row.named
    BY <1>2 DEF Refused
  <2>3. new \in Row /\ "refusal" \in Labels
    BY DEF Row, Statuses, Hidden, Labels
  <2>4. /\ new.volume = row.volume /\ new.seen = row.seen /\ new.heard = row.heard
        /\ new.status = "rejected" /\ new.shown = row.shown
    BY DEF Row
  <2>5. History(new) /\ Measured(new, r) /\ (Named(row) => Named(new))
    BY <2>4 DEF History, Measured, Named, Hidden
  <2> HIDE DEF new
  <2>6. \E l \in Labels : new = [row EXCEPT !.status = "rejected", !.label = l]
    BY <2>3 DEF new
  <2> QED BY <2>1, <2>2, <2>3, <2>5, <2>6 DEF Judged
<1>3. CASE ~Recognised(row, judge) /\ ~Refused(row, v, verdict, judge)
  <2> DEFINE relabel == Relabels(row, v)
             text    == Text(row, v, verdict)
  <2>1. Judge(row, v, verdict, judge, r) = Measure(row, v, relabel, text, r)
    BY <1>3 DEF Judge
  <2>2. text \in {"name", row.label} /\ row.label \in Labels /\ "name" \in Labels
    BY DEF Text, Row, Labels
  <2>3. relabel \in BOOLEAN
    BY DEF Relabels
  <2>4. judge => row.status # "rejected"
    BY <1>3 DEF Recognised
  <2>5. judge /\ Named(row) => text # "refusal"
    BY <2>2, <2>4 DEF Named
  <2> HIDE DEF relabel, text
  <2>6. text \in Labels
    BY <2>2
  <2> DEFINE new == Measure(row, v, relabel, text, r)
  <2>7. new \in Row /\ History(new) /\ Measured(new, r) /\ (text # "refusal" => Named(new))
    BY <2>3, <2>6, MeasureRow DEF MeasuredRow
  <2>8. Judged(row, new, v, judge, r)
    BY <2>3, <2>4, <2>6 DEF Judged
  <2> HIDE DEF new
  <2>9. Judge(row, v, verdict, judge, r) = new
    BY <2>1 DEF new
  <2> QED BY <2>5, <2>7, <2>8, <2>9
<1> QED BY <1>1, <1>2, <1>3

-----------------------------------------------------------------------------
(* Type correctness and the run in progress *)

Rows == [SubThemes -> Row \cup {Absent}]

TableType == themes \in Rows /\ committed \subseteq 1..runs /\ runs \in 0..MaxRuns

AdminType ==
    /\ gate \in BOOLEAN /\ active \in BOOLEAN /\ changes \in 0..MaxChanges
    /\ changes = 0 => gate

LockType ==
    /\ lock \in Workers \cup {Nobody}
    /\ lock = Nobody => work = Idle
    /\ pc \in [Workers -> Running \cup {"idle", "flush"}]
    /\ \A w \in Workers : (pc[w] \in Running) = (lock = w)

MessageType ==
    /\ buffer \in [Workers -> SUBSET Event]
    /\ queue \in SUBSET Event /\ owed \in SUBSET Event

FaultsType == faults \in 0..MaxFaults

\* What holds of the rows, and will of those the run has made.
RowsHold(rows, r) ==
    \A t \in SubThemes : rows[t] # Absent =>
        /\ History(rows[t]) /\ Measured(rows[t], r)
        /\ changes = 0 => Named(rows[t])

Prior(t) == IF themes[t] = Absent THEN Blank ELSE themes[t]

\* What the run makes of a narrative, as row: left alone, barred or measured.
Left(t, row) == row = themes[t] /\ (row = Absent \/ row.status \in Hidden)

BarredNow(t, row) ==
    /\ row # Absent /\ ~Prior(t).named
    /\ \E l \in Labels : row = [Prior(t) EXCEPT !.status = "rejected", !.label = l]

MeasuredNow(t, row, r) ==
    /\ row \in Row /\ row.run = r /\ row.volume \in Nat
    /\ row.status \in IF row.volume = 0 THEN {"dormant"} ELSE Visible
    /\ Prior(t).named => row.named

Follows(t, row, r, judging) ==
    \/ Left(t, row)
    \/ judging /\ BarredNow(t, row)
    \/ MeasuredNow(t, row, r) /\ (judging => Prior(t).status # "rejected")

At(S) == lock # Nobody /\ pc[lock] \in S

WorkInv ==
    /\ At({"cluster", "resolve", "label"}) =>
        work.judge \in BOOLEAN /\ (changes = 0 => work.judge)
    /\ At({"resolve", "label"}) =>
        /\ work.known \in Rows
        /\ \A t \in SubThemes : themes[t] \in {work.known[t], Absent}
    /\ At({"resolve", "label", "address", "publish"}) =>
        runs \in 1..MaxRuns /\ runs \notin committed
    /\ At({"address", "publish"}) =>
        /\ work \in [draft : Rows, events : SUBSET Event]
        /\ RowsHold(work.draft, runs)
        /\ \E judging \in BOOLEAN : \A t \in SubThemes : Follows(t, work.draft[t], runs, judging)

\* The committed runs have a latest one.
Topped == committed # {} => \E r \in committed : \A s \in committed : r >= s

Typed == TableType /\ AdminType /\ LockType /\ MessageType /\ FaultsType

RunInv == Typed /\ Topped /\ RowsHold(themes, Latest) /\ WorkInv

LEMMA LatestIs ==
    ASSUME TableType, Topped
    PROVE  /\ Latest \in 0..runs
           /\ committed # {} => Latest \in committed /\ \A s \in committed : Latest >= s
<1>1. CASE committed = {}
  BY <1>1 DEF Latest, TableType
<1>2. CASE committed # {}
  <2>1. Max(committed) \in committed /\ \A s \in committed : Max(committed) >= s
    BY <1>2 DEF Topped, Max
  <2>2. Latest = Max(committed)
    BY <1>2 DEF Latest
  <2>3. Latest \in 1..runs
    BY <2>1, <2>2 DEF TableType
  <2> QED BY <2>1, <2>2, <2>3 DEF TableType
<1> QED BY <1>1, <1>2

LEMMA DeriveType == \A was, is : DeriveEvents(was, is) \in SUBSET Kinds
<1> SUFFICES ASSUME NEW was, NEW is PROVE DeriveEvents(was, is) \in SUBSET Kinds
  OBVIOUS
<1>1. CASE is = was
  BY <1>1 DEF DeriveEvents
<1>2. CASE is # was
  BY <1>2 DEF DeriveEvents, Kinds
<1> QED BY <1>1, <1>2

LEMMA EventsType ==
    ASSUME NEW t \in SubThemes, NEW row \in Row, NEW r \in 1..MaxRuns, TableType
    PROVE  EventsOf(t, row, r) \in SUBSET Event
<1> DEFINE was == IF themes[t] = Absent THEN "none" ELSE themes[t].seen
<1>1. CASE row.run # r
  BY <1>1 DEF EventsOf
<1>2. CASE row.run = r
  <2>1. themes[t] # Absent => themes[t].seen \in Statuses \cup {"none"}
    BY DEF TableType, Rows, Row
  <2>2. was \in Statuses \cup {"none"}
    BY <2>1
  <2>3. row.seen \in Statuses \cup {"none"}
    BY DEF Row
  <2> HIDE DEF was
  <2>4. DeriveEvents(was, row.seen) \in SUBSET Kinds
    BY DeriveType
  <2>5. EventsOf(t, row, r) = {[kind |-> k, sub |-> t, run |-> r] : k \in DeriveEvents(was, row.seen)}
    BY <1>2 DEF EventsOf, was
  <2> QED BY <2>4, <2>5 DEF Event
<1> QED BY <1>1, <1>2

\* The row a cluster that is not missed continues: the narrative's, or a blank one.
LEMMA ContinuedRow ==
    ASSUME RunInv, At({"label"}), NEW c \in DOMAIN work.heir, c \notin Missed,
           work.heir[c] \in SubThemes
    PROVE  (IF work.known[work.heir[c]] = Absent THEN Blank ELSE work.known[work.heir[c]])
             = Prior(work.heir[c])
<1>1. themes[work.heir[c]] \in {work.known[work.heir[c]], Absent}
  BY DEF RunInv, WorkInv, At
<1> QED BY <1>1 DEF Missed, Prior

LEMMA PriorRow ==
    ASSUME RunInv, NEW t \in SubThemes
    PROVE  Prior(t) \in Row /\ History(Prior(t)) /\ (changes = 0 => Named(Prior(t)))
BY BlankRow DEF Prior, RunInv, RowsHold, Typed, TableType, Rows

Made(t, row, r, judging) ==
    /\ row \in Row \cup {Absent}
    /\ row # Absent => /\ History(row) /\ Measured(row, r)
                       /\ changes = 0 => Named(row)
    /\ Follows(t, row, r, judging)

\* A cluster's row is judged.
LEMMA JudgedMade ==
    ASSUME RunInv, NEW t \in SubThemes, NEW v \in Nat, NEW verdict \in Answers,
           NEW judge \in BOOLEAN, changes = 0 => judge, runs \in 1..MaxRuns
    PROVE  Made(t, Judge(Prior(t), v, verdict, judge, runs), runs, judge)
<1> DEFINE row == Judge(Prior(t), v, verdict, judge, runs)
<1>1. Prior(t) \in Row /\ History(Prior(t)) /\ (changes = 0 => Named(Prior(t)))
  BY PriorRow
<1>2. runs \in 0..MaxRuns
  OBVIOUS
<1>3. /\ row \in Row /\ History(row) /\ Measured(row, runs)
      /\ judge /\ Named(Prior(t)) => Named(row)
      /\ Judged(Prior(t), row, v, judge, runs)
  BY <1>1, <1>2, JudgeRow
<1> HIDE DEF row
<1>4. Follows(t, row, runs, judge)
  <2>1. CASE row = Prior(t) /\ judge /\ Prior(t).status = "rejected"
    <3>1. Blank.status = "new"
      BY DEF Blank
    <3>2. row = themes[t] /\ row.status \in Hidden
      BY <2>1, <3>1 DEF Prior, Hidden
    <3> QED BY <3>2 DEF Follows, Left
  <2>2. CASE /\ \E l \in Labels : row = [Prior(t) EXCEPT !.status = "rejected", !.label = l]
             /\ judge /\ ~Prior(t).named
    BY <1>3, <2>2, AbsentAssumption DEF Follows, BarredNow
  <2>3. CASE /\ \E b \in BOOLEAN, l \in Labels : row = Measure(Prior(t), v, b, l, runs)
             /\ judge => Prior(t).status # "rejected"
    <3>1. PICK b \in BOOLEAN, l \in Labels : row = Measure(Prior(t), v, b, l, runs)
      BY <2>3
    <3>2. /\ row.run = runs /\ row.volume = v
          /\ row.status \in IF v = 0 THEN {"dormant"} ELSE Visible
          /\ Prior(t).named => row.named
      BY <1>1, <1>2, <3>1, MeasureRow DEF MeasuredRow
    <3> QED BY <1>3, <2>3, <3>2 DEF Follows, MeasuredNow
  <2> QED BY <1>3, <2>1, <2>2, <2>3 DEF Judged
<1> QED BY <1>1, <1>3, <1>4 DEF Made, row

\* A shown narrative without a cluster gets an empty snapshot.
LEMMA QuietMade ==
    ASSUME RunInv, NEW t \in SubThemes, themes[t] # Absent, themes[t].status \notin Hidden,
           NEW judge \in BOOLEAN, runs \in 1..MaxRuns
    PROVE  Made(t, Measure(themes[t], 0, FALSE, themes[t].label, runs), runs, judge)
<1> DEFINE row == Measure(themes[t], 0, FALSE, themes[t].label, runs)
<1>1. /\ themes[t] \in Row /\ History(themes[t]) /\ (changes = 0 => Named(themes[t]))
      /\ Prior(t) = themes[t]
  BY DEF RunInv, RowsHold, Typed, TableType, Rows, Prior
<1>2. themes[t].label \in Labels /\ runs \in 0..MaxRuns /\ themes[t].status # "rejected"
  BY <1>1 DEF Row, Hidden
<1>3. changes = 0 => themes[t].label # "refusal"
  BY <1>1, <1>2 DEF Named
<1>6. MeasuredRow(themes[t], row, 0, themes[t].label, runs)
  BY <1>1, <1>2, MeasureRow
<1> HIDE DEF row
<1>4. /\ row \in Row /\ History(row) /\ Measured(row, runs)
      /\ changes = 0 => Named(row)
      /\ row.run = runs /\ row.volume = 0 /\ row.status \in {"dormant"}
      /\ themes[t].named => row.named
  BY <1>3, <1>6 DEF MeasuredRow
<1>5. MeasuredNow(t, row, runs)
  BY <1>1, <1>4 DEF MeasuredNow
<1> QED BY <1>1, <1>2, <1>4, <1>5 DEF Made, Follows, row

\* A row the run does not touch.
LEMMA LeftMade ==
    ASSUME RunInv, NEW t \in SubThemes, themes[t] = Absent \/ themes[t].status \in Hidden,
           NEW judge \in BOOLEAN
    PROVE  Made(t, themes[t], runs, judge)
BY DEF RunInv, RowsHold, Typed, TableType, Rows, Made, Follows, Left, Measured

LEMMA VolumesType == \A v \in Volumes : \A c \in DOMAIN work.heir : v[c] \in Nat
<1> DEFINE top == MaxClusters * MaxSize
<1>1. \A v \in Volumes : v \in [DOMAIN work.heir -> 0..top]
  BY DEF Volumes
<1>2. 0..top \subseteq Nat
  OBVIOUS
<1> HIDE DEF top
<1> QED BY <1>1, <1>2

LEMMA LabelDrafts ==
    ASSUME RunInv, NEW w \in Workers, Label(w)
    PROVE  WorkInv'
<1>1. lock = w /\ lock' = w /\ pc[w] = "label" /\ pc'[w] = "address" /\ w # Nobody
  BY DiscoveryAssumption DEF Label, Goto, RunInv, Typed, LockType, Running
<1>2. UNCHANGED <<themes, committed, runs, changes>>
  BY DEF Label, tableVars, adminVars
<1>3. At({"label"})
  BY <1>1 DEF At
<1>4. /\ work.judge \in BOOLEAN /\ (changes = 0 => work.judge)
      /\ runs \in 1..MaxRuns /\ runs \notin committed
  BY <1>3 DEF RunInv, WorkInv, At
<1> DEFINE sub   == work.heir
           row   == [c \in DOMAIN sub |-> IF work.known[sub[c]] = Absent THEN Blank
                                          ELSE work.known[sub[c]]]
           quiet == [t \in Orphans(Range(sub)) |->
                        Measure(themes[t], 0, FALSE, themes[t].label, runs)]
           asked(volume) == {c \in DOMAIN sub : /\ ~Recognised(row[c], work.judge)
                                                /\ Relabels(row[c], volume[c])}
           answer(volume, verdict, c) == IF c \in asked(volume) THEN verdict[c] ELSE "silent"
           made(volume, verdict) ==
               [c \in DOMAIN sub |->
                   Judge(row[c], volume[c], answer(volume, verdict, c), work.judge, runs)]
           draft(volume, verdict) ==
               [t \in SubThemes |->
                   IF \E c \in DOMAIN sub \ Missed : sub[c] = t
                   THEN made(volume, verdict)[CHOOSE c \in DOMAIN sub : sub[c] = t]
                   ELSE IF t \in DOMAIN quiet THEN quiet[t] ELSE themes[t]]
<1>5. PICK volume \in Volumes :
        \E verdict \in Verdicts(asked(volume)) :
            work' = [draft |-> draft(volume, verdict),
                     events |-> UNION {EventsOf(t, draft(volume, verdict)[t], runs) :
                                  t \in {u \in SubThemes : draft(volume, verdict)[u] # Absent}}]
  BY DEF Label
<1>6. PICK verdict \in Verdicts(asked(volume)) :
        work' = [draft |-> draft(volume, verdict),
                 events |-> UNION {EventsOf(t, draft(volume, verdict)[t], runs) :
                              t \in {u \in SubThemes : draft(volume, verdict)[u] # Absent}}]
  BY <1>5
<1> DEFINE D == draft(volume, verdict)
<1>7. ASSUME NEW t \in SubThemes
      PROVE  Made(t, D[t], runs, work.judge)
  <2>1. CASE \E c \in DOMAIN sub \ Missed : sub[c] = t
    <3>1. PICK c \in DOMAIN sub : c = CHOOSE d \in DOMAIN sub : sub[d] = t
      BY <2>1
    <3>2. sub[c] = t
      BY <2>1, <3>1
    <3>3. c \notin Missed
      BY <2>1, <3>2 DEF Missed
    <3>4. row[c] = Prior(t)
      BY <1>3, <3>2, <3>3, ContinuedRow
    <3>5. volume[c] \in Nat
      BY VolumesType
    <3>6. answer(volume, verdict, c) \in Answers
      BY <1>6 DEF Verdicts, Answers
    <3>7. D[t] = Judge(Prior(t), volume[c], answer(volume, verdict, c), work.judge, runs)
      BY <2>1, <3>1, <3>4
    <3> HIDE DEF answer, D
    <3> QED BY <1>4, <3>5, <3>6, <3>7, JudgedMade
  <2>2. CASE ~(\E c \in DOMAIN sub \ Missed : sub[c] = t) /\ t \in DOMAIN quiet
    <3>1. themes[t] # Absent /\ themes[t].status \notin Hidden
      BY <2>2 DEF Orphans, Known
    <3>2. D[t] = Measure(themes[t], 0, FALSE, themes[t].label, runs)
      BY <2>2
    <3> HIDE DEF D
    <3> QED BY <1>4, <3>1, <3>2, QuietMade
  <2>3. CASE ~(\E c \in DOMAIN sub \ Missed : sub[c] = t) /\ t \notin DOMAIN quiet
    <3>1. D[t] = themes[t]
      BY <2>3
    <3>2. themes[t] = Absent \/ themes[t].status \in Hidden
      <4>1. t \in Range(sub) => themes[t] = Absent
        BY <2>3 DEF Range, Missed
      <4> QED BY <2>3, <4>1 DEF Orphans, Known
    <3> HIDE DEF D
    <3> QED BY <1>4, <3>1, <3>2, LeftMade
  <2> QED BY <2>1, <2>2, <2>3
<1>8. D = [t \in SubThemes |-> D[t]]
  OBVIOUS
<1>9. /\ work' = [draft |-> D, events |-> work'.events]
      /\ work'.draft = D
      /\ work'.events = UNION {EventsOf(t, D[t], runs) : t \in {u \in SubThemes : D[u] # Absent}}
  BY <1>6
<1> HIDE DEF D
<1>10. D \in Rows
  BY <1>7, <1>8 DEF Made, Rows
<1>11. work'.events \in SUBSET Event
  <2>1. \A t \in {u \in SubThemes : D[u] # Absent} : EventsOf(t, D[t], runs) \in SUBSET Event
    BY <1>4, <1>7, EventsType DEF Made, RunInv, Typed
  <2> QED BY <1>9, <2>1
<1>12. RowsHold(work.draft, runs)'
  BY <1>2, <1>7, <1>9 DEF RowsHold, Made
<1>13. \A t \in SubThemes : Follows(t, D[t], runs, work.judge)
  BY <1>7 DEF Made
<1>14. (\E judging \in BOOLEAN : \A t \in SubThemes : Follows(t, work.draft[t], runs, judging))'
  BY <1>2, <1>4, <1>9, <1>13 DEF Follows, Left, BarredNow, MeasuredNow, Prior
<1> QED BY <1>1, <1>2, <1>4, <1>9, <1>10, <1>11, <1>12, <1>14 DEF WorkInv, At

-----------------------------------------------------------------------------
(* The steps *)

LEMMA LockStep == ASSUME RunInv, [Next]_vars PROVE LockType'
<1> USE DEF RunInv, Typed, LockType
<1>1. Nobody \notin Workers
  BY DiscoveryAssumption
<1>2. ASSUME NEW w \in Workers, Start(w) PROVE LockType'
  BY <1>1, <1>2 DEF Start, Goto, Running
<1>3. ASSUME NEW w \in Workers, Skip(w) PROVE LockType'
  BY <1>1, <1>3 DEF Skip, ToFlush, Goto, Running
<1>4. ASSUME NEW w \in Workers, pc[w] \in Running \ {"publish"}, lock' = lock,
             pc' = [pc EXCEPT ![w] = "resolve"] \/ pc' = [pc EXCEPT ![w] = "label"]
             \/ pc' = [pc EXCEPT ![w] = "address"] \/ pc' = [pc EXCEPT ![w] = "publish"]
      PROVE  LockType'
  BY <1>1, <1>4 DEF Running
<1>5. ASSUME NEW w \in Workers, lock = w, lock' = Nobody, work' = Idle, ToFlush(w)
      PROVE  LockType'
  BY <1>1, <1>5 DEF ToFlush, Goto, Running
<1>6. ASSUME NEW w \in Workers, NothingFound(w) \/ Vanished(w) \/ Fail(w) \/ Commit(w)
      PROVE  LockType'
  BY <1>5, <1>6 DEF NothingFound, Vanished, Fail, Commit, Abandon, Running
<1>7. ASSUME NEW w \in Workers, Cluster(w) \/ Resolve(w) \/ Label(w) \/ Address(w)
      PROVE  LockType'
  BY <1>4, <1>7 DEF Cluster, Resolve, Label, Address, Goto, Running
<1>8. ASSUME NEW w \in Workers, Publish(w) PROVE LockType'
  BY <1>1, <1>8 DEF Publish, Running
<1>9. ASSUME NEW w \in Workers, Flush(w) \/ FlushFails(w) PROVE LockType'
  BY <1>1, <1>9 DEF Flush, FlushFails, Goto, Running
<1>10. ASSUME NEW w \in Workers, Crash(w) PROVE LockType'
  BY <1>1, <1>10 DEF Crash, Goto, Running
<1>11. CASE Consume \/ SetGate \/ SetActive \/ DeleteThemes \/ UNCHANGED vars
  BY <1>11 DEF Consume, SetGate, SetActive, DeleteThemes, vars
<1> QED
  BY <1>2, <1>3, <1>6, <1>7, <1>8, <1>9, <1>10, <1>11 DEF Next

\* Where the run in progress is.
LEMMA Holder ==
    ASSUME RunInv, NEW w \in Workers, pc[w] \in Running
    PROVE  lock = w /\ lock # Nobody
BY DiscoveryAssumption DEF RunInv, Typed, LockType

LEMMA MessageStep == ASSUME RunInv, [Next]_vars PROVE MessageType'
<1> USE DEF MessageType
<1>0. MessageType
  BY DEF RunInv, Typed
<1>1. ASSUME NEW w \in Workers, Publish(w) PROVE MessageType'
  <2>1. work.events \in SUBSET Event
    <3>1. At({"address", "publish"})
      BY <1>1, Holder DEF Publish, At, Running
    <3> QED BY <3>1 DEF RunInv, WorkInv
  <2> QED BY <1>0, <1>1, <2>1 DEF Publish
<1>2. ASSUME NEW w \in Workers, Fail(w) PROVE MessageType'
  <2>1. CASE buffer' = buffer
    BY <1>0, <1>2, <2>1 DEF Fail, Abandon
  <2>2. CASE /\ pc[w] = "publish"
             /\ \E e \in work.events : buffer' = [buffer EXCEPT ![w] = @ \cup {e}]
    <3>1. At({"address", "publish"})
      BY <2>2, Holder DEF At, Running
    <3>2. work.events \in SUBSET Event
      BY <3>1 DEF RunInv, WorkInv
    <3>3. buffer' \in [Workers -> SUBSET Event]
      BY <1>0, <2>2, <3>2
    <3> QED BY <1>0, <1>2, <3>3 DEF Fail, Abandon
  <2> QED BY <1>2, <2>1, <2>2 DEF Fail
<1>3. ASSUME NEW w \in Workers, Commit(w) PROVE MessageType'
  BY <1>0, <1>3 DEF Commit
<1>4. ASSUME NEW w \in Workers, Flush(w) \/ FlushFails(w) \/ Crash(w) PROVE MessageType'
  BY <1>0, <1>4 DEF Flush, FlushFails, Crash
<1>5. ASSUME NEW w \in Workers, Start(w) \/ Skip(w) \/ NothingFound(w) \/ Cluster(w)
             \/ Resolve(w) \/ Label(w) \/ Vanished(w) \/ Address(w)
      PROVE  MessageType'
  BY <1>0, <1>5 DEF Start, Skip, NothingFound, Cluster, Resolve, Label, Vanished, Address, Abandon
<1>6. CASE Consume \/ SetGate \/ SetActive \/ DeleteThemes \/ UNCHANGED vars
  BY <1>0, <1>6 DEF Consume, SetGate, SetActive, DeleteThemes, vars
<1> QED BY <1>1, <1>2, <1>3, <1>4, <1>5, <1>6 DEF Next

LEMMA AdminStep == ASSUME RunInv, [Next]_vars PROVE AdminType' /\ (changes' = 0 => changes = 0)
<1> USE DEF AdminType
<1>0. AdminType /\ changes \in Nat
  BY DiscoveryAssumption DEF RunInv, Typed
<1>1. CASE SetGate \/ SetActive
  <2>1. changes' = changes + 1 /\ changes' \in 0..MaxChanges
    BY <1>0, <1>1, DiscoveryAssumption DEF SetGate, SetActive
  <2>2. gate' \in BOOLEAN /\ active' \in BOOLEAN
    BY <1>0, <1>1 DEF SetGate, SetActive
  <2>3. changes' # 0
    BY <1>0, <2>1
  <2> QED BY <2>1, <2>2, <2>3
<1>2. CASE UNCHANGED adminVars
  BY <1>0, <1>2 DEF adminVars
<1>3. CASE \E w \in Workers :
            \/ Start(w) \/ Skip(w) \/ NothingFound(w) \/ Cluster(w) \/ Resolve(w)
            \/ Label(w) \/ Vanished(w) \/ Address(w) \/ Publish(w) \/ Commit(w) \/ Flush(w)
            \/ Fail(w) \/ FlushFails(w) \/ Crash(w)
  BY <1>2, <1>3 DEF Start, Skip, NothingFound, Cluster, Resolve, Label, Vanished, Address,
                    Publish, Commit, Flush, Fail, FlushFails, Crash, Abandon
<1>4. CASE Consume \/ DeleteThemes \/ UNCHANGED vars
  BY <1>2, <1>4 DEF Consume, DeleteThemes, vars
<1> QED BY <1>1, <1>3, <1>4 DEF Next

LEMMA FaultsStep == ASSUME RunInv, [Next]_vars PROVE FaultsType'
<1> USE DEF FaultsType
<1>0. FaultsType
  BY DEF RunInv, Typed
<1>1. CASE Fault
  BY <1>0, <1>1, DiscoveryAssumption DEF Fault
<1>2. CASE UNCHANGED faults
  BY <1>0, <1>2
<1>3. CASE \E w \in Workers :
            \/ Start(w) \/ Skip(w) \/ NothingFound(w) \/ Cluster(w) \/ Resolve(w)
            \/ Label(w) \/ Vanished(w) \/ Address(w) \/ Publish(w) \/ Commit(w) \/ Flush(w)
            \/ Fail(w) \/ FlushFails(w) \/ Crash(w)
  BY <1>1, <1>2, <1>3 DEF Start, Skip, NothingFound, Cluster, Resolve, Label, Vanished, Address,
                    Publish, Commit, Flush, Fail, FlushFails, Crash, Abandon
<1>4. CASE Consume \/ SetGate \/ SetActive \/ DeleteThemes \/ UNCHANGED vars
  BY <1>1, <1>2, <1>4 DEF Consume, SetGate, SetActive, DeleteThemes, vars
<1> QED BY <1>3, <1>4 DEF Next

\* Steps that leave the tables leave what holds of them.
LEMMA TableKept ==
    ASSUME RunInv, UNCHANGED tableVars, changes' = 0 => changes = 0
    PROVE  Topped' /\ RowsHold(themes, Latest)'
BY DEF RunInv, tableVars, Topped, RowsHold, Latest

\* Steps of others leave what holds of the run in progress.
LEMMA WorkKept ==
    ASSUME RunInv, UNCHANGED <<tableVars, runs, lock, work>>, changes' = 0 => changes = 0,
           lock # Nobody => pc'[lock] = pc[lock]
    PROVE  WorkInv'
<1>1. \A S : At(S)' = At(S)
  BY DEF At
<1>2. UNCHANGED <<themes, committed, runs, work>>
  BY DEF tableVars
<1>3. WorkInv
  BY DEF RunInv
<1>4. (\E judging \in BOOLEAN : \A t \in SubThemes : Follows(t, work.draft[t], runs, judging))'
      = \E judging \in BOOLEAN : \A t \in SubThemes : Follows(t, work.draft[t], runs, judging)
  BY <1>2 DEF Follows, Left, BarredNow, MeasuredNow, Prior
<1>5. RowsHold(work.draft, runs) => RowsHold(work.draft, runs)'
  BY <1>2 DEF RowsHold
<1> QED BY <1>2, <1>3, <1>4, <1>5 DEF WorkInv, At

\* A commit makes the run the latest.
LEMMA CommitStep ==
    ASSUME RunInv, NEW w \in Workers, Commit(w)
    PROVE  /\ TableType' /\ Topped' /\ RowsHold(themes, Latest)'
           /\ Latest' = runs /\ runs \in Latest + 1..MaxRuns
<1>1. At({"address", "publish"}) /\ At({"resolve", "label", "address", "publish"})
  BY Holder DEF Commit, At, Running
<1>2. /\ work.draft \in Rows /\ RowsHold(work.draft, runs)
      /\ runs \in 1..MaxRuns /\ runs \notin committed
  BY <1>1 DEF RunInv, WorkInv
<1>3. /\ themes' = work.draft /\ committed' = committed \cup {runs}
      /\ runs' = runs /\ changes' = changes
  BY DEF Commit, adminVars
<1>4. committed \subseteq 1..runs /\ committed' \subseteq 1..runs /\ runs \in committed'
  BY <1>2, <1>3 DEF RunInv, Typed, TableType
<1>5. \A s \in committed' : runs >= s
  BY <1>2, <1>4
<1> DEFINE top == Max(committed')
<1>6. top \in committed' /\ \A s \in committed' : top >= s
  BY <1>4, <1>5 DEF Max
<1>7. top = runs
  <2> HIDE DEF top
  <2>1. top >= runs /\ runs >= top /\ top \in 1..runs
    BY <1>4, <1>5, <1>6
  <2> QED BY <1>2, <2>1
<1>8. Latest' = runs
  BY <1>4, <1>7 DEF Latest
<1>9. TableType'
  BY <1>2, <1>3, <1>4 DEF TableType, RunInv, Typed
<1>10. Topped'
  BY <1>4, <1>5 DEF Topped
<1>11. RowsHold(themes, Latest)'
  BY <1>2, <1>3, <1>8 DEF RowsHold
<1>12. runs \in Latest + 1..MaxRuns
  <2>1. Latest \in 0..runs /\ (committed # {} => Latest \in committed)
    BY LatestIs DEF RunInv, Typed
  <2>2. Latest # runs
    BY <1>2, <2>1 DEF Latest
  <2> QED BY <1>2, <2>1, <2>2
<1> QED BY <1>8, <1>9, <1>10, <1>11, <1>12

\* Deleting narratives.
LEMMA DeleteStep ==
    ASSUME RunInv, DeleteThemes
    PROVE  /\ TableType' /\ Topped' /\ RowsHold(themes, Latest)' /\ WorkInv'
           /\ Latest' = Latest /\ \A t \in SubThemes : themes'[t] \in {themes[t], Absent}
<1>1. UNCHANGED <<committed, changes, runs, lock, pc, work>>
  BY DEF DeleteThemes, adminVars
<1>2. themes' \in Rows /\ \A t \in SubThemes : themes'[t] \in {themes[t], Absent}
  BY DEF DeleteThemes, RunInv, Typed, TableType, Rows
<1>3. TableType' /\ Topped' /\ Latest' = Latest
  BY <1>1, <1>2 DEF RunInv, Typed, TableType, Topped, Latest
<1>4. RowsHold(themes, Latest)'
  BY <1>1, <1>2, <1>3 DEF RunInv, RowsHold
<1>5. ~At({"address", "publish"})
  BY DEF DeleteThemes, RunInv, Typed, LockType, At
<1>6. WorkInv'
  BY <1>1, <1>2, <1>5 DEF RunInv, WorkInv, At
<1> QED BY <1>2, <1>3, <1>4, <1>6

LEMMA TableStep ==
    ASSUME RunInv, [Next]_vars PROVE TableType' /\ Topped' /\ RowsHold(themes, Latest)'
<1>1. changes' = 0 => changes = 0
  BY AdminStep
<1>2. TableType
  BY DEF RunInv, Typed
<1>3. CASE UNCHANGED <<tableVars, runs>>
  BY <1>1, <1>2, <1>3, TableKept DEF TableType, tableVars
<1>4. ASSUME NEW w \in Workers, Cluster(w)
      PROVE  TableType' /\ Topped' /\ RowsHold(themes, Latest)'
  <2>1. UNCHANGED tableVars /\ runs' = runs + 1 /\ runs < MaxRuns
    BY <1>4 DEF Cluster
  <2>2. TableType'
    BY <1>2, <2>1, DiscoveryAssumption DEF TableType, tableVars
  <2> QED BY <1>1, <2>1, <2>2, TableKept
<1>5. ASSUME NEW w \in Workers, Commit(w)
      PROVE  TableType' /\ Topped' /\ RowsHold(themes, Latest)'
  BY <1>5, CommitStep
<1>6. ASSUME NEW w \in Workers, Start(w) \/ Skip(w) \/ NothingFound(w) \/ Resolve(w)
             \/ Label(w) \/ Vanished(w) \/ Address(w) \/ Publish(w) \/ Flush(w)
             \/ Fail(w) \/ FlushFails(w) \/ Crash(w)
      PROVE  UNCHANGED <<tableVars, runs>>
  BY <1>6 DEF Start, Skip, NothingFound, Resolve, Label, Vanished, Address, Publish, Flush,
              Fail, FlushFails, Crash, Abandon
<1>7. CASE Consume \/ SetGate \/ SetActive \/ UNCHANGED vars
  BY <1>3, <1>7 DEF Consume, SetGate, SetActive, vars
<1>8. CASE DeleteThemes
  BY <1>8, DeleteStep
<1> QED BY <1>3, <1>4, <1>5, <1>6, <1>7, <1>8 DEF Next

LEMMA WorkStep == ASSUME RunInv, [Next]_vars PROVE WorkInv'
<1>1. changes' = 0 => changes = 0
  BY AdminStep
<1>2. Nobody \notin Workers /\ LockType
  BY DiscoveryAssumption DEF RunInv, Typed
<1>3. ASSUME NEW w \in Workers, Start(w) PROVE WorkInv'
  <2>1. pc'[w] = "cluster" /\ lock' = w
    BY <1>2, <1>3 DEF Start, Goto, LockType
  <2>2. work'.judge = gate /\ gate \in BOOLEAN /\ (changes = 0 => gate)
    BY <1>3 DEF Start, RunInv, Typed, AdminType
  <2> QED BY <1>1, <2>1, <2>2 DEF WorkInv, At
<1>4. ASSUME NEW w \in Workers, Cluster(w) PROVE WorkInv'
  <2>1. pc'[w] = "resolve" /\ lock' = w /\ At({"cluster", "resolve", "label"})
    BY <1>2, <1>4, Holder DEF Cluster, Goto, LockType, At, Running
  <2>2. work'.judge = work.judge /\ work'.known = themes
    BY <1>4 DEF Cluster
  <2>3. UNCHANGED <<themes, committed>> /\ runs' = runs + 1 /\ runs < MaxRuns
    BY <1>4 DEF Cluster, tableVars
  <2>4. TableType
    BY DEF RunInv, Typed
  <2>5. runs' \in 1..MaxRuns /\ runs' \notin committed
    BY <2>3, <2>4, DiscoveryAssumption DEF TableType
  <2>6. work'.judge \in BOOLEAN /\ (changes' = 0 => work'.judge)
    BY <1>1, <2>1, <2>2 DEF RunInv, WorkInv
  <2> QED BY <2>1, <2>2, <2>3, <2>4, <2>5, <2>6 DEF WorkInv, At, TableType
<1>5. ASSUME NEW w \in Workers, Resolve(w) PROVE WorkInv'
  <2>1. pc'[w] = "label" /\ lock' = w /\ At({"cluster", "resolve", "label"})
        /\ At({"resolve", "label"}) /\ At({"resolve", "label", "address", "publish"})
    BY <1>2, <1>5, Holder DEF Resolve, Goto, LockType, At, Running
  <2>2. work'.judge = work.judge /\ work'.known = work.known
    BY <1>5 DEF Resolve
  <2>3. UNCHANGED <<themes, committed, runs>>
    BY <1>5 DEF Resolve, tableVars
  <2> QED BY <1>1, <2>1, <2>2, <2>3 DEF RunInv, WorkInv, At
<1>6. ASSUME NEW w \in Workers, Label(w) PROVE WorkInv'
  BY <1>6, LabelDrafts
<1>7. ASSUME NEW w \in Workers, Address(w) \/ Publish(w) PROVE WorkInv'
  <2>1. pc'[w] = "publish" /\ lock' = w /\ At({"address", "publish"})
        /\ At({"resolve", "label", "address", "publish"})
    BY <1>2, <1>7, Holder DEF Address, Publish, Goto, LockType, At, Running
  <2>2. UNCHANGED <<themes, committed, runs>>
    BY <1>7 DEF Address, Publish, tableVars
  <2>3. /\ work \in [draft : Rows, events : SUBSET Event] /\ RowsHold(work.draft, runs)
        /\ runs \in 1..MaxRuns /\ runs \notin committed
    BY <2>1 DEF RunInv, WorkInv
  <2>4. PICK judging \in BOOLEAN : \A t \in SubThemes : Follows(t, work.draft[t], runs, judging)
    BY <2>1 DEF RunInv, WorkInv
  <2>5. work' \in [draft : Rows, events : SUBSET Event] /\ work'.draft = work.draft
    BY <1>7, <2>3 DEF Address, Publish
  <2>6. RowsHold(work.draft, runs)'
    BY <1>1, <2>2, <2>3, <2>5 DEF RowsHold
  <2>7. \A t \in SubThemes : Follows(t, work.draft[t], runs, judging)'
    <3> SUFFICES ASSUME NEW t \in SubThemes PROVE Follows(t, work.draft[t], runs, judging)'
      OBVIOUS
    <3>1. Follows(t, work.draft[t], runs, judging)
      BY <2>4
    <3>2. Prior(t)' = Prior(t) /\ themes'[t] = themes[t]
      BY <2>2 DEF Prior
    <3>3. work'.draft[t] = work.draft[t] /\ runs' = runs
      BY <2>2, <2>5
    <3>4. Left(t, work.draft[t])' = Left(t, work.draft[t])
      BY <3>2, <3>3, Zenon DEF Left
    <3>5. BarredNow(t, work.draft[t])' = BarredNow(t, work.draft[t])
      BY <3>2, <3>3, Zenon DEF BarredNow
    <3>6. MeasuredNow(t, work.draft[t], runs)' = MeasuredNow(t, work.draft[t], runs)
      BY <3>2, <3>3, Zenon DEF MeasuredNow
    <3> QED BY <3>1, <3>2, <3>4, <3>5, <3>6, Zenon DEF Follows
  <2>8. (\E j \in BOOLEAN : \A t \in SubThemes : Follows(t, work.draft[t], runs, j))'
    BY <2>7
  <2> QED BY <2>1, <2>2, <2>3, <2>5, <2>6, <2>8 DEF WorkInv, At
<1>8. ASSUME NEW w \in Workers, NothingFound(w) \/ Vanished(w) \/ Commit(w) \/ Fail(w)
      PROVE  WorkInv'
  BY <1>8 DEF NothingFound, Vanished, Commit, Fail, Abandon, WorkInv, At
<1>9. ASSUME NEW w \in Workers, Skip(w) \/ Flush(w) \/ FlushFails(w) PROVE WorkInv'
  <2>1. UNCHANGED <<tableVars, runs, lock, work>>
    BY <1>9 DEF Skip, Flush, FlushFails
  <2>2. lock # w
    BY <1>2, <1>9 DEF Skip, Flush, FlushFails, LockType, Running
  <2>3. lock # Nobody => pc'[lock] = pc[lock]
    BY <1>2, <1>9, <2>2 DEF Skip, Flush, FlushFails, ToFlush, Goto, LockType
  <2> QED BY <1>1, <2>1, <2>3, WorkKept
<1>10. ASSUME NEW w \in Workers, Crash(w) PROVE WorkInv'
  <2>1. CASE lock = w
    BY <1>10, <2>1 DEF Crash, WorkInv, At
  <2>2. CASE lock # w
    <3>1. UNCHANGED <<tableVars, runs, lock, work>>
      BY <1>10, <2>2 DEF Crash
    <3>2. lock # Nobody => pc'[lock] = pc[lock]
      BY <1>2, <1>10, <2>2 DEF Crash, Goto, LockType
    <3> QED BY <1>1, <3>1, <3>2, WorkKept
  <2> QED BY <2>1, <2>2
<1>11. CASE Consume \/ SetGate \/ SetActive \/ UNCHANGED vars
  BY <1>1, <1>11, WorkKept DEF Consume, SetGate, SetActive, vars, tableVars
<1>12. CASE DeleteThemes
  BY <1>12, DeleteStep
<1> QED
  BY <1>3, <1>4, <1>5, <1>6, <1>7, <1>8, <1>9, <1>10, <1>11, <1>12 DEF Next

LEMMA RunInvInit == Init => RunInv
<1> SUFFICES ASSUME Init PROVE RunInv
  OBVIOUS
<1>1. 0 \in 0..MaxRuns /\ 0 \in 0..MaxChanges /\ 0 \in 0..MaxFaults /\ Nobody \notin Workers
  BY DiscoveryAssumption
<1>2. Typed
  BY <1>1 DEF Init, Typed, TableType, Rows, AdminType, LockType, Running, MessageType, FaultsType
<1>3. Topped /\ RowsHold(themes, Latest) /\ WorkInv
  BY DEF Init, Topped, RowsHold, WorkInv, At
<1> QED BY <1>2, <1>3 DEF RunInv

LEMMA RunInvStep == RunInv /\ [Next]_vars => RunInv'
BY LockStep, MessageStep, AdminStep, FaultsStep, TableStep, WorkStep DEF RunInv, Typed

LEMMA RunInvariant == Spec => []RunInv
BY RunInvInit, RunInvStep, PTL DEF Spec

-----------------------------------------------------------------------------
(* Theorems *)

\* Every row, event, lock and worker stays what its type says: the worker at work
\* is the one that holds the advisory lock.
THEOREM DiscoveryTypeCorrect == Spec => []TypeOK
<1>1. RunInv => TypeOK
  BY DEF RunInv, Typed, TableType, Rows, AdminType, LockType, MessageType, FaultsType, TypeOK
<1> QED BY <1>1, RunInvariant, PTL

\* Every shown narrative was measured by the latest run that committed, which
\* found it non-empty (the sunsetter, subtheme_discovery.py:326-362).
THEOREM NoZombiesHolds == Spec => []NoZombies
<1>1. RunInv => NoZombies
  BY DEF RunInv, RowsHold, Measured, NoZombies, Known
<1> QED BY <1>1, RunInvariant, PTL

\* Whatever is matched, missed, revived or refused, the last of "emerging" and
\* "disappearing" agrees with the narrative's latest measurement (evolution.py).
THEOREM AnnouncedMatchesHolds == Spec => []AnnouncedMatches
<1>1. RunInv => AnnouncedMatches
  BY DEF RunInv, RowsHold, History, AnnouncedMatches, Known
<1> QED BY <1>1, RunInvariant, PTL

\* While nobody touches the gate, no card shows the model's refusal
\* (labeling.py:575-579).
THEOREM NoRefusalShownHolds == Spec => []NoRefusalShown
<1>1. RunInv => NoRefusalShown
  BY DEF RunInv, RowsHold, Named, NoRefusalShown, Cards, CardLabel, Known, Hidden
<1> QED BY <1>1, RunInvariant, PTL

\* A committed run's event is buffered or queued until it is delivered, unless the
\* worker that holds it crashes (publisher.py's flush).
THEOREM NothingForgottenHolds == Spec => []NothingForgotten
<1> DEFINE Kept == \A e \in owed : e \in queue \/ \E v \in Workers : e \in buffer[v]
<1>1. Init => Kept
  BY DEF Init
<1>2. ASSUME MessageType, Kept, [Next]_vars PROVE Kept'
  <2> USE <1>2 DEF MessageType
  <2>1. ASSUME NEW w \in Workers, Publish(w) PROVE Kept'
    BY <2>1 DEF Publish
  <2>2. ASSUME NEW w \in Workers, Commit(w) PROVE Kept'
    BY <2>2 DEF Commit
  <2>3. ASSUME NEW w \in Workers, Fail(w) PROVE Kept'
    BY <2>3 DEF Fail, Abandon
  <2>4. ASSUME NEW w \in Workers, Flush(w) \/ FlushFails(w) PROVE Kept'
    BY <2>4 DEF Flush, FlushFails
  <2>5. ASSUME NEW w \in Workers, Crash(w) PROVE Kept'
    BY <2>5 DEF Crash
  <2>6. ASSUME NEW w \in Workers, Start(w) \/ Skip(w) \/ NothingFound(w) \/ Cluster(w)
               \/ Resolve(w) \/ Label(w) \/ Vanished(w) \/ Address(w)
        PROVE  UNCHANGED <<buffer, queue, owed>>
    BY <2>6 DEF Start, Skip, NothingFound, Cluster, Resolve, Label, Vanished, Address, Abandon
  <2>7. CASE Consume
    BY <2>7 DEF Consume
  <2>8. CASE SetGate \/ SetActive \/ DeleteThemes \/ UNCHANGED vars
    BY <2>8 DEF SetGate, SetActive, DeleteThemes, vars
  <2>9. CASE UNCHANGED <<buffer, queue, owed>>
    BY <2>9
  <2> QED BY <2>1, <2>2, <2>3, <2>4, <2>5, <2>6, <2>7, <2>8, <2>9 DEF Next
<1>3. RunInv => MessageType
  BY DEF RunInv, Typed
<1>4. Kept => NothingForgotten
  BY DEF NothingForgotten
<1> HIDE DEF Kept
<1> QED BY <1>1, <1>2, <1>3, <1>4, RunInvariant, PTL DEF Spec

-----------------------------------------------------------------------------
(* Merges *)

\* The run in progress knows what its clusters score, and merges none that could
\* have had a narrative of its own.
Scored == work.n \in Nat /\ work.score \in ScoreTables(1..work.n, Candidates)

Merged ==
    \A c \in DOMAIN work.into, k \in Candidates :
        work.score[<<c, k>>] > 0 =>
            \E d \in DOMAIN work.heir :
                work.heir[d] = k /\ work.score[<<d, k>>] >= work.score[<<c, k>>]

MergeInv == (At({"resolve"}) => Scored) /\ (At({"label"}) => Merged)

LEMMA ScoreType ==
    ASSUME NEW jaccard \in 0..100, NEW cosine \in 0..100
    PROVE  IdentityScore(jaccard, cosine) \in Nat
<1>1. CASE cosine < DriftFloor
  BY <1>1 DEF IdentityScore
<1>2. CASE cosine >= DriftFloor /\ jaccard >= JaccardAt
  <2>1. ~ (cosine < DriftFloor)
    BY <1>2, NarrativesAssumption
  <2> QED BY <1>2, <2>1, NarrativesAssumption DEF IdentityScore
<1>3. CASE cosine >= DriftFloor /\ jaccard < JaccardAt
  <2>1. ~ (cosine < DriftFloor) /\ ~ (jaccard >= JaccardAt)
    BY <1>3, NarrativesAssumption
  <2> QED BY <1>3, <2>1 DEF IdentityScore
<1> QED BY <1>1, <1>2, <1>3, NarrativesAssumption

LEMMA ClusterScores == ASSUME NEW w \in Workers, Cluster(w) PROVE Scored'
<1>0. PICK n \in 1..MaxClusters : \E score \in Scores(n) :
        work' = [judge |-> work.judge, n |-> n, score |-> score, known |-> themes]
  BY DEF Cluster
<1>1. PICK score \in Scores(n) :
        work' = [judge |-> work.judge, n |-> n, score |-> score, known |-> themes]
  BY <1>0
<1>2. work'.n = n /\ work'.score = score /\ work'.known = themes /\ themes' = themes
  BY <1>1 DEF Cluster, tableVars
<1>3. Candidates' = Known
  BY <1>2 DEF Candidates, Known
<1>4. {IdentityScore(e[1], e[2]) : e \in Evidence} \subseteq Nat
  BY ScoreType, DiscoveryAssumption
<1>5. score \in [(1..n) \X Known -> Nat]
  BY <1>4 DEF Scores
<1>6. n \in Nat
  BY DiscoveryAssumption
<1> QED BY <1>2, <1>3, <1>5, <1>6 DEF Scored, ScoreTables

\* The match is one of the best, and whom it leaves out is merged or new.
LEMMA ResolveMerges ==
    ASSUME NEW w \in Workers, Resolve(w), Scored PROVE Merged'
<1> DEFINE C == 1..work.n
<1>1. PICK f \in BestAssignments(work.score, C, Candidates) :
        LET gone  == Absorbed(work.score, C, Candidates, f)
            fresh == C \ (gone \cup DOMAIN f)
        IN  work' = [judge |-> work.judge, score |-> work.score, known |-> work.known,
                     heir |-> [c \in fresh \cup DOMAIN f |->
                                 IF c \in DOMAIN f THEN f[c] ELSE NewIds(fresh)[c]],
                     into |-> [d \in gone |-> CHOOSE c \in DOMAIN f :
                                 f[c] = BestOf(work.score, Candidates, d)]]
  BY DEF Resolve
<1> DEFINE gone  == Absorbed(work.score, C, Candidates, f)
           fresh == C \ (gone \cup DOMAIN f)
           heir  == [c \in fresh \cup DOMAIN f |->
                       IF c \in DOMAIN f THEN f[c] ELSE NewIds(fresh)[c]]
<1>2. /\ work'.score = work.score /\ work'.known = work.known
      /\ work'.heir = heir /\ DOMAIN work'.into = gone
  BY <1>1
<1>3. gone \subseteq C \ DOMAIN f
  BY DEF Absorbed
<1>4. Justified(work.score, C, Candidates, f)
  <2>1. IsFiniteSet(C) /\ work.score \in ScoreTables(C, Candidates)
    BY FS_Interval DEF Scored
  <2> HIDE DEF C
  <2> QED BY <2>1, BestIsJustified
<1>5. DOMAIN f \subseteq DOMAIN heir /\ \A d \in DOMAIN f : heir[d] = f[d]
  OBVIOUS
<1>6. Candidates' = Candidates
  BY <1>2 DEF Candidates
<1> HIDE DEF C, gone, heir
<1> QED BY <1>2, <1>3, <1>4, <1>5, <1>6 DEF Merged, Justified

LEMMA MergeStep == ASSUME RunInv, MergeInv, [Next]_vars PROVE MergeInv'
<1>1. Nobody \notin Workers /\ LockType
  BY DiscoveryAssumption DEF RunInv, Typed
<1>2. CASE UNCHANGED <<lock, work>> /\ (lock # Nobody => pc'[lock] = pc[lock])
  BY <1>2 DEF MergeInv, At, Scored, Merged, Candidates
<1>3. ASSUME NEW w \in Workers, lock' = w, pc'[w] \notin {"resolve", "label"}
      PROVE  MergeInv'
  BY <1>3 DEF MergeInv, At
<1>4. ASSUME NEW w \in Workers, Start(w) \/ Label(w) \/ Address(w) \/ Publish(w)
      PROVE  MergeInv'
  <2>1. lock' = w
    BY <1>4, Holder DEF Start, Label, Address, Publish, Running
  <2>2. pc'[w] \in {"cluster", "address", "publish"}
    BY <1>1, <1>4 DEF Start, Label, Address, Publish, Goto, LockType
  <2> QED BY <1>3, <2>1, <2>2
<1>5. ASSUME NEW w \in Workers, Cluster(w) PROVE MergeInv'
  <2>1. lock' = w /\ pc'[w] = "resolve"
    BY <1>1, <1>5, Holder DEF Cluster, Goto, LockType, Running
  <2>2. Scored'
    BY <1>5, ClusterScores
  <2> QED BY <2>1, <2>2 DEF MergeInv, At
<1>6. ASSUME NEW w \in Workers, Resolve(w) PROVE MergeInv'
  <2>1. lock = w /\ lock' = w /\ lock # Nobody /\ pc[w] = "resolve" /\ pc'[w] = "label"
    BY <1>1, <1>6, Holder DEF Resolve, Goto, LockType, Running
  <2>2. Scored
    BY <2>1 DEF MergeInv, At
  <2>3. Merged'
    BY <1>6, <2>2, ResolveMerges
  <2> QED BY <2>1, <2>3 DEF MergeInv, At
<1>7. ASSUME NEW w \in Workers, NothingFound(w) \/ Vanished(w) \/ Commit(w) \/ Fail(w)
      PROVE  MergeInv'
  BY <1>7 DEF NothingFound, Vanished, Commit, Fail, Abandon, MergeInv, At
<1>8. ASSUME NEW w \in Workers, Skip(w) \/ Flush(w) \/ FlushFails(w) PROVE MergeInv'
  <2>1. lock # w
    BY <1>1, <1>8 DEF Skip, Flush, FlushFails, LockType, Running
  <2>2. UNCHANGED <<lock, work>> /\ (lock # Nobody => pc'[lock] = pc[lock])
    BY <1>1, <1>8, <2>1 DEF Skip, Flush, FlushFails, ToFlush, Goto, LockType
  <2> QED BY <1>2, <2>2
<1>9. ASSUME NEW w \in Workers, Crash(w) PROVE MergeInv'
  <2>1. CASE lock = w
    BY <1>9, <2>1 DEF Crash, MergeInv, At
  <2>2. CASE lock # w
    <3>1. UNCHANGED <<lock, work>> /\ (lock # Nobody => pc'[lock] = pc[lock])
      BY <1>1, <1>9, <2>2 DEF Crash, Goto, LockType
    <3> QED BY <1>2, <3>1
  <2> QED BY <2>1, <2>2
<1>10. CASE Consume \/ SetGate \/ SetActive \/ DeleteThemes \/ UNCHANGED vars
  BY <1>2, <1>10 DEF Consume, SetGate, SetActive, DeleteThemes, vars
<1> QED BY <1>4, <1>5, <1>6, <1>7, <1>8, <1>9, <1>10 DEF Next

\* A cluster is merged into another only when every sub-theme it has a claim to went
\* to a claim at least as strong (labeling.py:351-365), whatever the scores and
\* whichever of the best assignments the solver returns.
THEOREM JustifiedMergesHolds == Spec => []JustifiedMerges
<1>1. Init => MergeInv
  BY DEF Init, MergeInv, At
<1>2. RunInv /\ MergeInv => JustifiedMerges
  <2> SUFFICES ASSUME RunInv, MergeInv, NEW w \in Workers, pc[w] = "label"
               PROVE  Merged
    BY DEF JustifiedMerges, Merged
  <2>1. At({"label"})
    BY Holder DEF At, Running
  <2> QED BY <2>1 DEF MergeInv
<1> QED BY <1>1, <1>2, MergeStep, RunInvariant, PTL DEF Spec

-----------------------------------------------------------------------------
(* Discovery implements NarrativeLifecycle *)

StoryOf(row) ==
    IF row = Absent THEN Absent
    ELSE [stage |-> Stage(row), named |-> row.named, volume |-> row.volume, at |-> row.run]

LEMMA StageIs ==
    ASSUME NEW row \in Row
    PROVE  /\ Stage(row) \in {"shown", "quiet", "barred"}
           /\ Stage(row) = "barred" <=> row.status = "rejected"
           /\ Stage(row) = "shown" <=> row.status \in Visible
           /\ Stage(row) = "quiet" <=> row.status = "dormant"
<1>1. row.status \in Statuses
  BY DEF Row
<1>2. CASE row.status = "rejected"
  BY <1>2 DEF Stage, Visible
<1>3. CASE row.status = "dormant"
  BY <1>3 DEF Stage, Visible
<1>4. CASE row.status \in Visible
  <2>1. row.status # "rejected" /\ row.status # "dormant"
    BY <1>4 DEF Visible
  <2> QED BY <1>4, <2>1 DEF Stage
<1> QED BY <1>1, <1>2, <1>3, <1>4 DEF Statuses, Hidden

LEMMA StoryRow == ASSUME NEW row \in Row PROVE StoryOf(row) # Absent
<1>1. /\ row.named \in BOOLEAN /\ row.volume \in Int /\ row.run \in Int
      /\ row # Absent /\ Stage(row) \in {"shown", "quiet", "barred"}
  BY AbsentAssumption, StageIs DEF Row, NoVolume
<1>2. StoryOf(row) \in Lifecycle!Story
  BY <1>1 DEF StoryOf, Lifecycle!Story
<1> QED BY <1>2, StoryAssumption

Stories == [t \in SubThemes |->
              IF themes[t] = Absent THEN Absent
              ELSE [stage |-> Stage(themes[t]), named |-> themes[t].named,
                    volume |-> themes[t].volume, at |-> themes[t].run]]

Continues(t, r, judging) ==
    \/ Lifecycle!Untouched(t)
    \/ judging /\ Lifecycle!Barred(t)
    \/ /\ Stories'[t] # Absent /\ Lifecycle!Measured(t, r)
       /\ judging => Stories[t] = Absent \/ Lifecycle!Before(t).stage # "barred"

\* One narrative over a commit: it stays, is barred or is measured.
LEMMA NarrativeStep ==
    ASSUME RunInv, NEW t \in SubThemes, NEW row \in Row \cup {Absent}, NEW r \in 1..MaxRuns,
           NEW judging \in BOOLEAN, Follows(t, row, r, judging), themes'[t] = row
    PROVE  Continues(t, r, judging)
<1>1. Stories[t] = StoryOf(themes[t]) /\ Stories'[t] = StoryOf(row)
  BY DEF Stories, StoryOf
<1>2. themes[t] \in Row \cup {Absent}
  BY DEF RunInv, Typed, TableType, Rows
<1>3. Lifecycle!Before(t) =
        [stage |-> IF themes[t] = Absent THEN "barred" ELSE Stage(themes[t]),
         named |-> Prior(t).named, volume |-> Prior(t).volume, at |-> Prior(t).run]
  <2>1. CASE themes[t] = Absent
    <3>1. Lifecycle!Before(t) = Lifecycle!Unseen
      BY <1>1, <2>1 DEF Lifecycle!Before, Stories, StoryOf
    <3>2. Lifecycle!Unseen = [stage |-> "barred", named |-> FALSE, volume |-> -1, at |-> 0]
      BY DEF Lifecycle!Unseen
    <3>3. Prior(t) = Blank /\ Blank.named = FALSE /\ Blank.volume = -1 /\ Blank.run = 0
      BY <2>1 DEF Prior, Blank, NoVolume
    <3> QED BY <2>1, <3>1, <3>2, <3>3
  <2>2. CASE themes[t] # Absent
    <3>1. Lifecycle!Before(t) = StoryOf(themes[t])
      <4>1. StoryOf(themes[t]) # Absent
        BY <1>2, <2>2, StoryRow
      <4> QED BY <1>1, <4>1 DEF Lifecycle!Before, Stories
    <3> QED BY <2>2, <3>1 DEF StoryOf, Prior
  <2> QED BY <2>1, <2>2
<1>4. CASE Left(t, row)
  <2>1. Stories'[t] = Stories[t]
    BY <1>1, <1>4 DEF Left
  <2>2. Stories[t] = Absent \/ Stories[t].stage \in {"quiet", "barred"}
    BY <1>1, <1>2, <1>4, StageIs DEF Left, StoryOf, Hidden
  <2> QED BY <2>1, <2>2 DEF Lifecycle!Untouched, Stories, Continues
<1>5. CASE judging /\ BarredNow(t, row)
  <2>1. PICK l \in Labels : row = [Prior(t) EXCEPT !.status = "rejected", !.label = l]
    BY <1>5 DEF BarredNow
  <2>2. Prior(t) \in Row
    BY PriorRow
  <2>3. /\ row.status = "rejected" /\ row.named = Prior(t).named
        /\ row.volume = Prior(t).volume /\ row.run = Prior(t).run
    BY <2>1, <2>2 DEF Row
  <2>4. row # Absent /\ ~Prior(t).named
    BY <1>5 DEF BarredNow
  <2>5. Stage(row) = "barred"
    BY <2>3, <2>4, StageIs
  <2>6. Stories'[t] = [stage |-> "barred", named |-> Prior(t).named,
                       volume |-> Prior(t).volume, at |-> Prior(t).run]
    BY <1>1, <2>3, <2>4, <2>5 DEF StoryOf
  <2>7. Stories'[t] = [Lifecycle!Before(t) EXCEPT !.stage = "barred"]
    BY <1>3, <2>6
  <2>8. ~Lifecycle!Before(t).named
    BY <1>3, <2>4
  <2> QED BY <1>5, <2>7, <2>8 DEF Lifecycle!Barred, Stories, Continues
<1>6. CASE MeasuredNow(t, row, r) /\ (judging => Prior(t).status # "rejected")
  <2>1. /\ row \in Row /\ row.run = r /\ row.volume \in Nat
        /\ row.status \in IF row.volume = 0 THEN {"dormant"} ELSE Visible
        /\ Prior(t).named => row.named
    BY <1>6 DEF MeasuredNow
  <2>2. Stories'[t] = [stage |-> Stage(row), named |-> row.named,
                       volume |-> row.volume, at |-> row.run]
    BY <1>1, <2>1, AbsentAssumption DEF StoryOf
  <2>3. Stage(row) = IF row.volume > 0 THEN "shown" ELSE "quiet"
    BY <2>1, StageIs
  <2>4. Lifecycle!Measured(t, r)
    BY <1>3, <2>1, <2>2, <2>3 DEF Lifecycle!Measured, Stories
  <2>5. Stories'[t] # Absent
    BY <1>1, <2>1, StoryRow
  <2>6. judging => Stories[t] = Absent \/ Lifecycle!Before(t).stage # "barred"
    <3>1. CASE themes[t] = Absent
      BY <1>1, <3>1 DEF StoryOf
    <3>2. CASE themes[t] # Absent
      BY <1>2, <1>3, <1>6, <3>2, StageIs DEF Prior
    <3> QED BY <3>1, <3>2
  <2> QED BY <2>4, <2>5, <2>6 DEF Continues
<1> QED BY <1>4, <1>5, <1>6 DEF Follows

LEMMA LifecycleStep ==
    RunInv /\ [Next]_vars => [Lifecycle!Next]_(Lifecycle!vars)
<1> SUFFICES ASSUME RunInv, [Next]_vars PROVE [Lifecycle!Next]_(Lifecycle!vars)
  OBVIOUS
<1>1. CASE UNCHANGED tableVars
  <2>1. Stories' = Stories /\ Latest' = Latest
    BY <1>1 DEF tableVars, Stories, Latest
  <2> QED BY <2>1 DEF Lifecycle!vars, Stories
<1>2. ASSUME NEW w \in Workers, Commit(w) PROVE Lifecycle!Next
  <2>1. At({"address", "publish"}) /\ At({"resolve", "label", "address", "publish"})
    BY <1>2, Holder DEF Commit, At, Running
  <2>2. work.draft \in Rows /\ runs \in 1..MaxRuns /\ themes' = work.draft
    BY <1>2, <2>1 DEF RunInv, WorkInv, Commit
  <2>3. PICK judging \in BOOLEAN : \A t \in SubThemes : Follows(t, work.draft[t], runs, judging)
    BY <2>1 DEF RunInv, WorkInv
  <2>4. Latest' = runs /\ runs \in Latest + 1..MaxRuns
    BY <1>2, CommitStep
  <2>5. ASSUME NEW t \in SubThemes
        PROVE  Continues(t, runs, judging)
    <3> DEFINE row == work.draft[t]
    <3>1. row \in Row \cup {Absent} /\ Follows(t, row, runs, judging) /\ themes'[t] = row
      BY <2>2, <2>3 DEF Rows
    <3> HIDE DEF row
    <3> QED BY <2>2, <3>1, NarrativeStep
  <2>6. Lifecycle!Run(runs, judging)
    BY <2>4, <2>5 DEF Lifecycle!Run, Stories, Continues
  <2> QED BY <2>4, <2>6 DEF Lifecycle!Next
<1>3. CASE DeleteThemes
  <2>1. Latest' = Latest /\ \A t \in SubThemes : themes'[t] \in {themes[t], Absent}
    BY <1>3, DeleteStep
  <2>2. \A t \in SubThemes : Stories'[t] \in {Stories[t], Absent}
    BY <2>1 DEF Stories
  <2>3. Lifecycle!Erase
    BY <2>1, <2>2 DEF Lifecycle!Erase, Stories
  <2> QED BY <2>3 DEF Lifecycle!Next
<1>4. ASSUME NEW w \in Workers, Start(w) \/ Skip(w) \/ NothingFound(w) \/ Cluster(w)
             \/ Resolve(w) \/ Label(w) \/ Vanished(w) \/ Address(w) \/ Publish(w)
             \/ Flush(w) \/ Fail(w) \/ FlushFails(w) \/ Crash(w)
      PROVE  UNCHANGED tableVars
  BY <1>4 DEF Start, Skip, NothingFound, Cluster, Resolve, Label, Vanished, Address, Publish,
              Flush, Fail, FlushFails, Crash, Abandon
<1>5. CASE Consume \/ SetGate \/ SetActive \/ UNCHANGED vars
  BY <1>1, <1>5 DEF Consume, SetGate, SetActive, vars
<1> QED BY <1>1, <1>2, <1>3, <1>4, <1>5 DEF Next

\* Discovery implements NarrativeLifecycle: a commit is a run of the lifecycle, a
\* deletion erases, every other step is none of its business.
THEOREM DiscoveryImplementsLifecycle == Spec => ImplementsLifecycle
<1>1. Init => Lifecycle!Init
  BY DEF Init, Lifecycle!Init, Latest
<1> QED BY <1>1, LifecycleStep, RunInvariant, PTL DEF Spec, ImplementsLifecycle, Lifecycle!Spec
=============================================================================
