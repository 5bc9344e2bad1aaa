------------------------------ MODULE Narratives ------------------------------
(***************************************************************************)
(* The pure rules of narrative discovery (app/tasks/discovery): how a      *)
(* volume becomes a status and a change of status an event (evolution.py), *)
(* and how the clusters of a run share out the sub-themes known before     *)
(* (labeling.py).  Percentages and similarities are in hundredths.         *)
(***************************************************************************)
EXTENDS Integers, Functions, FiniteSetsExt

CONSTANTS
    GrowPct, DeclinePct,    \* subtheme_growing_threshold, _declining_threshold
    RelabelPct,             \* subtheme_relabel_volume_change_threshold
    JaccardAt, CentroidAt,  \* subtheme_jaccard_match_, _centroid_match_threshold
    DriftFloor              \* subtheme_drift_floor

ASSUME NarrativesAssumption ==
    /\ {GrowPct, DeclinePct, RelabelPct} \subseteq Nat \ {0}
    /\ {JaccardAt, CentroidAt, DriftFloor} \subseteq 1..100

NoVolume == -1      \* prev_volume of a sub-theme without a snapshot

Hidden   == {"dormant", "rejected"}
Visible  == {"new", "growing", "steady", "declining", "revival"}
Statuses == Visible \cup Hidden

-----------------------------------------------------------------------------
(* Evolution *)

GrewBy(prev, v, pct) == 100 * (v - prev) >= pct * prev

ClassifyStatus(prev, v) ==
    CASE v = 0                                 -> "dormant"
      [] v > 0 /\ prev = NoVolume              -> "new"
      [] v > 0 /\ prev = 0                     -> "revival"
      [] v > 0 /\ prev > 0 /\ GrewBy(prev, v, GrowPct) -> "growing"
      [] v > 0 /\ prev > 0 /\ 100 * (prev - v) >= DeclinePct * prev -> "declining"
      [] OTHER                                 -> "steady"

\* Mutant of DeriveEvents: a revival is not an event of its own.
DeriveNoRevival(was, is) ==
    CASE is = was                              -> {}
      [] is # was /\ was = "none" /\ is # "dormant" -> {"emerging"}
      [] is # was /\ was # "none" /\ is = "dormant" -> {"disappearing"}
      [] is # was /\ was # "none" /\ is = "growing" -> {"growing"}
      [] OTHER                                 -> {}

\* The event a change of status is worth, at most one; was is "none" for a
\* sub-theme without a snapshot.
DeriveEvents(was, is) ==
    CASE is = was                              -> {}
      [] is # was /\ was = "none" /\ is # "dormant" -> {"emerging"}
      [] is # was /\ was # "none" /\ is = "dormant" -> {"disappearing"}
      [] is # was /\ was # "none" /\ is = "revival" -> {"emerging"}
      [] is # was /\ was # "none" /\ is = "growing" -> {"growing"}
      [] OTHER                                 -> {}

-----------------------------------------------------------------------------
(* Identity *)

IdentityScore(jaccard, cosine) ==
    CASE cosine < DriftFloor                            -> 0
      [] cosine >= DriftFloor /\ jaccard >= JaccardAt   -> 100 + jaccard
      [] cosine >= DriftFloor /\ jaccard < JaccardAt /\ cosine >= CentroidAt -> cosine
      [] OTHER                                          -> 0

\* Partial assignments of clusters to candidates along pairs that score.
Assignments(score, C, K) ==
    {f \in UNION {Injection(S, K) : S \in SUBSET C} :
        \A c \in DOMAIN f : score[<<c, f[c]>>] > 0}

TotalScore(score, f) == MapThenSumSet(LAMBDA c : score[<<c, f[c]>>], DOMAIN f)

\* Mutant of BestAssignments: first come, first served.
GreedyAssignments(score, C, K) ==
    {f \in Assignments(score, C, K) :
        \A c \in C \ DOMAIN f : \A k \in K \ Range(f) : score[<<c, k>>] = 0}

\* linear_sum_assignment, pairs that score nothing dropped: any of the best.
BestAssignments(score, C, K) ==
    LET A == Assignments(score, C, K)
    IN  {f \in A : \A g \in A : TotalScore(score, g) <= TotalScore(score, f)}

BestOf(score, K, c) ==
    CHOOSE k \in K : \A j \in K : score[<<c, j>>] <= score[<<c, k>>]

\* The clusters left over whose best candidate went to another.
Absorbed(score, C, K, f) ==
    {c \in C \ DOMAIN f :
        K # {} /\ LET k == BestOf(score, K, c)
                  IN  score[<<c, k>>] > 0 /\ k \in Range(f)}

=============================================================================
