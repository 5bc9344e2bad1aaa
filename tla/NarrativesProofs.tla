---------------------------- MODULE NarrativesProofs ----------------------------
(***************************************************************************)
(* Theorems about the pure rules of narrative discovery: what a sum over   *)
(* a finite set is, and what the best assignment of clusters to candidates *)
(* leaves nobody to complain about.                                        *)
(***************************************************************************)
EXTENDS Narratives, FiniteSetTheorems, WellFoundedInduction, TLAPS

-----------------------------------------------------------------------------
(* Sums *)

\* h[s] is the sum of the weights w of every set s of elements of D.
Adds(h, w, D) ==
    /\ h[{}] = 0
    /\ \A s \in SUBSET D :
        /\ h[s] \in Nat
        /\ \A x \in s : h[s] = w[x] + h[s \ {x}]

SumsExist(w, D) == \E h \in [SUBSET D -> Nat] : Adds(h, w, D)

\* A set T of finite sets that is not empty has a smallest element.
LEMMA SmallestSet ==
    ASSUME NEW D, IsFiniteSet(D), NEW T \in SUBSET (SUBSET D), T # {}
    PROVE  \E s \in T : \A x \in s : s \ {x} \notin T
<1>1. T \subseteq FiniteSubsetsOf(D)
  BY FS_Subset DEF FiniteSubsetsOf
<1>2. PICK s \in T : \A t \in T : ~ (<<t, s>> \in StrictSubsetOrdering(D))
  BY <1>1, FS_StrictSubsetOrderingWellFounded, WFMin
<1>3. \A x \in s : s \ {x} \in FiniteSubsetsOf(D)
  BY FS_Subset DEF FiniteSubsetsOf
<1> QED BY <1>1, <1>2, <1>3 DEF StrictSubsetOrdering

LEMMA SumsOfOneMore ==
    ASSUME NEW D, NEW w \in [D -> Nat], NEW T \in SUBSET D, NEW x \in T,
           SumsExist(w, T \ {x})
    PROVE  SumsExist(w, T)
<1> DEFINE R == T \ {x}
<1>1. PICK h \in [SUBSET R -> Nat] : Adds(h, w, R)
  BY DEF SumsExist
<1> DEFINE g == [s \in SUBSET T |-> IF x \in s THEN w[x] + h[s \ {x}] ELSE h[s]]
<1>2. \A s \in SUBSET T : s \ {x} \in SUBSET R /\ (x \notin s => s \in SUBSET R)
  OBVIOUS
<1>3. w[x] \in Nat /\ \A s \in SUBSET R : h[s] \in Nat
  OBVIOUS
<1>4. g \in [SUBSET T -> Nat]
  BY <1>2, <1>3
<1>5. g[{}] = 0
  BY <1>1 DEF Adds
<1>6. ASSUME NEW s \in SUBSET T, NEW y \in s PROVE g[s] = w[y] + g[s \ {y}]
  <2>1. CASE y = x
    BY <2>1
  <2>2. CASE y # x /\ x \in s
    <3>1. s \ {x} \in SUBSET R /\ y \in s \ {x}
      BY <2>2
    <3>2. h[s \ {x}] = w[y] + h[(s \ {x}) \ {y}]
      BY <1>1, <3>1 DEF Adds
    <3>3. (s \ {x}) \ {y} = (s \ {y}) \ {x} /\ s \ {y} \in SUBSET T /\ x \in s \ {y}
      BY <2>2
    <3>4. g[s] = w[x] + h[s \ {x}] /\ g[s \ {y}] = w[x] + h[(s \ {x}) \ {y}]
      BY <2>2, <3>3
    <3>5. w[y] \in Nat /\ h[(s \ {x}) \ {y}] \in Nat
      BY <3>1, <1>3
    <3> HIDE DEF g
    <3> QED BY <3>2, <3>4, <3>5, <1>3
  <2>3. CASE x \notin s
    BY <1>1, <1>2, <2>3 DEF Adds
  <2> QED BY <2>1, <2>2, <2>3
<1> HIDE DEF g
<1>7. Adds(g, w, T)
  BY <1>4, <1>5, <1>6 DEF Adds
<1> QED BY <1>4, <1>7 DEF SumsExist

LEMMA SumsExistLemma ==
    ASSUME NEW D, IsFiniteSet(D), NEW w \in [D -> Nat]
    PROVE  SumsExist(w, D)
<1> SUFFICES ASSUME ~ SumsExist(w, D) PROVE FALSE
  OBVIOUS
<1> DEFINE T == {s \in SUBSET D : ~ SumsExist(w, s)}
<1>1. T \in SUBSET (SUBSET D) /\ T # {}
  OBVIOUS
<1>2. PICK s \in T : \A x \in s : s \ {x} \notin T
  <2> HIDE DEF T
  <2> QED BY <1>1, SmallestSet
<1>3. CASE s = {}
  <2> DEFINE h == [t \in SUBSET {} |-> 0]
  <2>1. h \in [SUBSET {} -> Nat] /\ Adds(h, w, {})
    BY DEF Adds
  <2> QED BY <2>1, <1>2, <1>3 DEF SumsExist
<1>4. CASE s # {}
  <2>1. PICK x : x \in s
    BY <1>4
  <2>2. s \in SUBSET D /\ SumsExist(w, s \ {x})
    BY <1>2, <2>1
  <2>3. SumsExist(w, s)
    BY <2>1, <2>2, SumsOfOneMore
  <2> QED BY <1>2, <2>3
<1> QED BY <1>3, <1>4

\* The recursive function behind MapThenSumSet computes the sums.
LEMMA TotalOf ==
    ASSUME NEW D, IsFiniteSet(D), NEW h, NEW w, Adds(h, w, D), NEW score, NEW f,
           DOMAIN f \subseteq D, \A c \in DOMAIN f : score[<<c, f[c]>>] = w[c]
    PROVE  TotalScore(score, f) = h[DOMAIN f]
<1> DEFINE E == DOMAIN f
           Step(g, s) == IF s = {} THEN 0
                         ELSE score[<<CHOOSE x \in s : TRUE, f[CHOOSE x \in s : TRUE]>>]
                                + g[s \ {CHOOSE x \in s : TRUE}]
           iter == CHOOSE g : g = [s \in SUBSET E |-> Step(g, s)]
           sums == [s \in SUBSET E |-> h[s]]
<1>1. TotalScore(score, f) = iter[E]
  BY DEF TotalScore, MapThenSumSet, MapThenFoldSet
<1>2. ASSUME NEW s \in SUBSET E, s # {}
      PROVE  /\ (CHOOSE x \in s : TRUE) \in s
             /\ s \ {CHOOSE x \in s : TRUE} \in SUBSET E
             /\ h[s] = score[<<CHOOSE x \in s : TRUE, f[CHOOSE x \in s : TRUE]>>]
                         + h[s \ {CHOOSE x \in s : TRUE}]
  <2>1. (CHOOSE x \in s : TRUE) \in s
    BY <1>2
  <2> DEFINE x == CHOOSE x \in s : TRUE
  <2>2. x \in s BY <2>1
  <2> HIDE DEF x
  <2>3. s \in SUBSET D /\ h[s] = w[x] + h[s \ {x}]
    BY <2>2 DEF Adds
  <2>4. s \ {x} \in SUBSET E /\ h[s] = score[<<x, f[x]>>] + h[s \ {x}]
    BY <2>2, <2>3
  <2> QED BY <2>2, <2>4 DEF x
<1>3. \A s \in SUBSET E : sums[s] = Step(sums, s)
  BY <1>2 DEF Adds
<1>4. sums = [s \in SUBSET E |-> Step(sums, s)]
  <2> HIDE DEF Step
  <2> QED BY <1>3
<1>5. iter = [s \in SUBSET E |-> Step(iter, s)]
  <2> HIDE DEF Step, sums
  <2> QED BY <1>4
<1>6. ASSUME NEW s \in SUBSET E PROVE iter[s] = Step(iter, s)
  <2> HIDE DEF Step, iter
  <2> QED BY <1>5
<1> HIDE DEF iter, sums
<1>7. \A s \in SUBSET E : iter[s] = h[s]
  <2> SUFFICES ASSUME NEW s0 \in SUBSET E, iter[s0] # h[s0] PROVE FALSE
    OBVIOUS
  <2> DEFINE T == {s \in SUBSET E : iter[s] # h[s]}
  <2>1. T \in SUBSET (SUBSET E) /\ T # {} /\ IsFiniteSet(E)
    BY FS_Subset
  <2>2. PICK s \in T : \A x \in s : s \ {x} \notin T
    <3> HIDE DEF T, E
    <3> QED BY <2>1, SmallestSet
  <2>3. CASE s = {}
    BY <2>2, <2>3, <1>6 DEF Adds
  <2>4. CASE s # {}
    <3> DEFINE x == CHOOSE x \in s : TRUE
    <3>1. s \in SUBSET E
      BY <2>2
    <3>2. x \in s /\ s \ {x} \in SUBSET E /\ h[s] = score[<<x, f[x]>>] + h[s \ {x}]
      BY <3>1, <2>4, <1>2
    <3>3. iter[s \ {x}] = h[s \ {x}]
      <4> HIDE DEF x
      <4> QED BY <2>2, <3>2
    <3>4. iter[s] = score[<<x, f[x]>>] + iter[s \ {x}]
      BY <3>1, <2>4, <1>6
    <3> HIDE DEF x
    <3> QED BY <2>2, <3>2, <3>3, <3>4
  <2> QED BY <2>3, <2>4
<1> QED BY <1>1, <1>7

-----------------------------------------------------------------------------
(* The best assignment *)

ScoreTables(C, K) == [C \X K -> Nat]

LEMMA AssignmentIs ==
    ASSUME NEW score, NEW C, NEW K, NEW f
    PROVE  f \in Assignments(score, C, K) <=>
             /\ DOMAIN f \subseteq C /\ f \in [DOMAIN f -> K]
             /\ \A c, d \in DOMAIN f : f[c] = f[d] => c = d
             /\ \A c \in DOMAIN f : score[<<c, f[c]>>] > 0
BY DEF Assignments, Injection, IsInjective

\* A best assignment in which c has nobody and k nobody could be improved.
LEMMA FreePairIsTaken ==
    ASSUME NEW C, IsFiniteSet(C), NEW K, NEW score \in ScoreTables(C, K),
           NEW f \in BestAssignments(score, C, K), NEW c \in C \ DOMAIN f,
           NEW k \in K, score[<<c, k>>] > 0
    PROVE  \E d \in DOMAIN f : f[d] = k
<1> SUFFICES ASSUME \A d \in DOMAIN f : f[d] # k PROVE FALSE
  OBVIOUS
<1> DEFINE D == DOMAIN f \cup {c}
           g == [x \in D |-> IF x = c THEN k ELSE f[x]]
           w == [x \in D |-> score[<<x, g[x]>>]]
<1>1. f \in Assignments(score, C, K)
  BY DEF BestAssignments
<1>2. /\ DOMAIN f \subseteq C /\ f \in [DOMAIN f -> K]
      /\ \A x, y \in DOMAIN f : f[x] = f[y] => x = y
      /\ \A x \in DOMAIN f : score[<<x, f[x]>>] > 0
  BY <1>1, AssignmentIs
<1>3. g \in Assignments(score, C, K)
  <2>1. /\ DOMAIN g \subseteq C /\ g \in [DOMAIN g -> K]
        /\ \A x, y \in DOMAIN g : g[x] = g[y] => x = y
        /\ \A x \in DOMAIN g : score[<<x, g[x]>>] > 0
    BY <1>2
  <2> HIDE DEF g
  <2> QED BY <2>1, AssignmentIs
<1>4. w \in [D -> Nat] /\ IsFiniteSet(D)
  <2>1. IsFiniteSet(D)
    BY <1>2, FS_Subset
  <2> QED BY <1>2, <2>1 DEF ScoreTables
<1>5. PICK h : Adds(h, w, D)
  BY <1>4, SumsExistLemma DEF SumsExist
<1>6. TotalScore(score, f) = h[DOMAIN f]
  <2>1. DOMAIN f \subseteq D /\ \A x \in DOMAIN f : score[<<x, f[x]>>] = w[x]
    OBVIOUS
  <2> HIDE DEF w, D
  <2> QED BY <1>4, <1>5, <2>1, TotalOf
<1>7. TotalScore(score, g) = h[D]
  <2>1. DOMAIN g = D /\ \A x \in DOMAIN g : score[<<x, g[x]>>] = w[x]
    OBVIOUS
  <2> HIDE DEF w, g, D
  <2> QED BY <1>4, <1>5, <2>1, TotalOf
<1>8. h[D] = w[c] + h[DOMAIN f] /\ w[c] = score[<<c, k>>] /\ h[DOMAIN f] \in Nat
  <2>1. c \in D /\ D \ {c} = DOMAIN f /\ w[c] = score[<<c, k>>]
    OBVIOUS
  <2> HIDE DEF w, D
  <2> QED BY <1>5, <2>1 DEF Adds
<1>9. TotalScore(score, g) <= TotalScore(score, f)
  BY <1>3 DEF BestAssignments
<1>10. score[<<c, k>>] \in Nat
  BY DEF ScoreTables
<1> HIDE DEF g, w, D
<1> QED BY <1>6, <1>7, <1>8, <1>9, <1>10

\* Nor could it be by giving k to c instead of the cluster d that has it.
LEMMA TakenByABetter ==
    ASSUME NEW C, IsFiniteSet(C), NEW K, NEW score \in ScoreTables(C, K),
           NEW f \in BestAssignments(score, C, K), NEW c \in C \ DOMAIN f,
           NEW d \in DOMAIN f, score[<<c, f[d]>>] > 0
    PROVE  score[<<d, f[d]>>] >= score[<<c, f[d]>>]
<1> DEFINE k == f[d]
           R == DOMAIN f \ {d}
           D == DOMAIN f \cup {c}
           N == R \cup {c}
           g == [x \in N |-> IF x = c THEN k ELSE f[x]]
           w == [x \in D |-> IF x = c THEN score[<<c, k>>] ELSE score[<<x, f[x]>>]]
<1>1. f \in Assignments(score, C, K)
  BY DEF BestAssignments
<1>2. /\ DOMAIN f \subseteq C /\ f \in [DOMAIN f -> K]
      /\ \A x, y \in DOMAIN f : f[x] = f[y] => x = y
      /\ \A x \in DOMAIN f : score[<<x, f[x]>>] > 0
  BY <1>1, AssignmentIs
<1>3. g \in Assignments(score, C, K)
  <2>1. /\ DOMAIN g \subseteq C /\ g \in [DOMAIN g -> K]
        /\ \A x, y \in DOMAIN g : g[x] = g[y] => x = y
        /\ \A x \in DOMAIN g : score[<<x, g[x]>>] > 0
    BY <1>2
  <2> HIDE DEF g
  <2> QED BY <2>1, AssignmentIs
<1>4. w \in [D -> Nat] /\ IsFiniteSet(D)
  <2>1. IsFiniteSet(D)
    BY <1>2, FS_Subset
  <2> QED BY <1>2, <2>1 DEF ScoreTables
<1>5. PICK h : Adds(h, w, D)
  BY <1>4, SumsExistLemma DEF SumsExist
<1>6. TotalScore(score, f) = h[DOMAIN f]
  <2>1. DOMAIN f \subseteq D /\ \A x \in DOMAIN f : score[<<x, f[x]>>] = w[x]
    OBVIOUS
  <2> HIDE DEF w, D
  <2> QED BY <1>4, <1>5, <2>1, TotalOf
<1>7. TotalScore(score, g) = h[N]
  <2>1. DOMAIN g = N /\ N \subseteq D /\ \A x \in DOMAIN g : score[<<x, g[x]>>] = w[x]
    OBVIOUS
  <2> HIDE DEF w, g, D, N
  <2> QED BY <1>4, <1>5, <2>1, TotalOf
<1>8. /\ h[DOMAIN f] = score[<<d, k>>] + h[R]
      /\ h[N] = score[<<c, k>>] + h[R]
      /\ h[R] \in Nat
  <2>1. /\ DOMAIN f \in SUBSET D /\ N \in SUBSET D /\ R \in SUBSET D
        /\ d \in DOMAIN f /\ DOMAIN f \ {d} = R /\ w[d] = score[<<d, k>>]
        /\ c \in N /\ N \ {c} = R /\ w[c] = score[<<c, k>>]
    OBVIOUS
  <2> HIDE DEF w, D, N, R
  <2> QED BY <1>5, <2>1 DEF Adds
<1>9. TotalScore(score, g) <= TotalScore(score, f)
  BY <1>3 DEF BestAssignments
<1>10. score[<<c, k>>] \in Nat /\ score[<<d, k>>] \in Nat
  BY <1>2 DEF ScoreTables
<1> HIDE DEF g, w, D, N, R
<1> QED BY <1>6, <1>7, <1>8, <1>9, <1>10

\* The Hungarian match (labeling.py) leaves no cluster with a claim: whenever
\* a cluster without a candidate scores against some candidate k, a cluster
\* that scores at least as much has k.
Justified(score, C, K, f) ==
    \A c \in C \ DOMAIN f, k \in K :
        score[<<c, k>>] > 0 =>
            \E d \in DOMAIN f : f[d] = k /\ score[<<d, k>>] >= score[<<c, k>>]

THEOREM BestIsJustified ==
    ASSUME NEW C, IsFiniteSet(C), NEW K, NEW score \in ScoreTables(C, K),
           NEW f \in BestAssignments(score, C, K)
    PROVE  Justified(score, C, K, f)
<1> SUFFICES ASSUME NEW c \in C \ DOMAIN f, NEW k \in K, score[<<c, k>>] > 0
             PROVE  \E d \in DOMAIN f : f[d] = k /\ score[<<d, k>>] >= score[<<c, k>>]
  BY DEF Justified
<1>1. PICK d \in DOMAIN f : f[d] = k
  BY FreePairIsTaken
<1>2. score[<<d, k>>] >= score[<<c, k>>]
  BY <1>1, TakenByABetter
<1> QED BY <1>1, <1>2

-----------------------------------------------------------------------------
(* There is a best assignment *)

\* A value is largest somewhere on a finite set.
LEMMA SomewhereLargest ==
    ASSUME NEW S, IsFiniteSet(S), S # {}, NEW v \in [S -> Nat]
    PROVE  \E x \in S : \A y \in S : v[y] <= v[x]
<1> DEFINE Peaks(s) == \E x \in s : \A y \in s : v[y] <= v[x]
           T == {s \in SUBSET S : s # {} /\ ~ Peaks(s)}
<1> SUFFICES ASSUME ~ Peaks(S) PROVE FALSE
  OBVIOUS
<1>1. T \in SUBSET (SUBSET S) /\ T # {}
  OBVIOUS
<1>2. PICK s \in T : \A x \in s : s \ {x} \notin T
  <2> HIDE DEF T
  <2> QED BY <1>1, SmallestSet
<1>3. PICK x : x \in s
  OBVIOUS
<1>4. \A y \in s : v[y] \in Nat
  OBVIOUS
<1>5. CASE s \ {x} = {}
  <2>1. \A y \in s : v[y] <= v[x]
    BY <1>3, <1>4, <1>5
  <2> QED BY <1>3, <2>1
<1>6. CASE s \ {x} # {}
  <2>1. Peaks(s \ {x})
    BY <1>2, <1>3, <1>6
  <2>2. PICK z \in s \ {x} : \A y \in s \ {x} : v[y] <= v[z]
    BY <2>1
  <2>3. CASE v[x] <= v[z]
    <3>1. \A y \in s : v[y] <= v[z]
      BY <2>2, <2>3
    <3> QED BY <3>1
  <2>4. CASE v[z] <= v[x]
    <3>1. \A y \in s : v[y] <= v[x]
      BY <1>3, <1>4, <2>2, <2>4
    <3> QED BY <1>3, <3>1
  <2> QED BY <1>3, <1>4, <2>3, <2>4
<1> QED BY <1>5, <1>6

\* An assignment is told by its pairs, and there are finitely many of these.
LEMMA FinitelyManyAssignments ==
    ASSUME NEW score, NEW C, IsFiniteSet(C), NEW K, IsFiniteSet(K)
    PROVE  IsFiniteSet(Assignments(score, C, K))
<1> DEFINE A == Assignments(score, C, K)
           P == SUBSET (C \X K)
           pairs == [f \in A |-> {<<c, f[c]>> : c \in DOMAIN f}]
<1>1. IsFiniteSet(P)
  BY FS_Product, FS_SUBSET
<1>2. \A f \in A : DOMAIN f \subseteq C /\ f \in [DOMAIN f -> K]
  BY AssignmentIs
<1> HIDE DEF A
<1>3. pairs \in [A -> P]
  BY <1>2
<1>4. ASSUME NEW f \in A, NEW g \in A, pairs[f] = pairs[g]
      PROVE  f = g
  <2>1. {<<c, f[c]>> : c \in DOMAIN f} = {<<c, g[c]>> : c \in DOMAIN g}
    BY <1>4
  <2>2. \A c \in DOMAIN f : c \in DOMAIN g /\ f[c] = g[c]
    <3>1. ASSUME NEW c \in DOMAIN f
          PROVE  \E d \in DOMAIN g : <<c, f[c]>> = <<d, g[d]>>
      <4>1. <<c, f[c]>> \in {<<d, f[d]>> : d \in DOMAIN f}
        OBVIOUS
      <4> QED BY <2>1, <4>1
    <3> QED BY <3>1
  <2>3. \A c \in DOMAIN g : c \in DOMAIN f
    <3>1. ASSUME NEW c \in DOMAIN g
          PROVE  \E d \in DOMAIN f : <<c, g[c]>> = <<d, f[d]>>
      <4>1. <<c, g[c]>> \in {<<d, g[d]>> : d \in DOMAIN g}
        OBVIOUS
      <4> QED BY <2>1, <4>1
    <3> QED BY <3>1
  <2>4. DOMAIN f = DOMAIN g
    BY <2>2, <2>3
  <2> QED BY <1>2, <2>2, <2>4
<1> HIDE DEF P, pairs
<1>5. pairs \in Injection(A, P)
  BY <1>3, <1>4 DEF Injection, IsInjective
<1> QED BY <1>1, <1>5, FS_Injection DEF A

LEMMA TotalIsNat ==
    ASSUME NEW C, IsFiniteSet(C), NEW K, NEW score \in ScoreTables(C, K),
           NEW f \in Assignments(score, C, K)
    PROVE  TotalScore(score, f) \in Nat
<1> DEFINE D == DOMAIN f
           w == [c \in D |-> score[<<c, f[c]>>]]
<1>1. D \subseteq C /\ f \in [D -> K]
  BY AssignmentIs
<1>2. IsFiniteSet(D)
  BY <1>1, FS_Subset
<1>3. w \in [D -> Nat]
  BY <1>1 DEF ScoreTables
<1>4. PICK h : Adds(h, w, D)
  BY <1>2, <1>3, SumsExistLemma DEF SumsExist
<1>5. TotalScore(score, f) = h[D]
  <2>1. \A c \in D : score[<<c, f[c]>>] = w[c]
    OBVIOUS
  <2> HIDE DEF w
  <2> QED BY <1>2, <1>4, <2>1, TotalOf
<1> QED BY <1>4, <1>5 DEF Adds

\* However the clusters of a run score against the narratives there are, none of
\* either included, the match has an outcome: the run is never stuck in it.
THEOREM SomeAssignmentIsBest ==
    ASSUME NEW C, IsFiniteSet(C), NEW K, IsFiniteSet(K), NEW score \in ScoreTables(C, K)
    PROVE  BestAssignments(score, C, K) # {}
<1> DEFINE A == Assignments(score, C, K)
           v == [f \in A |-> TotalScore(score, f)]
           nobody == [c \in {} |-> c]
<1>1. nobody \in A
  <2>1. /\ DOMAIN nobody \subseteq C /\ nobody \in [DOMAIN nobody -> K]
        /\ \A c, d \in DOMAIN nobody : nobody[c] = nobody[d] => c = d
        /\ \A c \in DOMAIN nobody : score[<<c, nobody[c]>>] > 0
    OBVIOUS
  <2> HIDE DEF nobody
  <2> QED BY <2>1, AssignmentIs
<1>2. IsFiniteSet(A)
  BY FinitelyManyAssignments
<1>3. v \in [A -> Nat]
  BY TotalIsNat
<1>4. PICK f \in A : \A g \in A : v[g] <= v[f]
  <2> HIDE DEF A, v, nobody
  <2> QED BY <1>1, <1>2, <1>3, SomewhereLargest
<1> QED BY <1>4 DEF BestAssignments
=============================================================================
