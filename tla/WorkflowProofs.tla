---------------------------- MODULE WorkflowProofs ----------------------------
(***************************************************************************)
(* Theorems about the guarded workflow: the arithmetic of FitScoring for   *)
(* any criteria and weights, and the freshness of LeadFit in every         *)
(* behaviour of Orchestration, for any revisions, facts and requests.      *)
(***************************************************************************)
EXTENDS MCWorkflow, FiniteLemmas

-----------------------------------------------------------------------------
(* FitScoring: what rounding keeps.                                        *)

LEMMA DivisionFacts ==
  ASSUME NEW n \in Nat, NEW m \in Nat \ {0}
  PROVE  /\ n \div m \in Nat /\ n % m \in Nat /\ n % m < m
         /\ n = m * (n \div m) + (n % m)
OBVIOUS

(* r is n / m, rounded to the nearest number, a half to the even one.      *)
Nearest(n, m, r) ==
  /\ r \in Nat
  /\ 2 * n <= 2 * (m * r) + m
  /\ 2 * (m * r) <= 2 * n + m
  /\ 2 * n = 2 * (m * r) + m \/ 2 * (m * r) = 2 * n + m => r % 2 = 0

LEMMA RoundedIsNearest ==
  ASSUME NEW n \in Nat, NEW m \in Nat \ {0}
  PROVE  Nearest(n, m, Rounded(n, m))
<1> DEFINE q == n \div m
           s == n % m
           p == m * q
<1>1. q \in Nat /\ s \in Nat /\ s < m /\ n = p + s /\ p \in Nat
  BY DivisionFacts
<1>2. m * (q + 1) = p + m
  BY <1>1
<1>3. Rounded(n, m) = IF 2 * s > m \/ (2 * s = m /\ q % 2 = 1) THEN q + 1 ELSE q
  BY DEF Rounded
<1> HIDE DEF q, s
<1>4. CASE 2 * s > m \/ (2 * s = m /\ q % 2 = 1)
  <2>1. Rounded(n, m) = q + 1 /\ q + 1 \in Nat
    BY <1>1, <1>3, <1>4
  <2>2. 2 * n <= 2 * (p + m) + m /\ 2 * (p + m) <= 2 * n + m
    <3> HIDE DEF p
    <3>1. QED BY <1>1, <1>4
  <2>3. 2 * n = 2 * (p + m) + m \/ 2 * (p + m) = 2 * n + m => (q + 1) % 2 = 0
    <3> HIDE DEF p
    <3>1. QED BY <1>1, <1>4
  <2> HIDE DEF p
  <2>4. QED BY <1>2, <2>1, <2>2, <2>3 DEF Nearest
<1>5. CASE ~(2 * s > m \/ (2 * s = m /\ q % 2 = 1))
  <2>1. Rounded(n, m) = q /\ p = m * q
    BY <1>3, <1>5
  <2> HIDE DEF p
  <2>2. 2 * n <= 2 * p + m /\ 2 * p <= 2 * n + m
    BY <1>1, <1>5
  <2>3. 2 * n = 2 * p + m \/ 2 * p = 2 * n + m => q % 2 = 0
    BY <1>1, <1>5
  <2>4. QED BY <1>1, <2>1, <2>2, <2>3 DEF Nearest
<1>6. QED BY <1>4, <1>5

(* The rounding of a larger quotient is not smaller.                       *)
LEMMA RoundedMonotone ==
  ASSUME NEW n \in Nat, NEW m \in Nat \ {0}, NEW k \in Nat, NEW l \in Nat \ {0},
         n * l <= k * m
  PROVE  Rounded(n, m) <= Rounded(k, l)
<1> DEFINE x == Rounded(n, m)
           y == Rounded(k, l)
           e == m * l
<1>1. Nearest(n, m, x) /\ Nearest(k, l, y)
  BY RoundedIsNearest
<1> HIDE DEF x, y
<1>2. x \in Nat /\ y \in Nat /\ e \in Nat \ {0}
  BY <1>1 DEF Nearest
<1>3. 2 * (e * x) <= 2 * (n * l) + e
  <2>1. 2 * (m * x) <= 2 * n + m
    BY <1>1 DEF Nearest
  <2>2. l * (2 * (m * x)) <= l * (2 * n + m)
    BY <1>2, <2>1
  <2>3. l * (2 * (m * x)) = 2 * (e * x) /\ l * (2 * n + m) = 2 * (n * l) + e
    BY <1>2
  <2>4. QED BY <2>2, <2>3
<1>4. 2 * (k * m) <= 2 * (e * y) + e
  <2>1. 2 * k <= 2 * (l * y) + l
    BY <1>1 DEF Nearest
  <2>2. m * (2 * k) <= m * (2 * (l * y) + l)
    BY <1>2, <2>1
  <2>3. m * (2 * k) = 2 * (k * m) /\ m * (2 * (l * y) + l) = 2 * (e * y) + e
    BY <1>2
  <2>4. QED BY <2>2, <2>3
<1> SUFFICES ASSUME x > y PROVE FALSE
  BY <1>2 DEF x, y
<1>5. e * x \in Nat /\ e * y \in Nat /\ n * l \in Nat /\ k * m \in Nat
  BY <1>2
<1>6. e * x >= e * y + e
  <2>1. e * (y + 1) = e * y + e
    BY <1>2
  <2>2. e * x >= e * (y + 1)
    BY <1>2
  <2>3. QED BY <2>1, <2>2
<1>7. /\ 2 * (e * x) = 2 * (n * l) + e /\ 2 * (k * m) = 2 * (e * y) + e
      /\ e * x = e * y + e
  <2> HIDE DEF e
  <2>1. QED BY <1>2, <1>3, <1>4, <1>5, <1>6
<1>8. x = y + 1
  <2>1. e * (x - y - 1) = 0
    BY <1>2, <1>7
  <2>2. x - y - 1 \in Nat
    BY <1>2
  <2>3. QED BY <1>2, <2>1, <2>2
<1>9. 2 * (m * x) = 2 * n + m
  <2>1. l * (2 * (m * x)) = l * (2 * n + m)
    BY <1>2, <1>7
  <2>2. QED BY <1>2, <2>1
<1>10. 2 * k = 2 * (l * y) + l
  <2>1. m * (2 * k) = m * (2 * (l * y) + l)
    BY <1>2, <1>7
  <2>2. QED BY <1>2, <2>1
<1>11. x % 2 = 0 /\ y % 2 = 0
  BY <1>1, <1>9, <1>10 DEF Nearest
<1>12. QED BY <1>2, <1>8, <1>11

-----------------------------------------------------------------------------
(* FitScoring: the weights of the criteria and their sums.                 *)

Tables == [CriterionIds -> Criterion]

Weighs(t) == [i \in CriterionIds |-> t[i].weight]

LEMMA WeightIsTotal ==
  ASSUME NEW t \in Tables, NEW I \in SUBSET CriterionIds
  PROVE  Weight(t, I) = Total(Weighs(t), I)
<1> DEFINE F == Weighs(t)
           Summed(it) ==
             it = [s \in SUBSET I |->
                     IF s = {} THEN 0 ELSE t[Taken(s)].weight + it[s \ {Taken(s)}]]
<1>1. Weight(t, I) = (CHOOSE it : Summed(it))[I]
  BY DEF Weight, MapThenSumSet, MapThenFoldSet, Taken
<1>2. \A i \in I : F[i] = t[i].weight /\ F[i] \in Nat
  BY ScoringAssumption DEF Weighs, Tables, Criterion
<1>3. IsFiniteSet(I)
  BY ScoringAssumption, FS_Subset
<1> HIDE DEF F
<1>4. \A it : Summed(it) <=> Sums(it, F, I)
  <2> SUFFICES ASSUME NEW it PROVE Summed(it) <=> Sums(it, F, I)
    OBVIOUS
  <2>1. \A s \in SUBSET I :
          (IF s = {} THEN 0 ELSE t[Taken(s)].weight + it[s \ {Taken(s)}])
          = (IF s = {} THEN 0 ELSE F[Taken(s)] + it[s \ {Taken(s)}])
    BY <1>2, TakenIsElement
  <2>2. [s \in SUBSET I |->
           IF s = {} THEN 0 ELSE t[Taken(s)].weight + it[s \ {Taken(s)}]]
        = [s \in SUBSET I |-> IF s = {} THEN 0 ELSE F[Taken(s)] + it[s \ {Taken(s)}]]
    BY <2>1
  <2>3. QED BY <2>2 DEF Sums
<1>5. \E it : Summed(it)
  BY <1>3, <1>4, SumsExists
<1>6. Summed(CHOOSE it : Summed(it))
  <2> HIDE DEF Summed
  <2>1. QED BY <1>5
<1> HIDE DEF Summed
<1>7. Sums(CHOOSE it : Summed(it), F, I)
  BY <1>4, <1>6
<1>8. PICK ti : Sums(ti, F, I) /\ Total(F, I) = ti[I]
  BY <1>3, TotalSums
<1>9. (CHOOSE it : Summed(it))[I] = ti[I]
  BY <1>2, <1>3, <1>7, <1>8, SumsAgree
<1>10. QED BY <1>1, <1>8, <1>9 DEF F

(* Sums grow with the criteria, and are positive but for none.             *)
LEMMA WeightFacts ==
  ASSUME NEW t \in Tables
  PROVE  /\ \A I \in SUBSET CriterionIds :
              /\ Weight(t, I) \in Nat
              /\ I # {} => Weight(t, I) # 0
              /\ \A i \in I : Weight(t, I) = t[i].weight + Weight(t, I \ {i})
              /\ \A J \in SUBSET I : Weight(t, J) <= Weight(t, I)
         /\ Weight(t, {}) = 0
         /\ \A i \in CriterionIds : t[i].weight \in Nat \ {0}
<1> DEFINE w == Weighs(t)
<1>1. \A i \in CriterionIds : w[i] = t[i].weight /\ w[i] \in Nat \ {0}
  BY ScoringAssumption DEF Weighs, Tables, Criterion
<1>2. \A I \in SUBSET CriterionIds : Weight(t, I) = Total(w, I) /\ IsFiniteSet(I)
  BY WeightIsTotal, ScoringAssumption, FS_Subset
<1> HIDE DEF w
<1>3. \A I \in SUBSET CriterionIds :
        /\ Total(w, I) \in Nat
        /\ I = {} => Total(w, I) = 0
        /\ \A i \in I : Total(w, I) = w[i] + Total(w, I \ {i})
  <2>1. IsFiniteSet(CriterionIds) /\ \A i \in CriterionIds : w[i] \in Nat
    BY <1>1, ScoringAssumption
  <2>2. QED BY <2>1, TotalOfSome
<1>4. ASSUME NEW I \in SUBSET CriterionIds, NEW J \in SUBSET I
      PROVE  Total(w, J) <= Total(w, I)
  <2>1. \A i \in I : w[i] \in Nat
    BY <1>1
  <2>2. QED BY <1>2, <2>1, TotalMonotone
<1>5. ASSUME NEW I \in SUBSET CriterionIds, I # {} PROVE Total(w, I) # 0
  <2>1. PICK i \in I : TRUE
    BY <1>5
  <2>2. Total(w, I) = w[i] + Total(w, I \ {i}) /\ Total(w, I \ {i}) \in Nat
    BY <1>3
  <2>3. QED BY <1>1, <2>2
<1>6. \A I \in SUBSET CriterionIds : \A i \in I :
        Weight(t, I) = t[i].weight + Weight(t, I \ {i})
  BY <1>1, <1>2, <1>3
<1>7. \A I \in SUBSET CriterionIds : \A J \in SUBSET I : Weight(t, J) <= Weight(t, I)
  BY <1>2, <1>4
<1>8. QED BY <1>1, <1>2, <1>3, <1>5, <1>6, <1>7

(* A share of the whole, in percent.                                       *)
LEMMA PercentFacts ==
  ASSUME NEW n \in Nat, NEW m \in Nat \ {0}, n <= m
  PROVE  Rounded(100 * n, m) \in 0 .. 100
<1>1. Rounded(100 * n, m) <= Rounded(100, 1)
  BY RoundedMonotone
<1>2. Rounded(100, 1) = 100
  BY DEF Rounded
<1>3. Rounded(100 * n, m) \in Nat
  BY RoundedIsNearest DEF Nearest
<1>4. QED BY <1>1, <1>2, <1>3

(* Every score is one, and so is its sum with the others.                  *)
LEMMA ScoreFacts ==
  ASSUME NEW t \in Tables
  PROVE  /\ FitScore(t) \in 0 .. 100 /\ Coverage(t) \in 0 .. 100
         /\ Confidence(t) \in {30, 60, 100}
<1> DEFINE usable == Weight(t, Known(t))
           matched == Weight(t, With(t, "MATCH"))
           all == Weight(t, CriterionIds)
<1>1. /\ Known(t) \in SUBSET CriterionIds /\ With(t, "MATCH") \in SUBSET Known(t)
      /\ CriterionIds \in SUBSET CriterionIds
  BY DEF Known, With
<1>2. /\ usable \in Nat /\ matched \in Nat /\ all \in Nat
      /\ matched <= usable /\ usable <= all
      /\ Known(t) # {} => usable # 0
      /\ CriterionIds # {} => all # 0
  BY <1>1, WeightFacts
<1>3. Known(t) # {} => Rounded(100 * matched, usable) \in 0 .. 100
  <2> HIDE DEF usable, matched, all
  <2>1. QED BY <1>2, PercentFacts
<1>4. CriterionIds # {} => Rounded(100 * usable, all) \in 0 .. 100
  <2> HIDE DEF usable, matched, all
  <2>1. QED BY <1>2, PercentFacts
<1>5. FitScore(t) \in 0 .. 100
  BY <1>3 DEF FitScore
<1>6. Coverage(t) \in 0 .. 100
  BY <1>4 DEF Coverage
<1>7. Confidence(t) \in {30, 60, 100}
  BY DEF Confidence
<1>8. QED BY <1>5, <1>6, <1>7

(* All shares are whole and even in tenths: no sum is a half.              *)
Tenths(t) == 6 * FitScore(t) + 2 * Coverage(t) + Confidence(t) + 100

LEMMA LeadScoreIsOne ==
  ASSUME NEW t \in Tables
  PROVE  /\ Tenths(t) \in 0 .. 1000
         /\ QualificationScores(t, TRUE) = {Rounded(Tenths(t), 10)}
         /\ Rounded(Tenths(t), 10) \in 0 .. 100
<1>1. /\ FitScore(t) \in 0 .. 100 /\ Coverage(t) \in 0 .. 100
      /\ Confidence(t) \in {30, 60, 100}
  BY ScoreFacts
<1>2. Tenths(t) \in 0 .. 1000 /\ Tenths(t) % 10 # 5
  <2> DEFINE f == FitScore(t)
             c == Coverage(t)
             e == Confidence(t)
  <2>1. Tenths(t) = 6 * f + 2 * c + e + 100
    BY DEF Tenths
  <2>2. f \in Nat /\ c \in Nat /\ e \in Nat /\ f <= 100 /\ c <= 100 /\ e <= 100
    BY <1>1
  <2>3. PICK h \in Nat : e = 2 * h
    BY <1>1
  <2> HIDE DEF f, c, e
  <2>4. Tenths(t) = 2 * (3 * f + c + h + 50) /\ 3 * f + c + h + 50 \in Nat
    BY <2>1, <2>2, <2>3
  <2>5. \A n \in Nat : (2 * n) % 10 # 5
    OBVIOUS
  <2>6. QED BY <2>1, <2>2, <2>4, <2>5
<1>3. QualificationScores(t, TRUE) = {Rounded(Tenths(t), 10)}
  BY <1>1, <1>2 DEF QualificationScores, Tenths
<1>4. Rounded(Tenths(t), 10) \in 0 .. 100
  <2> HIDE DEF Tenths
  <2>1. \A n \in 0 .. 1000 : Rounded(n, 10) \in 0 .. 100
    BY DEF Rounded
  <2>2. QED BY <1>2, <2>1
<1>5. QED BY <1>2, <1>3, <1>4

LEMMA GradeFacts ==
  ASSUME NEW t
  PROVE  FitGrade(t) \in {"A", "B", "C", "D", "UNKNOWN"}
BY DEF FitGrade

LEMMA ScoringInvariant == ScoringSpec => [](results \in Tables)
<1>1. ScoringInit => results \in Tables
  BY DEF ScoringInit, Tables
<1>2. results \in Tables /\ [ScoringNext]_results => (results \in Tables)'
  BY DEF ScoringNext, Learn, Tables
<1>3. QED BY <1>1, <1>2, PTL DEF ScoringSpec

LEMMA TablesAreTyped == results \in Tables => ScoringTypeOK
<1> SUFFICES ASSUME results \in Tables PROVE ScoringTypeOK
  OBVIOUS
<1>1. FitScore(results) \in 0 .. 100 /\ Coverage(results) \in 0 .. 100
  BY ScoreFacts
<1>2. QualificationScores(results, TRUE) \subseteq 0 .. 100
  <2>1. /\ QualificationScores(results, TRUE) = {Rounded(Tenths(results), 10)}
        /\ Rounded(Tenths(results), 10) \in 0 .. 100
    BY LeadScoreIsOne
  <2>2. QED BY <2>1
<1>3. QED BY <1>1, <1>2, GradeFacts DEF ScoringTypeOK, Tables

LEMMA ActionableFacts ==
  ASSUME NEW t \in Tables, Statuses(t, TRUE) \cap Actionable # {}
  PROVE  /\ ~RequiredHas(t, "NO_MATCH") /\ ~RequiredHas(t, "UNKNOWN")
         /\ Coverage(t) >= 50
         /\ ~EvidenceIs(t, "STALE") /\ ~EvidenceIs(t, "CONFLICTED")
<1>1. PICK score : LeadStatus(t, TRUE, score) \in Actionable
  BY DEF Statuses
<1>2. /\ ~RequiredHas(t, "NO_MATCH") /\ ~RequiredHas(t, "UNKNOWN") /\ ~(Coverage(t) < 50)
      /\ FitStatus(t) \notin {"NEEDS_MORE_RESEARCH", "CONFLICTED", "STALE"}
  BY <1>1 DEF LeadStatus, Actionable
<1>3. ~EvidenceIs(t, "STALE") /\ ~EvidenceIs(t, "CONFLICTED")
  BY <1>2 DEF FitStatus
<1>4. Coverage(t) >= 50
  BY <1>2, ScoreFacts
<1>5. QED BY <1>2, <1>3, <1>4

(* Half of the weight, but for what rounding the share up may hide.        *)
LEMMA HalfIsKnown ==
  ASSUME NEW n \in Nat, NEW m \in Nat \ {0}, Rounded(100 * n, m) >= 50
  PROVE  200 * n >= 99 * m
<1> DEFINE r == Rounded(100 * n, m)
<1>1. r \in Nat /\ 2 * (m * r) <= 2 * (100 * n) + m /\ r >= 50
  BY RoundedIsNearest DEF Nearest
<1> HIDE DEF r
<1>2. m * r >= m * 50
  BY <1>1
<1>3. m * r \in Nat
  BY <1>1
<1> DEFINE p == m * r
<1>4. p \in Nat /\ p >= 50 * m /\ 2 * p <= 200 * n + m
  BY <1>1, <1>2, <1>3
<1> HIDE DEF p
<1>5. QED BY <1>4

(* A lead is only actionable on good evidence, whatever the weights and    *)
(* the score: FitAssessmentService and LeadQualificationService.           *)
THEOREM ActionableIsAlwaysEvidenced == ScoringSpec => []ActionableIsEvidenced
<1>1. results \in Tables => ActionableIsEvidenced
  <2> SUFFICES ASSUME results \in Tables, Statuses(results, TRUE) \cap Actionable # {}
               PROVE  /\ \A i \in CriterionIds :
                           results[i].required => results[i].outcome.result = "MATCH"
                      /\ 200 * Weight(results, Known(results))
                           >= 99 * Weight(results, CriterionIds)
                      /\ ~EvidenceIs(results, "STALE")
                      /\ ~EvidenceIs(results, "CONFLICTED")
    BY DEF ActionableIsEvidenced
  <2> DEFINE usable == Weight(results, Known(results))
             all == Weight(results, CriterionIds)
  <2>1. /\ ~RequiredHas(results, "NO_MATCH") /\ ~RequiredHas(results, "UNKNOWN")
        /\ Coverage(results) >= 50
        /\ ~EvidenceIs(results, "STALE") /\ ~EvidenceIs(results, "CONFLICTED")
    BY ActionableFacts
  <2>2. \A i \in CriterionIds :
          results[i].required => results[i].outcome.result = "MATCH"
    BY <2>1 DEF RequiredHas, With, Tables, Criterion
  <2>3. CriterionIds # {} /\ Coverage(results) = Rounded(100 * usable, all)
    BY <2>1 DEF Coverage
  <2>4. usable \in Nat /\ all \in Nat /\ all # 0
    <3>1. Known(results) \in SUBSET CriterionIds /\ CriterionIds \in SUBSET CriterionIds
      BY DEF Known
    <3>2. QED BY <2>3, <3>1, WeightFacts
  <2> HIDE DEF usable, all
  <2>5. 200 * usable >= 99 * all
    BY <2>1, <2>3, <2>4, HalfIsKnown
  <2>6. QED BY <2>1, <2>2, <2>5 DEF usable, all
<1>2. QED BY <1>1, ScoringInvariant, PTL

-----------------------------------------------------------------------------
(* FitScoring: an unknown criterion i of t turns out to match in u.        *)

Confirms(t, u, i) ==
  /\ t \in Tables /\ u \in Tables /\ i \in CriterionIds
  /\ \A j \in CriterionIds \ {i} : u[j] = t[j]
  /\ u[i].weight = t[i].weight /\ u[i].required = t[i].required
  /\ t[i].outcome.result = "UNKNOWN"
  /\ u[i].outcome = [result |-> "MATCH", quality |-> "CURRENT"]

LEMMA ConfirmedSets ==
  ASSUME NEW t, NEW u, NEW i, Confirms(t, u, i)
  PROVE  /\ With(u, "MATCH") = With(t, "MATCH") \cup {i} /\ i \notin With(t, "MATCH")
         /\ Known(u) = Known(t) \cup {i} /\ i \notin Known(t)
         /\ RequiredHas(u, "NO_MATCH") = RequiredHas(t, "NO_MATCH")
         /\ RequiredHas(u, "UNKNOWN") => RequiredHas(t, "UNKNOWN")
         /\ EvidenceIs(u, "CONFLICTED") => EvidenceIs(t, "CONFLICTED")
         /\ EvidenceIs(u, "STALE") => EvidenceIs(t, "STALE")
<1> USE DEF Confirms
<1>1. /\ With(u, "MATCH") = With(t, "MATCH") \cup {i} /\ i \notin With(t, "MATCH")
      /\ With(u, "NO_MATCH") = With(t, "NO_MATCH") /\ i \notin With(t, "NO_MATCH")
      /\ With(u, "UNKNOWN") = With(t, "UNKNOWN") \ {i} /\ i \in With(t, "UNKNOWN")
  BY DEF With
<1>2. \A r : \A j \in With(u, r) \ {i} : u[j].required = t[j].required
  BY DEF With
<1>3. Known(u) = Known(t) \cup {i} /\ i \notin Known(t)
  BY <1>1 DEF Known
<1>4. RequiredHas(u, "NO_MATCH") = RequiredHas(t, "NO_MATCH")
  BY <1>1, <1>2 DEF RequiredHas
<1>5. RequiredHas(u, "UNKNOWN") => RequiredHas(t, "UNKNOWN")
  BY <1>1, <1>2 DEF RequiredHas
<1>6. /\ EvidenceIs(u, "CONFLICTED") => EvidenceIs(t, "CONFLICTED")
      /\ EvidenceIs(u, "STALE") => EvidenceIs(t, "STALE")
  BY DEF EvidenceIs
<1>7. QED BY <1>1, <1>3, <1>4, <1>5, <1>6

Percent(n, m) == Rounded(100 * n, m)

(* A share of at most the whole grows with both, and with itself.          *)
LEMMA ShareGrows ==
  ASSUME NEW n \in Nat, NEW m \in Nat \ {0}, NEW w \in Nat, n <= m
  PROVE  /\ Percent(n, m) <= Percent(n + w, m + w)
         /\ Percent(n, m) <= Percent(n + w, m)
<1>1. (100 * n) * (m + w) <= (100 * (n + w)) * m
  <2>1. n * w <= m * w /\ n * w \in Nat /\ m * w \in Nat /\ n * m \in Nat
    BY DEF Nat
  <2>2. /\ (100 * n) * (m + w) = 100 * (n * m) + 100 * (n * w)
        /\ (100 * (n + w)) * m = 100 * (n * m) + 100 * (m * w)
    OBVIOUS
  <2>3. QED BY <2>1, <2>2
<1>2. (100 * n) * m <= (100 * (n + w)) * m
  <2>1. (100 * (n + w)) * m = (100 * n) * m + 100 * (w * m)
    OBVIOUS
  <2>2. w * m \in Nat /\ (100 * n) * m \in Nat
    OBVIOUS
  <2>3. QED BY <2>1, <2>2
<1>3. 100 * n \in Nat /\ 100 * (n + w) \in Nat /\ m + w \in Nat \ {0}
  OBVIOUS
<1>4. Rounded(100 * n, m) <= Rounded(100 * (n + w), m + w)
  BY <1>1, <1>3, RoundedMonotone
<1>5. Rounded(100 * n, m) <= Rounded(100 * (n + w), m)
  BY <1>2, <1>3, RoundedMonotone
<1>6. QED BY <1>4, <1>5 DEF Percent

LEMMA ConfirmedScores ==
  ASSUME NEW t, NEW u, NEW i, Confirms(t, u, i), ~RequiredHas(t, "NO_MATCH")
  PROVE  FitScore(t) <= FitScore(u) /\ Coverage(t) <= Coverage(u)
<1> DEFINE usable == Weight(t, Known(t))
           matched == Weight(t, With(t, "MATCH"))
           all == Weight(t, CriterionIds)
           w == t[i].weight
<1>0. t \in Tables /\ u \in Tables /\ i \in CriterionIds
  BY DEF Confirms
<1>1. Weighs(u) = Weighs(t)
  BY DEF Confirms, Weighs
<1>2. \A I \in SUBSET CriterionIds : Weight(u, I) = Weight(t, I)
  BY <1>0, <1>1, WeightIsTotal
<1>3. /\ Known(t) \in SUBSET CriterionIds /\ With(t, "MATCH") \in SUBSET Known(t)
      /\ CriterionIds \in SUBSET CriterionIds
      /\ Known(u) \in SUBSET CriterionIds /\ With(u, "MATCH") \in SUBSET CriterionIds
  BY DEF Known, With
<1>4. /\ usable \in Nat /\ matched \in Nat /\ all \in Nat
      /\ matched <= usable /\ usable <= all
      /\ Known(t) # {} => usable # 0
      /\ all # 0 /\ w \in Nat \ {0}
  BY <1>0, <1>3, WeightFacts
<1>5. /\ Weight(u, Known(u)) = usable + w
      /\ Weight(u, With(u, "MATCH")) = matched + w
      /\ Weight(u, CriterionIds) = all
  <2>1. /\ i \in Known(u) /\ Known(u) \ {i} = Known(t)
        /\ i \in With(u, "MATCH") /\ With(u, "MATCH") \ {i} = With(t, "MATCH")
    BY ConfirmedSets
  <2>2. /\ Weight(t, Known(u)) = w + usable
        /\ Weight(t, With(u, "MATCH")) = w + matched
    BY <1>0, <1>3, <2>1, WeightFacts
  <2>3. QED BY <1>2, <1>3, <1>4, <2>2
<1>6. Known(u) # {} /\ ~RequiredHas(u, "NO_MATCH")
  BY ConfirmedSets
<1>7. FitScore(u) = Percent(matched + w, usable + w)
  BY <1>5, <1>6 DEF FitScore, Percent
<1>8. FitScore(t) = IF Known(t) = {} THEN 0 ELSE Percent(matched, usable)
  BY DEF FitScore, Percent
<1>9. Coverage(u) = Percent(usable + w, all) /\ Coverage(t) = Percent(usable, all)
  BY <1>0, <1>5 DEF Coverage, Percent
<1>10. FitScore(u) \in Nat
  BY <1>0, ScoreFacts
<1> HIDE DEF usable, matched, all, w
<1>11. Coverage(t) <= Coverage(u)
  BY <1>4, <1>9, ShareGrows
<1>12. FitScore(t) <= FitScore(u)
  <2>1. CASE Known(t) = {}
    BY <1>8, <1>10, <2>1
  <2>2. CASE Known(t) # {}
    <3>1. usable \in Nat \ {0}
      BY <1>4, <2>2
    <3>2. Percent(matched, usable) <= Percent(matched + w, usable + w)
      BY <1>4, <3>1, ShareGrows
    <3>3. QED BY <1>7, <1>8, <2>2, <3>2
  <2>3. QED BY <2>1, <2>2
<1>13. QED BY <1>11, <1>12

LEMMA ConfirmedStatus ==
  ASSUME NEW t, NEW u, NEW i, Confirms(t, u, i),
         NEW old \in Statuses(t, TRUE), NEW new \in Statuses(u, TRUE)
  PROVE  Rank(new) >= Rank(old)
<1> DEFINE x == Rounded(Tenths(t), 10)
           y == Rounded(Tenths(u), 10)
<1>0. t \in Tables /\ u \in Tables
  BY DEF Confirms
<1>1. old = LeadStatus(t, TRUE, x) /\ new = LeadStatus(u, TRUE, y)
  <2>1. /\ QualificationScores(t, TRUE) = {x}
        /\ QualificationScores(u, TRUE) = {y}
    BY <1>0, LeadScoreIsOne
  <2> HIDE DEF x, y
  <2>2. QED BY <2>1 DEF Statuses
<1>2. CASE old \notin Actionable
  BY <1>2 DEF Rank, Actionable
<1>3. CASE old \in Actionable
  <2>1. /\ ~RequiredHas(t, "NO_MATCH") /\ ~RequiredHas(t, "UNKNOWN")
        /\ Coverage(t) >= 50
        /\ ~EvidenceIs(t, "STALE") /\ ~EvidenceIs(t, "CONFLICTED")
    BY <1>0, <1>3, ActionableFacts
  <2>2. FitScore(t) <= FitScore(u) /\ Coverage(t) <= Coverage(u)
    BY <2>1, ConfirmedScores
  <2>3. /\ FitScore(t) \in Nat /\ FitScore(u) \in Nat
        /\ Coverage(t) \in Nat /\ Coverage(u) \in Nat
    BY <1>0, ScoreFacts
  <2>4. Confidence(t) <= Confidence(u)
    BY <2>2, <2>3, <1>0, ScoreFacts DEF Confidence
  <2>5. x <= y /\ x \in Nat /\ y \in Nat
    <3>1. Confidence(t) \in Nat /\ Confidence(u) \in Nat
      BY <1>0, ScoreFacts
    <3>2. Tenths(t) \in Nat /\ Tenths(u) \in Nat /\ Tenths(t) <= Tenths(u)
      BY <2>2, <2>3, <2>4, <3>1 DEF Tenths
    <3>3. \A n, k \in Nat : n <= k =>
            /\ Rounded(n, 10) <= Rounded(k, 10)
            /\ Rounded(n, 10) \in Nat /\ Rounded(k, 10) \in Nat
      BY DEF Rounded
    <3> HIDE DEF Tenths
    <3>4. QED BY <3>2, <3>3
  <2>6. /\ ~RequiredHas(u, "NO_MATCH") /\ ~RequiredHas(u, "UNKNOWN")
        /\ ~(Coverage(u) < 50)
        /\ FitStatus(u) \notin {"NEEDS_MORE_RESEARCH", "CONFLICTED", "STALE"}
    <3>1. /\ ~RequiredHas(u, "NO_MATCH") /\ ~RequiredHas(u, "UNKNOWN")
          /\ ~EvidenceIs(u, "STALE") /\ ~EvidenceIs(u, "CONFLICTED")
      BY <2>1, ConfirmedSets
    <3>2. QED BY <2>1, <2>2, <2>3, <3>1 DEF FitStatus
  <2> HIDE DEF x, y
  <2>7. new = IF y >= 80 /\ FitScore(u) >= 80 /\ Coverage(u) >= 80
              THEN "HIGH_PRIORITY"
              ELSE IF y >= 60 THEN "QUALIFIED"
              ELSE IF FitScore(u) < 40 /\ Coverage(u) >= 50
              THEN "NOT_QUALIFIED" ELSE "NURTURE"
    BY <1>1, <2>6 DEF LeadStatus
  <2>8. CASE old = "HIGH_PRIORITY"
    <3>1. x >= 80 /\ FitScore(t) >= 80 /\ Coverage(t) >= 80
      BY <1>1, <2>8 DEF LeadStatus
    <3>2. new = "HIGH_PRIORITY"
      BY <2>2, <2>3, <2>5, <2>7, <3>1
    <3>3. QED BY <2>8, <3>2 DEF Rank
  <2>9. CASE old = "QUALIFIED"
    <3>1. x >= 60
      BY <1>1, <2>9 DEF LeadStatus
    <3>2. new \in {"HIGH_PRIORITY", "QUALIFIED"}
      BY <2>5, <2>7, <3>1
    <3>3. QED BY <2>9, <3>2 DEF Rank
  <2>10. QED BY <1>3, <2>8, <2>9 DEF Actionable
<1>4. QED BY <1>2, <1>3

(* Good news never hurts: a criterion that turns out to match, by current  *)
(* evidence, does not take a lead down, through all rounding and caps.     *)
THEOREM ConfirmationNeverHurts == ScoringSpec => ConfirmationNeverDemotes
<1> DEFINE Good == \A i \in CriterionIds :
             /\ results[i].outcome.result = "UNKNOWN"
             /\ results'[i].outcome = [result |-> "MATCH", quality |-> "CURRENT"]
             => \A old \in Statuses(results, TRUE), new \in Statuses(results', TRUE) :
                  Rank(new) >= Rank(old)
<1>1. ASSUME results \in Tables, ScoringNext PROVE Good
  <2> SUFFICES ASSUME NEW i \in CriterionIds,
                      results[i].outcome.result = "UNKNOWN",
                      results'[i].outcome = [result |-> "MATCH", quality |-> "CURRENT"],
                      NEW old \in Statuses(results, TRUE),
                      NEW new \in Statuses(results', TRUE)
               PROVE  Rank(new) >= Rank(old)
    OBVIOUS
  <2>1. PICK j \in CriterionIds, row \in Criterion : Learn(j, row)
    BY <1>1 DEF ScoringNext
  <2>2. results' \in Tables /\ \A k \in CriterionIds \ {j} : results'[k] = results[k]
    BY <1>1, <2>1 DEF Learn, Tables
  <2>3. j = i
    BY <2>2
  <2>4. results'[i].weight = results[i].weight /\ results'[i].required = results[i].required
    BY <1>1, <2>1, <2>3 DEF Learn, Tables
  <2>5. Confirms(results, results', i)
    BY <1>1, <2>2, <2>3, <2>4 DEF Confirms
  <2>6. QED BY <2>5, ConfirmedStatus
<1>2. results \in Tables /\ [ScoringNext]_results => [Good]_results
  BY <1>1
<1>3. QED BY <1>2, ScoringInvariant, PTL DEF ScoringSpec, ConfirmationNeverDemotes

-----------------------------------------------------------------------------
(* LeadFit: what an ORDER BY finds.                                        *)

LEMMA MaxExists ==
  ASSUME NEW S, S \subseteq Nat, IsFiniteSet(S), S # {}
  PROVE  \E m \in S : \A x \in S : x <= m
<1> DEFINE R == {e \in S \X S : e[1] < e[2]}
<1>1. Orders(R, S)
  BY DEF Orders
<1>2. \E m \in S : \A x \in S \ {m} : <<x, m>> \in R
  <2> HIDE DEF R
  <2>1. \A T \in SUBSET S : T # {} => \E m \in T : \A x \in T \ {m} : <<x, m>> \in R
     BY <1>1, LastExists
  <2>2. S \in SUBSET S
    OBVIOUS
  <2>3. QED BY <2>1, <2>2
<1>3. PICK m \in S : \A x \in S \ {m} : <<x, m>> \in R
  BY <1>2
<1>4. \A x \in S : x \in Int
  OBVIOUS
<1>5. \A x \in S \ {m} : x < m
  BY <1>3, <1>4
<1>6. QED BY <1>4, <1>5

(* The first by one number, then by another that tells all apart, comes    *)
(* before all others.                                                      *)
LEMMA TopExists ==
  ASSUME NEW S, IsFiniteSet(S), S # {},
         NEW first, NEW second, \A x \in S : first[x] \in Nat /\ second[x] \in Nat,
         \A x, y \in S : second[x] = second[y] => x = y
  PROVE  \E m \in S : \A x \in S \ {m} :
           first[m] > first[x] \/ (first[m] = first[x] /\ second[m] > second[x])
<1> DEFINE R == {e \in S \X S : \/ first[e[2]] > first[e[1]]
                                \/ /\ first[e[2]] = first[e[1]]
                                   /\ second[e[2]] > second[e[1]]}
<1>1. Orders(R, S)
  <2>1. \A x \in S : <<x, x>> \notin R
    OBVIOUS
  <2>2. \A x, y \in S : x # y => <<x, y>> \in R \/ <<y, x>> \in R
    OBVIOUS
  <2>3. \A x, y, z \in S : <<x, y>> \in R /\ <<y, z>> \in R => <<x, z>> \in R
    OBVIOUS
  <2>4. QED BY <2>1, <2>2, <2>3 DEF Orders
<1>2. PICK m \in S : \A x \in S \ {m} : <<x, m>> \in R
  <2> HIDE DEF R
  <2>1. QED BY <1>1, LastExists
<1>3. QED BY <1>2

(* Rows that were written one at a time, until now.                        *)
Apart(S, now) ==
  /\ \A x \in S : x.at \in 0 .. now
  /\ \A x, y \in S : x.at = y.at => x = y

LEMMA LatestFacts ==
  ASSUME NEW now \in Nat, NEW S, Apart(S, now), S # {}
  PROVE  Latest(S) \in S
<1> DEFINE T == {x.at : x \in S}
           above == {e \in S \X S : e[1].at > e[2].at}
<1>1. T \in SUBSET Nat /\ T # {}
  BY DEF Apart
<1>2. IsFiniteSet(T)
  <2>1. T \subseteq 0 .. now /\ IsFiniteSet(0 .. now)
    BY FS_Interval DEF Apart
  <2>2. QED BY <2>1, FS_Subset
<1>3. PICK m \in T : \A n \in T : n <= m
  <2> HIDE DEF T
  <2>1. QED BY <1>1, <1>2, MaxExists
<1>4. PICK x \in S : x.at = m
  BY <1>3
<1>5. \A y \in S \ {x} : <<x, y>> \in above
  <2> SUFFICES ASSUME NEW y \in S \ {x} PROVE x.at > y.at
    OBVIOUS
  <2>1. x.at \in Nat /\ y.at \in Nat /\ x.at # y.at
    BY DEF Apart
  <2>2. y.at <= x.at
    BY <1>3, <1>4
  <2>3. QED BY <2>1, <2>2
<1>6. Latest(S) = CHOOSE z \in S : \A y \in S \ {z} : <<z, y>> \in above
  BY DEF Latest, First
<1> HIDE DEF above
<1>7. QED BY <1>5, <1>6

Rows == [Revisions -> Icp \cup {NoRow}]

LEMMA RowFacts ==
  ASSUME NEW v, v.icps \in Rows
  PROVE  /\ Active(v) \in SUBSET Revisions /\ IsFiniteSet(Active(v))
         /\ \A r \in Active(v) : v.icps[r] \in Icp
         /\ \A r \in Active(v) : /\ v.icps[r].version \in Nat
                                 /\ v.icps[r].born \in Nat /\ r \in Nat
<1>1. \A r \in Active(v) : v.icps[r] \in Icp /\ r \in Revisions
  BY DEF Active, Rows
<1>2. Active(v) \in SUBSET Revisions /\ IsFiniteSet(Active(v))
  BY LeadFitAssumption, FS_Subset DEF Active
<1>3. Versions \subseteq Nat /\ Ticks \subseteq Nat /\ Revisions \subseteq Nat
  BY LeadFitAssumption DEF Versions, Ticks
<1>4. \A i \in Icp : i.version \in Versions /\ i.born \in Ticks
  BY DEF Icp
<1>5. QED BY <1>1, <1>2, <1>3, <1>4

(* The plan's profile is the highest of the active revisions.              *)
LEMMA ActiveIcpFacts ==
  ASSUME NEW v, v.icps \in Rows, ActiveIcp(v) # NoRow
  PROVE  /\ ActiveIcp(v) \in Active(v)
         /\ \A s \in Active(v) : v.icps[s].version <= v.icps[ActiveIcp(v)].version
<1> DEFINE S == Active(v)
           first == [r \in S |-> v.icps[r].version]
           second == [r \in S |-> r]
           above == {e \in S \X S :
             \/ v.icps[e[1]].version > v.icps[e[2]].version
             \/ v.icps[e[1]].version = v.icps[e[2]].version /\ e[1] > e[2]}
           m == ActiveIcp(v)
<1>1. /\ S # {}
      /\ m = CHOOSE x \in S : \A y \in S \ {x} : <<x, y>> \in above
  BY DEF ActiveIcp, First
<1>2. /\ IsFiniteSet(S)
      /\ \A x \in S : v.icps[x].version \in Nat /\ x \in Nat
  BY RowFacts
<1>3. \A x, y \in S : <<x, y>> \in above <=>
        first[x] > first[y] \/ (first[x] = first[y] /\ second[x] > second[y])
  OBVIOUS
<1>4. /\ \A x \in S : first[x] \in Nat /\ second[x] \in Nat
      /\ \A x, y \in S : second[x] = second[y] => x = y
  BY <1>2
<1>5. \E x \in S : \A y \in S \ {x} : <<x, y>> \in above
  <2> HIDE DEF S, first, second, above, m
  <2>1. IsFiniteSet(S) /\ S # {}
    BY <1>1, <1>2
  <2>2. \A x \in S : first[x] \in Nat /\ second[x] \in Nat
    BY <1>4
  <2>3. \A x, y \in S : second[x] = second[y] => x = y
    BY <1>4
  <2>4. \E x \in S : \A y \in S \ {x} :
          first[x] > first[y] \/ (first[x] = first[y] /\ second[x] > second[y])
    BY <2>1, <2>2, <2>3, TopExists
  <2>5. QED BY <1>3, <2>4
<1>6. m \in S /\ \A y \in S \ {m} : <<m, y>> \in above
  <2> HIDE DEF S, above, m
  <2>1. QED BY <1>1, <1>5
<1>7. ASSUME NEW y \in S \ {m} PROVE v.icps[y].version <= v.icps[m].version
  <2>1. \/ v.icps[m].version > v.icps[y].version
        \/ v.icps[m].version = v.icps[y].version
    BY <1>6
  <2>2. v.icps[m].version \in Nat /\ v.icps[y].version \in Nat
    BY <1>2, <1>6
  <2> HIDE DEF S, m, above
  <2>3. QED BY <2>1, <2>2
<1>8. QED BY <1>2, <1>6, <1>7

(* So does freshness, within the lineage of r, provided no two revisions   *)
(* are of one age.                                                         *)
BornApart(table) ==
  \A r, s \in Revisions :
    r # s /\ table[r] # NoRow /\ table[s] # NoRow => table[r].born # table[s].born

LEMMA CurrentIcpFacts ==
  ASSUME NEW v, v.icps \in Rows, BornApart(v.icps), NEW r \in Revisions,
         NEW s \in Active(v), v.icps[s].lineage = v.icps[r].lineage
  PROVE  /\ CurrentIcp(v, r) \in Active(v)
         /\ v.icps[s].version <= v.icps[CurrentIcp(v, r)].version
<1> DEFINE S == {q \in Active(v) : v.icps[q].lineage = v.icps[r].lineage}
           first == [q \in S |-> v.icps[q].version]
           second == [q \in S |-> v.icps[q].born]
           above == {e \in S \X S :
             \/ v.icps[e[1]].version > v.icps[e[2]].version
             \/ /\ v.icps[e[1]].version = v.icps[e[2]].version
                /\ v.icps[e[1]].born > v.icps[e[2]].born}
           m == CurrentIcp(v, r)
<1>1. /\ s \in S /\ S # {}
      /\ m = CHOOSE x \in S : \A y \in S \ {x} : <<x, y>> \in above
  BY DEF CurrentIcp, First
<1>2. /\ IsFiniteSet(S) /\ S \subseteq Active(v)
      /\ \A x \in S : v.icps[x].version \in Nat /\ v.icps[x].born \in Nat
  BY RowFacts, FS_Subset
<1>3. \A x, y \in S : <<x, y>> \in above <=>
        first[x] > first[y] \/ (first[x] = first[y] /\ second[x] > second[y])
  OBVIOUS
<1>4. \A x \in S : first[x] \in Nat /\ second[x] \in Nat
  BY <1>2
<1>5. \A x, y \in S : second[x] = second[y] => x = y
  BY DEF BornApart, Active
<1>6. \E x \in S : \A y \in S \ {x} : <<x, y>> \in above
  <2> HIDE DEF S, first, second, above, m
  <2>1. IsFiniteSet(S) /\ S # {}
    BY <1>1, <1>2
  <2>2. \E x \in S : \A y \in S \ {x} :
          first[x] > first[y] \/ (first[x] = first[y] /\ second[x] > second[y])
    BY <1>4, <1>5, <2>1, TopExists
  <2>3. QED BY <1>3, <2>2
<1>7. m \in S /\ \A y \in S \ {m} : <<m, y>> \in above
  <2> HIDE DEF S, above, m
  <2>1. QED BY <1>1, <1>6
<1>8. m \in Active(v)
  BY <1>2, <1>7
<1>9. v.icps[s].version <= v.icps[m].version
  <2>1. v.icps[m].version \in Nat /\ v.icps[s].version \in Nat
    BY <1>1, <1>2, <1>7
  <2>2. \/ m = s
        \/ v.icps[m].version > v.icps[s].version
        \/ v.icps[m].version = v.icps[s].version
    BY <1>1, <1>7
  <2> HIDE DEF S, above, m
  <2>3. QED BY <2>1, <2>2
<1>10. QED BY <1>8, <1>9

(* Above a tie, the two services choose by the version alone.              *)
LEMMA ServicesAgree ==
  ASSUME LeadTypeOK
  PROVE  ServicesAgreeOnIcp
<1> DEFINE v == Committed
           r == ActiveIcp(v)
           S == {q \in Active(v) : v.icps[q].lineage = v.icps[r].lineage}
           above == {e \in S \X S :
             \/ v.icps[e[1]].version > v.icps[e[2]].version
             \/ /\ v.icps[e[1]].version = v.icps[e[2]].version
                /\ v.icps[e[1]].born > v.icps[e[2]].born}
<1>1. v.icps = icps /\ v.icps \in Rows
  BY DEF Committed, LeadTypeOK, Rows
<1> SUFFICES ASSUME r # NoRow, ~Tied(r) PROVE CurrentIcp(v, r) = r
  BY DEF ServicesAgreeOnIcp
<1>2. r \in Active(v) /\ \A s \in Active(v) : v.icps[s].version <= v.icps[r].version
  <2> HIDE DEF v
  <2>1. QED BY <1>1, ActiveIcpFacts
<1>3. \A s \in Active(v) : v.icps[s].version \in Nat
  <2> HIDE DEF v
  <2>1. QED BY <1>1, RowFacts
<1>4. \A s \in S \ {r} : v.icps[s].version # v.icps[r].version
  BY <1>1 DEF Tied
<1> HIDE DEF v, r
<1>5. r \in S
  BY <1>2
<1>6. \A s \in S \ {r} : v.icps[r].version > v.icps[s].version
  BY <1>2, <1>3, <1>4
<1>7. \A s \in S \ {r} : <<r, s>> \in above /\ <<s, r>> \notin above
  BY <1>2, <1>3, <1>5, <1>6
<1>8. CurrentIcp(v, r) = CHOOSE x \in S : \A y \in S \ {x} : <<x, y>> \in above
  BY <1>5 DEF CurrentIcp, First
<1> HIDE DEF S, above
<1>9. \A x \in S : (\A y \in S \ {x} : <<x, y>> \in above) => x = r
  BY <1>5, <1>7
<1>10. \A y \in S \ {r} : <<r, y>> \in above
  BY <1>7
<1>11. QED BY <1>5, <1>8, <1>9, <1>10

(* What IntelligenceService selects is an observation, or nothing.         *)
LEMMA ProjectedFacts ==
  ASSUME NEW v, v.known \subseteq Facts, v.age \in [Facts -> StalenessStatus],
         v.pinned \in Review, v.pinned.fact \in v.known \cup {0}
  PROVE  /\ Projected(v) \in Projection
         /\ Projected(v).fact # 0 =>
              /\ Projected(v).fact \in v.known
              /\ Projected(v).staleness = v.age[Projected(v).fact]
              /\ v.pinned # NoReview => Projected(v).fact = v.pinned.fact
              /\ \/ Projected(v).conflict = ConflictOf(v.known)
                 \/ v.pinned.action = "RESOLVE_CONFLICT"
<1> DEFINE best == CHOOSE f \in v.known : \A g \in v.known : g <= f
<1>1. v.known # {} => best \in v.known
  <2>1. IsFiniteSet(v.known) /\ v.known \subseteq Nat
    BY LeadFitAssumption, FS_Subset
  <2>2. QED BY <2>1, MaxExists
<1>2. ConflictOf(v.known) \in {"NONE", "MATERIAL", "NEEDS_REVIEW"}
  BY DEF ConflictOf
<1>3. \A c, t : Unreviewed(c, t) \in {"CONFLICT", "STALE_REVIEW_REQUIRED", "UNREVIEWED"}
  BY DEF Unreviewed
<1> HIDE DEF best
<1>4. CASE v.pinned # NoReview
  <2> DEFINE c == IF v.pinned.action = "RESOLVE_CONFLICT" THEN "NONE" ELSE ConflictOf(v.known)
             t == IF v.pinned.action = "APPROVE" THEN "APPROVED" ELSE "OVERRIDDEN"
  <2>1. v.pinned.fact \in Facts /\ v.pinned.action \in ReviewAction
    BY <1>4 DEF Review
  <2>2. Projected(v) = [fact |-> v.pinned.fact, selection |-> v.pinned.action,
                        staleness |-> v.age[v.pinned.fact], conflict |-> c, review |-> t]
    BY <1>4 DEF Projected
  <2>3. /\ c \in {"NONE", "MATERIAL", "NEEDS_REVIEW"}
        /\ t \in {"APPROVED", "OVERRIDDEN"}
        /\ c = ConflictOf(v.known) \/ v.pinned.action = "RESOLVE_CONFLICT"
    BY <1>2
  <2>4. v.age[v.pinned.fact] \in StalenessStatus /\ v.pinned.fact # 0
    BY <2>1, LeadFitAssumption
  <2> HIDE DEF c, t
  <2>5. QED BY <2>1, <2>2, <2>3, <2>4 DEF Projection
<1>5. CASE v.pinned = NoReview /\ v.known = {}
  <2>1. Projected(v) = Nothing
    BY <1>5 DEF Projected
  <2>2. QED BY <2>1 DEF Nothing, Projection
<1>6. CASE v.pinned = NoReview /\ v.known # {}
  <2> DEFINE c == ConflictOf(v.known)
             t == Unreviewed(c, v.age[best])
  <2>1. Projected(v) = [fact |-> best, selection |-> "POLICY", staleness |-> v.age[best],
                        conflict |-> c, review |-> t]
    BY <1>6 DEF Projected, best
  <2>2. best \in Facts /\ best \in v.known /\ v.age[best] \in StalenessStatus
    BY <1>1, <1>6
  <2>3. /\ c \in {"NONE", "MATERIAL", "NEEDS_REVIEW"} /\ c = ConflictOf(v.known)
        /\ t \in {"CONFLICT", "STALE_REVIEW_REQUIRED", "UNREVIEWED"}
    BY <1>2, <1>3
  <2> HIDE DEF c, t
  <2>4. QED BY <1>6, <2>1, <2>2, <2>3 DEF Projection
<1>7. QED BY <1>4, <1>5, <1>6

(* Evidence of CURRENT quality is neither outdated nor contradicted.       *)
LEMMA QualityFacts ==
  ASSUME NEW e, Quality(e) = "CURRENT"
  PROVE  e.conflict = "NONE" /\ e.staleness # "STALE"
BY DEF Quality

LEMMA NoConflictFacts ==
  ASSUME NEW F, ConflictOf(F) = "NONE"
  PROVE  \A g, h \in F : Credible(g) /\ Credible(h) => ValueOf[g] = ValueOf[h]
BY DEF ConflictOf

(* A score that suits pursuit has its evidence.                            *)
Sound(F) == \A f \in F : f.good => ~Gaps(f)

(* A qualification is of an assessment made before it, and a QUALIFIED one *)
(* is of a good one.                                                       *)
Judged(Q, F, now) ==
  \A q \in Q : /\ q.fit \in 0 .. now
               /\ q.status = "QUALIFIED" => \A f \in F : f.at = q.fit => f.good

LEMMA ActionableHolds ==
  ASSUME LeadTypeOK, BornApart(icps), Sound(fits), Judged(quals, fits, tick)
  PROVE  ActionableStillHolds
<1> DEFINE v == Committed
           now == Projected(v)
<1>1. /\ v.icps = icps /\ v.icps \in Rows /\ BornApart(v.icps)
      /\ v.known = known /\ v.age = age /\ v.pinned = pinned
  BY DEF Committed, LeadTypeOK, Rows
<1> SUFFICES ASSUME NEW q \in quals, NEW f \in fits, q.fit = f.at, q.status = "QUALIFIED",
                    IsCurrent(v, f)
             PROVE  /\ f.saw.fact \in known /\ age[f.saw.fact] # "STALE"
                    /\ pinned # NoReview => f.saw.fact = pinned.fact
                    /\ \/ pinned.action = "RESOLVE_CONFLICT"
                       \/ \A g, h \in known :
                            Credible(g) /\ Credible(h) => ValueOf[g] = ValueOf[h]
                    /\ ~ \E r \in Active(v) :
                           /\ v.icps[r].lineage = v.icps[f.icp].lineage
                           /\ v.icps[r].version > v.icps[f.icp].version
  BY <1>1 DEF ActionableStillHolds
<1>2. f.saw.fact # 0 /\ f.quality = "CURRENT"
  <2>1. f.good
    BY DEF Judged
  <2>2. QED BY <2>1 DEF Sound, Gaps
<1>3. /\ f.saw.fact = now.fact /\ f.quality = Quality(now)
      /\ CurrentIcp(v, f.icp) = f.icp /\ f.icp \in Revisions
  BY DEF IsCurrent, LeadTypeOK, Fit
<1>4. /\ now.fact \in known /\ now.staleness = age[now.fact]
      /\ pinned # NoReview => now.fact = pinned.fact
      /\ now.conflict = ConflictOf(known) \/ pinned.action = "RESOLVE_CONFLICT"
  <2>1. /\ v.known \subseteq Facts /\ v.age \in [Facts -> StalenessStatus]
        /\ v.pinned \in Review /\ v.pinned.fact \in v.known \cup {0}
    BY <1>1 DEF LeadTypeOK
  <2> HIDE DEF v
  <2>2. QED BY <1>1, <1>2, <1>3, <2>1, ProjectedFacts
<1> HIDE DEF v, now
<1>5. now.conflict = "NONE" /\ now.staleness # "STALE"
  BY <1>2, <1>3, QualityFacts
<1>6. \/ pinned.action = "RESOLVE_CONFLICT"
      \/ \A g, h \in known : Credible(g) /\ Credible(h) => ValueOf[g] = ValueOf[h]
  BY <1>4, <1>5, NoConflictFacts
<1>7. ASSUME NEW r \in Active(v), v.icps[r].lineage = v.icps[f.icp].lineage
      PROVE  ~ (v.icps[r].version > v.icps[f.icp].version)
  <2>1. f.icp \in Active(v) /\ v.icps[r].version <= v.icps[f.icp].version
    BY <1>1, <1>3, <1>7, CurrentIcpFacts
  <2>2. v.icps[r].version \in Nat /\ v.icps[f.icp].version \in Nat
    BY <1>1, <2>1, RowFacts
  <2>3. QED BY <2>1, <2>2
<1>8. QED BY <1>3, <1>4, <1>5, <1>6, <1>7

-----------------------------------------------------------------------------
(* Orchestration: every row is written at a time of its own, also the rows *)
(* of requests that are still open, so that there is a latest one.         *)

View == [icps : Rows, known : SUBSET Facts, age : [Facts -> StalenessStatus],
         pinned : Review, fits : SUBSET Fit, quals : SUBSET Qualification,
         contacts : SUBSET Ticks, searches : SUBSET Search]

Work == [view : View, old : SUBSET Ticks, done : SUBSET Steps,
         step : Steps \cup {"STOP"}, credits : BOOLEAN, limit : StepLimits]

(* A step was planned for a reason, which stands until it is taken.        *)
StepOK(v, step) ==
  /\ step = "ASSESS" => ActiveIcp(v) # NoRow
  /\ step = "QUALIFY" => v.fits # {}

PeopleOf(v) == {q.at : q \in v.quals}

WorkOK(w) ==
  /\ w \in Work
  /\ w.view.pinned.fact \in w.view.known \cup {0}
  /\ w.view.contacts \subseteq PeopleOf(w.view)
  /\ StepOK(w.view, w.step)

Open == {w \in Workers : work[w] # NoWork}
AllFits == fits \cup UNION {work[w].view.fits : w \in Open}
AllQuals == quals \cup UNION {work[w].view.quals : w \in Open}

Used == {r \in Revisions : icps[r] # NoRow}

(* As many versions as revisions, each of an age of its own.               *)
RevisionsOK ==
  /\ BornApart(icps)
  /\ \A r \in Used : icps[r].born <= tick /\ icps[r].version <= Cardinality(Used)

RowsOK(F, Q, now) ==
  Apart(F, now) /\ Apart(Q, now) /\ Sound(F) /\ Judged(Q, F, now)

FlowInv ==
  /\ FlowTypeOK
  /\ RevisionsOK
  /\ work \in [Workers -> Work \cup {NoWork}]
  /\ \A w \in Open : WorkOK(work[w])
  /\ RowsOK(AllFits, AllQuals, tick)

LEMMA LaterApart ==
  ASSUME NEW S, NEW now \in Nat, Apart(S, now), NEW later \in Nat, now <= later,
         NEW T, T \subseteq S
  PROVE  Apart(T, later)
<1>1. \A x \in T : x.at \in 0 .. now
  BY DEF Apart
<1>2. 0 .. now \subseteq 0 .. later
  OBVIOUS
<1>3. QED BY <1>1, <1>2 DEF Apart

LEMMA OneMoreApart ==
  ASSUME NEW S, NEW now \in Nat, Apart(S, now), NEW x, x.at = now + 1,
         NEW T, T \subseteq S \cup {x}
  PROVE  Apart(T, now + 1)
<1>1. \A y \in S : y.at \in 0 .. now
  BY DEF Apart
<1>2. now + 1 \in 0 .. now + 1 /\ 0 .. now \subseteq 0 .. now + 1
  OBVIOUS
<1>3. \A y \in T : y = x \/ y \in S
  OBVIOUS
<1>4. \A y \in T : y.at \in 0 .. now + 1
  BY <1>1, <1>2, <1>3
<1>5. \A y \in S : y.at # x.at
  BY <1>1
<1>6. \A y, z \in T : y.at = z.at => y = z
  BY <1>3, <1>5 DEF Apart
<1>7. QED BY <1>4, <1>6 DEF Apart

(* A step adds at most one row to a table, of a time of its own.           *)
AddsFit(S) ==
  \/ S = {}
  \/ /\ Tick
     /\ \E x : /\ S = {x}
               /\ x.at = tick + 1
               /\ x.good => ~Gaps(x)

AddsQual(S) ==
  \/ S = {}
  \/ /\ Tick
     /\ \E x : /\ S = {x}
               /\ x.at = tick + 1
               /\ \E f \in AllFits : /\ x.fit = f.at
                                     /\ x.status = "QUALIFIED" => f.good

LEMMA FitAdded ==
  ASSUME NEW S, AddsFit(S), NEW y \in S
  PROVE  Tick /\ S = {y} /\ y.at = tick + 1 /\ (y.good => ~Gaps(y))
<1>1. PICK x : /\ Tick
               /\ S = {x}
               /\ x.at = tick + 1
               /\ x.good => ~Gaps(x)
  BY Zenon DEF AddsFit
<1>2. y = x
  BY <1>1
<1>3. QED BY <1>1, <1>2, Zenon

LEMMA QualAdded ==
  ASSUME NEW S, AddsQual(S), NEW y \in S
  PROVE  /\ Tick /\ S = {y} /\ y.at = tick + 1
         /\ \E f \in AllFits : /\ y.fit = f.at
                               /\ y.status = "QUALIFIED" => f.good
<1>1. PICK x : /\ Tick
               /\ S = {x}
               /\ x.at = tick + 1
               /\ \E f \in AllFits : /\ x.fit = f.at
                                     /\ x.status = "QUALIFIED" => f.good
  BY Zenon DEF AddsQual
<1>2. y = x
  BY <1>1
<1>3. QED BY <1>1, <1>2, Zenon

LEMMA RowsKeep ==
  ASSUME tick \in Nat, RowsOK(AllFits, AllQuals, tick), tick' = tick \/ Tick,
         NEW newFits, AddsFit(newFits), AllFits' \subseteq AllFits \cup newFits,
         NEW newQuals, AddsQual(newQuals), AllQuals' \subseteq AllQuals \cup newQuals
  PROVE  RowsOK(AllFits', AllQuals', tick')
<1>1. tick' \in Nat /\ tick <= tick' /\ (Tick => tick' = tick + 1)
  BY DEF Tick
<1>2. Apart(AllFits', tick')
  <2>1. CASE newFits = {}
    <3>1. AllFits' \subseteq AllFits
      BY <2>1
    <3>2. QED BY <1>1, <3>1, LaterApart DEF RowsOK
  <2>2. CASE newFits # {}
    <3>1. PICK y : y \in newFits
      BY <2>2
    <3>2. Tick /\ newFits = {y} /\ y.at = tick + 1
      BY <3>1, FitAdded
    <3>3. AllFits' \subseteq AllFits \cup {y} /\ tick' = tick + 1
      BY <1>1, <3>2
    <3>4. QED BY <3>2, <3>3, OneMoreApart DEF RowsOK
  <2>3. QED BY <2>1, <2>2
<1>3. Apart(AllQuals', tick')
  <2>1. CASE newQuals = {}
    <3>1. AllQuals' \subseteq AllQuals
      BY <2>1
    <3>2. QED BY <1>1, <3>1, LaterApart DEF RowsOK
  <2>2. CASE newQuals # {}
    <3>1. PICK y : y \in newQuals
      BY <2>2
    <3>2. Tick /\ newQuals = {y} /\ y.at = tick + 1
      BY <3>1, QualAdded
    <3>3. AllQuals' \subseteq AllQuals \cup {y} /\ tick' = tick + 1
      BY <1>1, <3>2
    <3>4. QED BY <3>2, <3>3, OneMoreApart DEF RowsOK
  <2>3. QED BY <2>1, <2>2
<1>4. \A f \in AllFits' : \/ f \in AllFits
                          \/ /\ f.at = tick + 1
                             /\ f.good => ~Gaps(f)
  <2> SUFFICES ASSUME NEW f \in AllFits', f \notin AllFits
               PROVE  f.at = tick + 1 /\ (f.good => ~Gaps(f))
    OBVIOUS
  <2>1. f \in newFits
    OBVIOUS
  <2>2. QED BY <2>1, FitAdded
<1>5. Sound(AllFits')
  BY <1>4 DEF RowsOK, Sound
<1>6. Judged(AllQuals', AllFits', tick')
  <2> SUFFICES ASSUME NEW q \in AllQuals'
               PROVE  /\ q.fit \in 0 .. tick'
                      /\ q.status = "QUALIFIED" => \A f \in AllFits' : f.at = q.fit => f.good
    BY DEF Judged
  <2>1. /\ q.fit \in 0 .. tick
        /\ q.status = "QUALIFIED" => \A f \in AllFits : f.at = q.fit => f.good
    <3>1. CASE q \in AllQuals
      BY <3>1 DEF RowsOK, Judged
    <3>2. CASE q \notin AllQuals
      <4>1. q \in newQuals
        BY <3>2
      <4>2. PICK f \in AllFits : /\ q.fit = f.at
                                 /\ q.status = "QUALIFIED" => f.good
        BY <4>1, QualAdded
      <4>3. /\ f.at \in 0 .. tick
            /\ \A g \in AllFits : g.at = f.at => g = f
        BY DEF RowsOK, Apart
      <4>4. QED BY <4>2, <4>3
    <3>3. QED BY <3>1, <3>2
  <2>2. q.fit \in 0 .. tick' /\ q.fit # tick + 1
    BY <1>1, <2>1
  <2>3. QED BY <1>4, <2>1, <2>2
<1>7. QED BY <1>2, <1>3, <1>5, <1>6 DEF RowsOK

(* What the services read, and what the rows they add are.                 *)
LEMMA AssessedType ==
  ASSUME NEW v, v.known \subseteq Facts, v.age \in [Facts -> StalenessStatus],
         v.pinned \in Review, v.pinned.fact \in v.known \cup {0},
         tick + 1 \in Ticks, NEW r \in Revisions, NEW f \in Assessed(v, r)
  PROVE  f \in Fit /\ f.at = tick + 1 /\ (f.good => ~Gaps(f))
<1>1. Projected(v) \in Projection
  BY ProjectedFacts
<1>2. Quality(Projected(v)) \in {"CURRENT", "STALE", "CONFLICTED"}
  BY DEF Quality
<1>3. QED BY <1>1, <1>2 DEF Assessed, Fit

LEMMA QualifiedType ==
  ASSUME NEW v, NEW f, f \in Fit, tick + 1 \in Ticks
  PROVE  /\ Qualified(v, f) \in Qualification
         /\ Qualified(v, f).at = tick + 1 /\ Qualified(v, f).fit = f.at
         /\ Qualified(v, f).status = "QUALIFIED" => f.good
BY DEF Qualified, Qualification, Fit

LEMMA FirstOfFacts ==
  ASSUME NEW S \in SUBSET Steps
  PROVE  FirstOf(S) \in S \cup {"STOP"}
<1>1. CASE S = {}
  BY <1>1 DEF FirstOf
<1>2. CASE S # {}
  <2>1. Steps = {"RESEARCH", "ASSESS", "QUALIFY", "DISCOVER"}
    BY DEF Steps, StepOrder
  <2>2. /\ StepOrder["RESEARCH"] = 1 /\ StepOrder["ASSESS"] = 2
        /\ StepOrder["QUALIFY"] = 3 /\ StepOrder["DISCOVER"] = 4
    BY DEF StepOrder
  <2>3. \E s \in S : \A t \in S : StepOrder[s] <= StepOrder[t]
    <3> HIDE DEF Steps, StepOrder
    <3>1. CASE "RESEARCH" \in S
      BY <2>1, <2>2, <3>1
    <3>2. CASE "RESEARCH" \notin S /\ "ASSESS" \in S
      BY <2>1, <2>2, <3>2
    <3>3. CASE "RESEARCH" \notin S /\ "ASSESS" \notin S /\ "QUALIFY" \in S
      BY <2>1, <2>2, <3>3
    <3>4. CASE S = {"DISCOVER"}
      BY <2>1, <2>2, <3>4
    <3>5. QED BY <1>2, <2>1, <3>1, <3>2, <3>3, <3>4
  <2>4. QED BY <1>2, <2>3 DEF FirstOf
<1>3. QED BY <1>1, <1>2

(* The plan chooses a step for a reason.                                   *)
LEMMA ProceedingFacts ==
  ASSUME NEW p \in Workers, NEW w, Proceeding(p, w)
  PROVE  \E step \in Steps \cup {"STOP"} :
           /\ StepOK(w.view, step)
           /\ work' = [work EXCEPT ![p] = [w EXCEPT !.step = step]]
<1> DEFINE ready == ReadySteps(w.view, w.credits) \ w.done
           step == IF \/ AtGate(w.view) \/ Cardinality(w.done) = w.limit
                      \/ FirstOf(ready) = "DISCOVER" /\ ~personaMode /\ ~w.credits
                   THEN "STOP" ELSE FirstOf(ready)
<1>1. work' = [work EXCEPT ![p] = [w EXCEPT !.step = step]]
  BY DEF Proceeding
<1>2. ready \in SUBSET Steps
  BY DEF ReadySteps
<1>3. step \in ready \cup {"STOP"}
  <2> HIDE DEF ready
  <2>1. QED BY <1>2, FirstOfFacts
<1>4. "ASSESS" \in ready => ActiveIcp(w.view) # NoRow
  BY DEF ReadySteps
<1>5. "QUALIFY" \in ready => w.view.fits # {}
  BY DEF ReadySteps, Fresh
<1>6. StepOK(w.view, step)
  <2> HIDE DEF ready, step
  <2>1. QED BY <1>3, <1>4, <1>5 DEF StepOK
<1> HIDE DEF ready, step
<1>7. QED BY <1>1, <1>2, <1>3, <1>6

-----------------------------------------------------------------------------
(* Orchestration: the invariant, step by step.                             *)

ViewOK(v) ==
  v \in View /\ v.pinned.fact \in v.known \cup {0} /\ v.contacts \subseteq PeopleOf(v)

(* The request of p is given the record x, or ended.                       *)
LEMMA WorkLands ==
  ASSUME FlowInv, NEW p \in Workers, NEW x, x = NoWork \/ WorkOK(x),
         work' = [work EXCEPT ![p] = x]
  PROVE  /\ work' \in [Workers -> Work \cup {NoWork}]
         /\ \A w \in Open' : WorkOK(work'[w])
         /\ AllFits' \subseteq fits' \cup AllFits \cup (IF x = NoWork THEN {} ELSE x.view.fits)
         /\ AllQuals' \subseteq
              quals' \cup AllQuals \cup (IF x = NoWork THEN {} ELSE x.view.quals)
<1>1. work \in [Workers -> Work \cup {NoWork}] /\ \A w \in Open : WorkOK(work[w])
  BY DEF FlowInv
<1>2. /\ work'[p] = x /\ \A w \in Workers \ {p} : work'[w] = work[w]
      /\ x \in Work \cup {NoWork}
  BY <1>1 DEF WorkOK
<1>3. work' \in [Workers -> Work \cup {NoWork}]
  BY <1>1, <1>2
<1>4. \A w \in Open' : (w = p /\ x # NoWork) \/ (w \in Open /\ w # p)
  BY <1>2 DEF Open
<1>5. \A w \in Open' : WorkOK(work'[w])
  BY <1>1, <1>2, <1>4 DEF Open
<1>6. AllFits' \subseteq fits' \cup AllFits \cup (IF x = NoWork THEN {} ELSE x.view.fits)
  BY <1>2, <1>4 DEF AllFits, Open
<1>7. AllQuals' \subseteq quals' \cup AllQuals \cup (IF x = NoWork THEN {} ELSE x.view.quals)
  BY <1>2, <1>4 DEF AllQuals, Open
<1>8. QED BY <1>3, <1>5, <1>6, <1>7

LEMMA RevisionsStay ==
  ASSUME LeadTypeOK, RevisionsOK, icps' = icps, tick' \in Ticks, tick <= tick'
  PROVE  RevisionsOK'
<1>1. Used' = Used /\ BornApart(icps')
  BY DEF Used, RevisionsOK
<1>2. \A r \in Used : icps'[r].born <= tick' /\ icps'[r].version <= Cardinality(Used)
  <2> SUFFICES ASSUME NEW r \in Used PROVE icps[r].born <= tick'
    BY DEF RevisionsOK
  <2>1. icps[r].born \in Nat /\ icps[r].born <= tick /\ tick \in Nat /\ tick' \in Nat
    <3>1. icps[r] \in Icp
      BY DEF Used, LeadTypeOK
    <3>2. icps[r].born \in Ticks /\ tick \in Ticks /\ tick' \in Ticks
      BY <3>1 DEF Icp, LeadTypeOK
    <3>3. icps[r].born <= tick
      BY DEF RevisionsOK
    <3>4. QED BY <3>2, <3>3, LeadFitAssumption DEF Ticks
  <2>2. QED BY <2>1
<1>3. QED BY <1>1, <1>2 DEF RevisionsOK

(* A step of the request p is taken, and the next one is planned.          *)
LEMMA StepTaken ==
  ASSUME FlowInv, NEW p \in Workers, work[p] # NoWork, NEW s \in Steps,
         NEW v, ViewOK(v), Step(p, s, v)
  PROVE  \E x : WorkOK(x) /\ x.view = v /\ work' = [work EXCEPT ![p] = x]
<1> DEFINE w == [work[p] EXCEPT !.view = v, !.done = work[p].done \cup {s}]
<1>1. Proceeding(p, w)
  BY DEF Step
<1>2. work[p] \in Work
  BY DEF FlowInv
<1>3. w \in Work /\ w.view = v
  BY <1>2 DEF Work, ViewOK
<1> HIDE DEF w
<1>4. PICK step \in Steps \cup {"STOP"} :
        StepOK(w.view, step) /\ work' = [work EXCEPT ![p] = [w EXCEPT !.step = step]]
  BY <1>1, ProceedingFacts
<1> DEFINE x == [w EXCEPT !.step = step]
<1>5. x \in Work /\ x.view = v /\ x.step = step
  BY <1>3 DEF Work
<1> HIDE DEF x
<1>6. WorkOK(x)
  BY <1>3, <1>4, <1>5 DEF WorkOK, ViewOK
<1>7. QED BY <1>4, <1>5, <1>6 DEF x

(* Nothing is committed, and the view of p has at most one new row each.   *)
LEMMA StepKeeps ==
  ASSUME FlowInv, NEW p \in Workers, work[p] # NoWork, NEW s \in Steps,
         NEW v, ViewOK(v), Step(p, s, v),
         tick' = tick \/ Tick,
         NEW newFits, AddsFit(newFits),
         v.fits = work[p].view.fits \cup newFits,
         NEW newQuals, AddsQual(newQuals),
         v.quals = work[p].view.quals \cup newQuals
  PROVE  FlowInv'
<1>1. /\ FlowTypeOK /\ LeadTypeOK /\ RevisionsOK
      /\ RowsOK(AllFits, AllQuals, tick)
  BY DEF FlowInv, FlowTypeOK
<1>2. UNCHANGED <<icps, known, age, pinned, fits, quals, personaMode, contacts, searches, expired>>
  BY DEF Step
<1>3. tick \in Nat /\ tick' \in Ticks /\ tick <= tick' /\ tick' \in Nat
  <2>1. tick \in Ticks /\ LastTick \in Nat
    BY <1>1, LeadFitAssumption DEF LeadTypeOK
  <2>2. tick' = tick \/ (tick < LastTick /\ tick' = tick + 1)
    BY DEF Tick
  <2>3. QED BY <2>1, <2>2 DEF Ticks
<1>4. PICK x : WorkOK(x) /\ x.view = v /\ work' = [work EXCEPT ![p] = x]
  BY StepTaken
<1>5. /\ work' \in [Workers -> Work \cup {NoWork}]
      /\ \A w \in Open' : WorkOK(work'[w])
      /\ AllFits' \subseteq fits \cup AllFits \cup v.fits
      /\ AllQuals' \subseteq quals \cup AllQuals \cup v.quals
  BY <1>2, <1>4, WorkLands
<1>6. /\ fits \subseteq AllFits /\ work[p].view.fits \subseteq AllFits
      /\ quals \subseteq AllQuals /\ work[p].view.quals \subseteq AllQuals
  BY DEF AllFits, AllQuals, Open
<1>7. /\ AllFits' \subseteq AllFits \cup newFits
      /\ AllQuals' \subseteq AllQuals \cup newQuals
  BY <1>5, <1>6
<1>8. RowsOK(AllFits', AllQuals', tick')
  BY <1>1, <1>3, <1>7, RowsKeep
<1>9. \A w \in Workers : work'[w] # NoWork => work'[w].done \subseteq Steps
  BY <1>5 DEF Open, WorkOK, Work
<1>10. FlowTypeOK'
  BY <1>1, <1>2, <1>3, <1>9 DEF FlowTypeOK, LeadTypeOK
<1>11. RevisionsOK'
  BY <1>1, <1>2, <1>3, RevisionsStay
<1>12. QED BY <1>5, <1>8, <1>10, <1>11 DEF FlowInv

(* What is known before a request's step.                                  *)
LEMMA ProceedFacts ==
  ASSUME FlowInv, NEW p \in Workers, work[p] # NoWork
  PROVE  /\ WorkOK(work[p]) /\ ViewOK(work[p].view)
         /\ Apart(work[p].view.fits, tick) /\ Apart(work[p].view.quals, tick)
         /\ tick \in Nat
         /\ Tick => tick + 1 \in Ticks
         /\ work[p].credits \in BOOLEAN
<1>1. WorkOK(work[p])
  BY DEF FlowInv, Open
<1>2. ViewOK(work[p].view) /\ work[p].credits \in BOOLEAN
  BY <1>1 DEF WorkOK, ViewOK, Work
<1>3. work[p].view.fits \subseteq AllFits /\ work[p].view.quals \subseteq AllQuals
  BY DEF AllFits, AllQuals, Open
<1>4. tick \in Nat /\ (Tick => tick + 1 \in Ticks)
  <2>1. tick \in Ticks /\ LastTick \in Nat
    BY LeadFitAssumption DEF FlowInv, FlowTypeOK, LeadTypeOK
  <2>2. QED BY <2>1 DEF Tick, Ticks
<1>5. Apart(work[p].view.fits, tick) /\ Apart(work[p].view.quals, tick)
  BY <1>3, <1>4, LaterApart DEF FlowInv, RowsOK
<1>6. QED BY <1>1, <1>2, <1>4, <1>5

LEMMA InvFacts ==
  ASSUME FlowInv
  PROVE  /\ LeadTypeOK /\ RevisionsOK /\ FlowTypeOK
         /\ tick \in Nat /\ tick \in Ticks /\ (Tick => tick + 1 \in Ticks)
         /\ RowsOK(AllFits, AllQuals, tick)
         /\ Apart(fits, tick) /\ Apart(quals, tick)
         /\ {q.at : q \in quals} \subseteq Ticks
         /\ fits \subseteq AllFits /\ quals \subseteq AllQuals
<1>1. LeadTypeOK /\ RevisionsOK /\ FlowTypeOK /\ RowsOK(AllFits, AllQuals, tick)
  BY DEF FlowInv, FlowTypeOK
<1>2. tick \in Ticks /\ LastTick \in Nat
  BY <1>1, LeadFitAssumption DEF LeadTypeOK
<1>3. tick \in Nat /\ (Tick => tick + 1 \in Ticks)
  BY <1>2 DEF Tick, Ticks
<1>4. fits \subseteq AllFits /\ quals \subseteq AllQuals
  BY DEF AllFits, AllQuals
<1>5. Apart(fits, tick) /\ Apart(quals, tick)
  BY <1>1, <1>3, <1>4, LaterApart DEF RowsOK
<1>6. {q.at : q \in quals} \subseteq Ticks
  BY <1>1 DEF LeadTypeOK, Qualification
<1>7. QED BY <1>1, <1>2, <1>3, <1>4, <1>5, <1>6

(* The clock of a step is its own.                                         *)
LEMMA NowFacts ==
  ASSUME LeadTypeOK, NEW v, ViewOK(v)
  PROVE  /\ ViewOK(Now(v)) /\ Now(v).fits = v.fits /\ Now(v).quals = v.quals
         /\ Target(Now(v)) = Target(v)
<1>1. Now(v) \in View /\ Now(v).pinned = v.pinned /\ Now(v).contacts = v.contacts
      /\ Now(v).known = v.known /\ Now(v).fits = v.fits /\ Now(v).quals = v.quals
  BY DEF Now, ViewOK, View, LeadTypeOK
<1>2. QED BY <1>1 DEF ViewOK, PeopleOf, Target

LEMMA ResearchKeeps ==
  ASSUME FlowInv, NEW p \in Workers, work[p] # NoWork,
         NEW new \in SUBSET Facts, Research(p, work[p].view, new)
  PROVE  FlowInv'
<1> DEFINE v == work[p].view
           w == [v EXCEPT !.known = v.known \cup new]
<1>1. ViewOK(v)
  BY ProceedFacts
<1>2. Step(p, "RESEARCH", w) /\ tick' = tick
  BY DEF Research
<1>3. ViewOK(w) /\ w.fits = v.fits \cup {} /\ w.quals = v.quals \cup {}
  <2> HIDE DEF v
  <2>1. w \in View /\ w.pinned = v.pinned /\ w.contacts = v.contacts /\ w.quals = v.quals
    BY <1>1 DEF ViewOK, View
  <2>2. v.pinned.fact \in w.known \cup {0} /\ w.fits = v.fits
    BY <1>1 DEF ViewOK, View
  <2> HIDE DEF w
  <2>3. QED BY <1>1, <2>1, <2>2 DEF ViewOK, PeopleOf
<1>4. "RESEARCH" \in Steps
  BY DEF Steps, StepOrder
<1> HIDE DEF w
<1>5. AddsFit({}) /\ AddsQual({})
  BY DEF AddsFit, AddsQual
<1>6. QED BY <1>2, <1>3, <1>4, <1>5, StepKeeps

LEMMA AssessKeeps ==
  ASSUME FlowInv, NEW p \in Workers, work[p] # NoWork, work[p].step = "ASSESS",
         Assess(p, work[p].view)
  PROVE  FlowInv'
<1> DEFINE v == work[p].view
<1>1. ViewOK(v) /\ ActiveIcp(v) # NoRow
  BY ProceedFacts DEF WorkOK, StepOK
<1>2. PICK f \in Assessed(Now(v), ActiveIcp(v)) :
         Step(p, "ASSESS", [v EXCEPT !.fits = v.fits \cup {f}])
  BY DEF Assess
<1>3. Tick /\ tick + 1 \in Ticks
  BY ProceedFacts DEF Assess
<1> DEFINE w == [v EXCEPT !.fits = v.fits \cup {f}]
<1>4. ActiveIcp(v) \in Revisions
  <2> HIDE DEF v
  <2>1. v.icps \in Rows
    BY <1>1 DEF ViewOK, View
  <2>2. QED BY <1>1, <2>1, ActiveIcpFacts, RowFacts
<1>5. f \in Fit /\ f.at = tick + 1 /\ (f.good => ~Gaps(f))
  <2> HIDE DEF v
  <2>0. ViewOK(Now(v))
    BY <1>1, InvFacts, NowFacts
  <2>1. /\ Now(v).known \subseteq Facts /\ Now(v).age \in [Facts -> StalenessStatus]
        /\ Now(v).pinned \in Review /\ Now(v).pinned.fact \in Now(v).known \cup {0}
    BY <2>0 DEF ViewOK, View
  <2>2. QED BY <1>2, <1>3, <1>4, <2>1, AssessedType
<1>6. ViewOK(w) /\ w.fits = v.fits \cup {f} /\ w.quals = v.quals \cup {}
  <2> HIDE DEF v
  <2>1. w \in View /\ w.pinned = v.pinned /\ w.contacts = v.contacts /\ w.quals = v.quals
    BY <1>1, <1>5 DEF ViewOK, View
  <2>2. w.known = v.known /\ w.fits = v.fits \cup {f}
    BY <1>1 DEF ViewOK, View
  <2> HIDE DEF w
  <2>3. QED BY <1>1, <2>1, <2>2 DEF ViewOK, PeopleOf
<1>7. "ASSESS" \in Steps
  BY DEF Steps, StepOrder
<1>8. Step(p, "ASSESS", w)
  BY <1>2
<1>9. AddsFit({f}) /\ AddsQual({})
  BY <1>3, <1>5 DEF AddsFit, AddsQual
<1> HIDE DEF w
<1>10. QED BY <1>3, <1>6, <1>7, <1>8, <1>9, StepKeeps

LEMMA QualifyKeeps ==
  ASSUME FlowInv, NEW p \in Workers, work[p] # NoWork, work[p].step = "QUALIFY",
         Qualify(p, work[p].view)
  PROVE  FlowInv'
<1> DEFINE v == work[p].view
           q == Qualified(Now(v), Latest(v.fits))
           w == [v EXCEPT !.quals = v.quals \cup {q}]
<1>1. ViewOK(v) /\ v.fits # {}
  BY ProceedFacts DEF WorkOK, StepOK
<1>2. Step(p, "QUALIFY", w) /\ Tick /\ tick + 1 \in Ticks
  BY ProceedFacts DEF Qualify
<1>3. Latest(v.fits) \in Fit /\ Latest(v.fits) \in AllFits
  <2>1. Apart(v.fits, tick) /\ tick \in Nat /\ v.fits \subseteq Fit
    BY <1>1, ProceedFacts DEF ViewOK, View
  <2>0. v.fits \subseteq AllFits
    BY DEF AllFits, Open
  <2> HIDE DEF v
  <2>2. QED BY <1>1, <2>0, <2>1, LatestFacts
<1>4. /\ q \in Qualification /\ q.at = tick + 1 /\ q.fit = Latest(v.fits).at
      /\ q.status = "QUALIFIED" => Latest(v.fits).good
  <2> HIDE DEF v
  <2>1. QED BY <1>2, <1>3, QualifiedType
<1> HIDE DEF q
<1>5. AddsFit({}) /\ AddsQual({q})
  BY <1>2, <1>3, <1>4 DEF AddsFit, AddsQual
<1>6. ViewOK(w) /\ w.fits = v.fits \cup {} /\ w.quals = v.quals \cup {q}
  <2> HIDE DEF v
  <2>1. w \in View /\ w.pinned = v.pinned /\ w.contacts = v.contacts /\ w.fits = v.fits
    BY <1>1, <1>4 DEF ViewOK, View
  <2>2. w.known = v.known /\ w.quals = v.quals \cup {q}
    BY <1>1 DEF ViewOK, View
  <2> HIDE DEF w
  <2>3. QED BY <1>1, <2>1, <2>2 DEF ViewOK, PeopleOf
<1>7. "QUALIFY" \in Steps
  BY DEF Steps, StepOrder
<1> HIDE DEF w
<1>8. QED BY <1>2, <1>5, <1>6, <1>7, StepKeeps

(* The people found are under the qualification that was searched for.     *)
LEMMA PeopleFacts ==
  ASSUME NEW v, Apart(v.quals, tick), tick \in Nat, v.contacts \subseteq PeopleOf(v),
         Pursued(Target(v)), NEW found
  PROVE  /\ Target(v) \in v.quals
         /\ PeopleAfter(v, found) \subseteq PeopleOf(v)
<1>1. Latest(v.quals) # NoRow
  BY DEF Pursued, Target
<1>2. v.quals # {}
  BY <1>1 DEF Latest, First
<1>3. Target(v) \in v.quals
  BY <1>2, LatestFacts DEF Target
<1>4. Target(v).at \in PeopleOf(v)
  BY <1>3 DEF PeopleOf
<1>5. QED BY <1>3, <1>4 DEF PeopleAfter

LEMMA DiscoverKeeps ==
  ASSUME FlowInv, NEW p \in Workers, work[p] # NoWork,
         NEW found \in BOOLEAN, Discover(p, work[p].view, found)
  PROVE  FlowInv'
<1> DEFINE v == work[p].view
           c == PeopleAfter(v, found)
           ran == [at |-> tick + 1, qual |-> Target(v).at,
                   credits |-> work[p].credits, planned |-> TRUE]
           after == [v EXCEPT !.contacts = c]
           w == [after EXCEPT !.searches = after.searches \cup {ran}]
<1>1. /\ ViewOK(v) /\ Apart(v.quals, tick) /\ tick \in Nat
      /\ work[p].credits \in BOOLEAN
  BY ProceedFacts
<1>2. Target(v) \in v.quals /\ c \subseteq PeopleOf(v)
  <2>1. Pursued(Target(Now(v)))
    BY DEF Discover, Discoverable
  <2> HIDE DEF v
  <2>2. QED BY <1>1, <2>1, InvFacts, NowFacts, PeopleFacts DEF ViewOK
<1>3. /\ \A q \in v.quals : q.at \in Ticks
      /\ PeopleOf(v) \subseteq Ticks
  BY <1>1 DEF ViewOK, View, Qualification, PeopleOf
<1>4. \/ Tick /\ Step(p, "DISCOVER", w)
      \/ tick' = tick /\ Step(p, "DISCOVER", after)
  BY DEF Discover
<1>5. Tick => ran \in Search
  BY <1>1, <1>2, <1>3, ProceedFacts DEF Search
<1> HIDE DEF c, ran, v
<1>6. /\ after \in View /\ after.pinned = v.pinned /\ after.contacts = c
      /\ after.known = v.known /\ after.fits = v.fits /\ after.quals = v.quals
      /\ after.searches \subseteq Search
  BY <1>1, <1>2, <1>3 DEF ViewOK, View
<1> HIDE DEF after
<1>7. ViewOK(after)
  BY <1>1, <1>2, <1>6 DEF ViewOK, PeopleOf
<1>8. Tick => /\ w \in View /\ w.pinned = after.pinned /\ w.contacts = after.contacts
              /\ w.known = after.known /\ w.fits = after.fits /\ w.quals = after.quals
  BY <1>5, <1>6 DEF View
<1> HIDE DEF w
<1>9. Tick => ViewOK(w)
  BY <1>7, <1>8 DEF ViewOK, PeopleOf
<1>10. "DISCOVER" \in Steps /\ AddsFit({}) /\ AddsQual({})
  BY DEF Steps, StepOrder, AddsFit, AddsQual
<1>11. CASE Tick /\ Step(p, "DISCOVER", w)
  <2>1. w.fits = work[p].view.fits \cup {} /\ w.quals = work[p].view.quals \cup {}
    BY <1>6, <1>8, <1>11 DEF v
  <2>2. ViewOK(w)
    BY <1>9, <1>11
  <2>3. QED BY <1>10, <1>11, <2>1, <2>2, StepKeeps
<1>12. CASE tick' = tick /\ Step(p, "DISCOVER", after)
  <2>1. after.fits = work[p].view.fits \cup {} /\ after.quals = work[p].view.quals \cup {}
    BY <1>6 DEF v
  <2>2. QED BY <1>7, <1>10, <1>12, <2>1, StepKeeps
<1>13. QED BY <1>4, <1>11, <1>12

LEMMA BeginKeeps ==
  ASSUME FlowInv, NEW p \in Workers, NEW credits \in BOOLEAN, NEW steps \in StepLimits,
         Begin(p, credits, steps)
  PROVE  FlowInv'
<1> DEFINE w == [view |-> Seen, old |-> contacts, done |-> {}, step |-> "STOP",
                 credits |-> credits, limit |-> steps]
<1>1. /\ LeadTypeOK /\ RevisionsOK /\ FlowTypeOK /\ tick \in Nat
      /\ RowsOK(AllFits, AllQuals, tick)
      /\ {q.at : q \in quals} \subseteq Ticks
  BY InvFacts
<1>2. UNCHANGED <<icps, known, age, pinned, fits, quals, tick, personaMode, contacts, searches, expired>>
  BY DEF Begin, leadVars
<1>3. Seen \in View
  <2>1. /\ icps \in Rows /\ known \subseteq Facts /\ pinned \in Review
        /\ age \in [Facts -> StalenessStatus]
    BY <1>1 DEF LeadTypeOK, Rows
  <2>2. fits \subseteq Fit /\ quals \subseteq Qualification /\ searches \subseteq Search
    BY <1>1 DEF LeadTypeOK, FlowTypeOK
  <2>3. contacts \subseteq Ticks
    BY <1>1 DEF FlowTypeOK
  <2>4. QED BY <2>1, <2>2, <2>3 DEF Seen, View
<1>4. /\ Seen.pinned.fact \in Seen.known \cup {0} /\ Seen.contacts \subseteq PeopleOf(Seen)
      /\ Seen.fits = fits /\ Seen.quals = quals
  BY <1>1 DEF Seen, LeadTypeOK, FlowTypeOK, PeopleOf
<1>5. w \in Work /\ w.view = Seen
  BY <1>1, <1>3 DEF Work, FlowTypeOK
<1>6. Proceeding(p, w)
  BY DEF Begin
<1> HIDE DEF w
<1>7. PICK step \in Steps \cup {"STOP"} :
        StepOK(w.view, step) /\ work' = [work EXCEPT ![p] = [w EXCEPT !.step = step]]
  BY <1>6, ProceedingFacts
<1> DEFINE x == [w EXCEPT !.step = step]
<1>8. x \in Work /\ x.view = Seen /\ x.step = step
  BY <1>5 DEF Work
<1>9. work' = [work EXCEPT ![p] = x]
  BY <1>7
<1> HIDE DEF x
<1>10. WorkOK(x)
  BY <1>4, <1>5, <1>7, <1>8 DEF WorkOK
<1>11. /\ work' \in [Workers -> Work \cup {NoWork}]
       /\ \A u \in Open' : WorkOK(work'[u])
       /\ AllFits' \subseteq fits \cup AllFits
       /\ AllQuals' \subseteq quals \cup AllQuals
  BY <1>2, <1>4, <1>8, <1>9, <1>10, WorkLands
<1>12. fits \subseteq AllFits /\ quals \subseteq AllQuals
  BY DEF AllFits, AllQuals
<1>13. RowsOK(AllFits', AllQuals', tick')
  <2>1. AllFits' \subseteq AllFits \cup {} /\ AllQuals' \subseteq AllQuals \cup {}
    BY <1>11, <1>12
  <2>2. AddsFit({}) /\ AddsQual({})
    BY DEF AddsFit, AddsQual
  <2>3. QED BY <1>1, <1>2, <2>1, <2>2, RowsKeep
<1>14. \A u \in Workers : work'[u] # NoWork => work'[u].done \subseteq Steps
  BY <1>11 DEF Open, WorkOK, Work
<1>15. FlowTypeOK'
  BY <1>1, <1>2, <1>14 DEF FlowTypeOK, LeadTypeOK
<1>16. RevisionsOK'
  BY <1>1, <1>2, RevisionsStay DEF LeadTypeOK
<1>17. QED BY <1>2, <1>11, <1>13, <1>15, <1>16 DEF FlowInv

(* A request ends, with its rows landed or without.                        *)
LEMMA EndKeeps ==
  ASSUME FlowInv, NEW p \in Workers, work[p] # NoWork, Finish(p, work[p].view) \/ Abandon(p)
  PROVE  FlowInv'
<1> DEFINE v == work[p].view
<1>1. /\ LeadTypeOK /\ RevisionsOK /\ FlowTypeOK /\ tick \in Nat
      /\ RowsOK(AllFits, AllQuals, tick)
      /\ ViewOK(v)
  BY InvFacts, ProceedFacts
<1>2. /\ UNCHANGED <<icps, age, pinned, tick, personaMode, expired>>
      /\ work' = [work EXCEPT ![p] = NoWork]
  BY DEF Finish, Abandon, leadVars
<1>3. /\ known \subseteq known' /\ known' \subseteq known \cup v.known
      /\ quals \subseteq quals' /\ quals' \subseteq quals \cup v.quals
      /\ fits' \subseteq fits \cup v.fits
      /\ searches' \subseteq searches \cup v.searches
      /\ contacts' \subseteq contacts \cup {q.at : q \in quals'}
  <2>1. CASE Finish(p, v)
    <3>1. v.contacts \subseteq {q.at : q \in v.quals}
      BY <1>1 DEF ViewOK, PeopleOf
    <3> HIDE DEF v
    <3>2. contacts' \subseteq contacts \cup v.contacts /\ quals' = quals \cup v.quals
      BY <2>1 DEF Finish
    <3>3. QED BY <2>1, <3>1, <3>2 DEF Finish
  <2>2. CASE Abandon(p)
    BY <2>2 DEF Abandon, leadVars
  <2>3. QED BY <2>1, <2>2
<1>4. v.fits \subseteq AllFits /\ v.quals \subseteq AllQuals
  BY DEF AllFits, AllQuals, Open
<1>5. fits \subseteq AllFits /\ quals \subseteq AllQuals
  BY DEF AllFits, AllQuals
<1>6. /\ v.known \subseteq Facts /\ v.fits \subseteq Fit /\ v.quals \subseteq Qualification
      /\ v.searches \subseteq Search
  <2> HIDE DEF v
  <2>1. QED BY <1>1 DEF ViewOK, View
<1> HIDE DEF v
<1>7. /\ work' \in [Workers -> Work \cup {NoWork}]
      /\ \A u \in Open' : WorkOK(work'[u])
      /\ AllFits' \subseteq fits' \cup AllFits
      /\ AllQuals' \subseteq quals' \cup AllQuals
  BY <1>2, WorkLands
<1>8. RowsOK(AllFits', AllQuals', tick')
  <2>1. AllFits' \subseteq AllFits \cup {} /\ AllQuals' \subseteq AllQuals \cup {}
    BY <1>3, <1>4, <1>5, <1>7
  <2>2. AddsFit({}) /\ AddsQual({})
    BY DEF AddsFit, AddsQual
  <2>3. QED BY <1>1, <1>2, <2>1, <2>2, RowsKeep
<1>9. \A u \in Workers : work'[u] # NoWork => work'[u].done \subseteq Steps
  BY <1>7 DEF Open, WorkOK, Work
<1>10. contacts' \subseteq {q.at : q \in quals'}
  BY <1>1, <1>3 DEF FlowTypeOK
<1>11. LeadTypeOK'
  BY <1>1, <1>2, <1>3, <1>6 DEF LeadTypeOK
<1>12. FlowTypeOK'
  BY <1>1, <1>2, <1>3, <1>6, <1>9, <1>10, <1>11 DEF FlowTypeOK
<1>13. RevisionsOK'
  BY <1>1, <1>2, RevisionsStay DEF LeadTypeOK
<1>14. QED BY <1>2, <1>7, <1>8, <1>12, <1>13 DEF FlowInv

LEMMA ProceedKeeps ==
  ASSUME FlowInv, NEW p \in Workers, Proceed(p)
  PROVE  FlowInv'
<1>1. work[p] # NoWork
  BY DEF Proceed
<1>2. ASSUME NEW new \in SUBSET Facts, Research(p, work[p].view, new) PROVE FlowInv'
  BY <1>1, <1>2, ResearchKeeps
<1>3. CASE work[p].step = "ASSESS" /\ Assess(p, work[p].view)
  BY <1>1, <1>3, AssessKeeps
<1>4. CASE work[p].step = "QUALIFY" /\ Qualify(p, work[p].view)
  BY <1>1, <1>4, QualifyKeeps
<1>5. ASSUME NEW found \in BOOLEAN, Discover(p, work[p].view, found) PROVE FlowInv'
  BY <1>1, <1>5, DiscoverKeeps
<1>6. CASE Refuse(p, work[p].view) \/ Finish(p, work[p].view)
  BY <1>1, <1>6, EndKeeps DEF Refuse
<1>7. QED BY <1>2, <1>3, <1>4, <1>5, <1>6 DEF Proceed

(* Requests are left alone, and each table has at most one new row.        *)
LEMMA UserKeeps ==
  ASSUME FlowInv, work' = work, FlowTypeOK', RevisionsOK',
         tick' = tick \/ Tick,
         NEW newFits, AddsFit(newFits),
         fits' = fits \cup newFits,
         NEW newQuals, AddsQual(newQuals),
         quals' = quals \cup newQuals
  PROVE  FlowInv'
<1>1. tick \in Nat /\ RowsOK(AllFits, AllQuals, tick)
  BY InvFacts
<1>2. Open' = Open
  BY DEF Open
<1>3. AllFits' \subseteq AllFits \cup newFits /\ AllQuals' \subseteq AllQuals \cup newQuals
  BY <1>2 DEF AllFits, AllQuals
<1>4. RowsOK(AllFits', AllQuals', tick')
  BY <1>1, <1>3, RowsKeep
<1>5. \A w \in Open' : WorkOK(work'[w])
  BY <1>2 DEF FlowInv
<1>6. QED BY <1>4, <1>5 DEF FlowInv

LEMMA TickMoves ==
  ASSUME FlowInv, tick' = tick \/ Tick
  PROVE  tick' \in Ticks /\ tick <= tick'
<1>1. tick \in Ticks /\ tick \in Nat /\ (Tick => tick + 1 \in Ticks)
  BY InvFacts
<1>2. tick' = tick \/ (Tick /\ tick' = tick + 1)
  BY DEF Tick
<1>3. QED BY <1>1, <1>2

LEMMA WorkflowUsersKeep ==
  ASSUME FlowInv,
         Expire \/ \E credits, found \in BOOLEAN : Refresh(credits, found)
  PROVE  FlowInv'
<1>1. /\ LeadTypeOK /\ RevisionsOK /\ FlowTypeOK
      /\ tick \in Nat /\ tick \in Ticks /\ (Tick => tick + 1 \in Ticks)
      /\ Apart(quals, tick)
      /\ {q.at : q \in quals} \subseteq Ticks
  BY InvFacts
<1>2. /\ UNCHANGED <<icps, known, age, pinned, fits, quals, personaMode, work>>
      /\ tick' = tick \/ Tick
  BY DEF Expire, Refresh, leadVars
<1>3. tick' \in Ticks /\ tick <= tick'
  BY <1>2, TickMoves
<1>4. /\ expired' \in Ticks
      /\ contacts' \subseteq {q.at : q \in quals}
      /\ searches' \subseteq Search
  <2>1. CASE Expire
    BY <1>1, <2>1 DEF Expire, FlowTypeOK
  <2>2. ASSUME NEW credits \in BOOLEAN, NEW found \in BOOLEAN, Refresh(credits, found)
        PROVE  /\ expired' \in Ticks
               /\ contacts' \subseteq {q.at : q \in quals}
               /\ searches' \subseteq Search
    <3> DEFINE ran == [at |-> tick + 1, qual |-> Target(Seen).at,
                       credits |-> credits, planned |-> FALSE]
    <3>1. /\ Tick /\ Discoverable(Seen) /\ expired' = expired
          /\ contacts' = PeopleAfter(Seen, found)
          /\ searches' = searches \cup {ran}
      BY <2>2 DEF Refresh
    <3>2. /\ Seen.quals = quals /\ Seen.contacts \subseteq PeopleOf(Seen)
          /\ PeopleOf(Seen) = {q.at : q \in quals}
      BY <1>1 DEF Seen, PeopleOf, FlowTypeOK
    <3>3. Pursued(Target(Seen))
      BY <3>1 DEF Discoverable
    <3>4. Target(Seen) \in quals /\ PeopleAfter(Seen, found) \subseteq PeopleOf(Seen)
      BY <1>1, <3>2, <3>3, PeopleFacts
    <3>5. ran \in Search
      BY <1>1, <3>1, <3>4 DEF Search
    <3>6. QED BY <1>1, <3>1, <3>2, <3>4, <3>5 DEF FlowTypeOK
  <2>3. QED BY <2>1, <2>2
<1>5. FlowTypeOK'
  BY <1>1, <1>2, <1>3, <1>4 DEF FlowTypeOK, LeadTypeOK
<1>6. RevisionsOK'
  BY <1>1, <1>2, <1>3, RevisionsStay
<1>7. /\ fits' = fits \cup {} /\ quals' = quals \cup {}
      /\ AddsFit({}) /\ AddsQual({})
  BY <1>2 DEF AddsFit, AddsQual
<1>8. QED BY <1>2, <1>5, <1>6, <1>7, UserKeeps

(* A new revision, and perhaps a change of an older one that keeps its age *)
(* and its version.                                                        *)
LEMMA RevisionAdded ==
  ASSUME FlowInv, Tick, NEW n \in Revisions, icps[n] = NoRow,
         NEW i, i \in Icp, i.born = tick + 1, i.version <= Cardinality(Used) + 1,
         icps' \in Rows, icps'[n] = i,
         \A r \in Revisions \ {n} :
           \/ icps'[r] = icps[r]
           \/ /\ icps[r] # NoRow /\ icps'[r] # NoRow
              /\ icps'[r].born = icps[r].born /\ icps'[r].version = icps[r].version
  PROVE  RevisionsOK'
<1>1. LeadTypeOK /\ RevisionsOK /\ tick \in Nat /\ tick' = tick + 1
  BY InvFacts DEF Tick
<1>2. i # NoRow
  BY LeadFitAssumption
<1>3. Used' = Used \cup {n} /\ n \notin Used
  BY <1>2 DEF Used
<1>4. IsFiniteSet(Used) /\ Cardinality(Used) \in Nat /\ Cardinality(Used') = Cardinality(Used) + 1
  <2>1. IsFiniteSet(Used)
    BY LeadFitAssumption, FS_Subset DEF Used
  <2>2. QED BY <1>3, <2>1, FS_AddElement, FS_CardinalityType
<1>5. \A r \in Used : /\ icps[r] \in Icp /\ icps[r].born \in Nat /\ icps[r].version \in Nat
                      /\ icps[r].born <= tick /\ icps[r].version <= Cardinality(Used)
  <2> SUFFICES ASSUME NEW r \in Used
               PROVE  /\ icps[r] \in Icp /\ icps[r].born \in Nat /\ icps[r].version \in Nat
    BY <1>1 DEF RevisionsOK
  <2>1. icps[r] \in Icp
    BY <1>1 DEF Used, LeadTypeOK
  <2>2. icps[r].born \in Ticks /\ icps[r].version \in Versions
    BY <2>1 DEF Icp
  <2>3. QED BY <2>1, <2>2, LeadFitAssumption DEF Ticks, Versions
<1>6. \A r \in Used : /\ icps'[r].born = icps[r].born
                      /\ icps'[r].version = icps[r].version
  BY <1>3 DEF Used
<1>7. i.version \in Nat
  <2>1. i.version \in Versions
    BY DEF Icp
  <2>2. QED BY <2>1 DEF Versions
<1>8. \A r \in Used' : icps'[r].born <= tick' /\ icps'[r].version <= Cardinality(Used')
  <2> SUFFICES ASSUME NEW r \in Used'
               PROVE  icps'[r].born <= tick' /\ icps'[r].version <= Cardinality(Used')
    OBVIOUS
  <2>1. CASE r = n
    BY <1>1, <1>4, <1>7, <2>1
  <2>2. CASE r \in Used
    BY <1>1, <1>4, <1>5, <1>6, <2>2
  <2>3. QED BY <1>3, <2>1, <2>2
<1>9. BornApart(icps')
  <2> SUFFICES ASSUME NEW r \in Revisions, NEW s \in Revisions, r # s,
                      icps'[r] # NoRow, icps'[s] # NoRow
               PROVE  icps'[r].born # icps'[s].born
    BY DEF BornApart
  <2>1. r \in Used \cup {n} /\ s \in Used \cup {n}
    BY <1>3 DEF Used
  <2>2. CASE r = n
    BY <1>1, <1>5, <1>6, <2>1, <2>2
  <2>3. CASE s = n
    BY <1>1, <1>5, <1>6, <2>1, <2>3
  <2>4. CASE r # n /\ s # n
    <3>1. icps[r].born # icps[s].born
      BY <1>1, <2>1, <2>4 DEF RevisionsOK, BornApart, Used
    <3>2. QED BY <1>6, <2>1, <2>4, <3>1
  <2>5. QED BY <2>2, <2>3, <2>4
<1>10. QED BY <1>8, <1>9 DEF RevisionsOK

(* There is a number left for a version that is added.                     *)
LEMMA VersionLeft ==
  ASSUME NEW n \in Revisions, icps[n] = NoRow,
         NEW k \in Nat \ {0}, k <= Cardinality(Used) + 1
  PROVE  k \in Versions
<1>1. IsFiniteSet(Revisions) /\ Used \cup {n} \subseteq Revisions /\ n \notin Used
  BY LeadFitAssumption DEF Used
<1>2. IsFiniteSet(Used) /\ Cardinality(Used) \in Nat /\ Cardinality(Revisions) \in Nat
  BY <1>1, FS_Subset, FS_CardinalityType
<1>3. Cardinality(Used \cup {n}) = Cardinality(Used) + 1
  BY <1>1, <1>2, FS_AddElement
<1>4. Cardinality(Used \cup {n}) <= Cardinality(Revisions)
  BY <1>1, FS_Subset
<1>5. QED BY <1>2, <1>3, <1>4 DEF Versions

LEMMA CatalogKeeps ==
  ASSUME FlowInv, UNCHANGED workVars,
         \/ \E r \in Revisions, name \in IcpNames : CreateIcp(r, name)
         \/ \E r, s \in Revisions, name \in IcpNames, on \in BOOLEAN : ReviseIcp(r, s, name, on)
         \/ \E r \in Revisions, on \in BOOLEAN : SwitchIcp(r, on)
  PROVE  FlowInv'
<1>1. /\ LeadTypeOK /\ RevisionsOK /\ FlowTypeOK
      /\ tick \in Nat /\ tick \in Ticks /\ (Tick => tick + 1 \in Ticks)
  BY InvFacts
<1>2. /\ UNCHANGED <<known, age, pinned, fits, quals>> /\ Tick
      /\ UNCHANGED <<personaMode, contacts, searches, expired, work>>
  BY DEF CreateIcp, ReviseIcp, SwitchIcp, workVars
<1>3. tick' = tick + 1 /\ tick' \in Ticks
  BY <1>1, <1>2 DEF Tick
<1>4. icps \in Rows /\ \A r \in Revisions : icps[r] # NoRow => icps[r] \in Icp
  BY <1>1 DEF LeadTypeOK, Rows
<1>5. Cardinality(Used) \in Nat
  <2>1. IsFiniteSet(Used)
    BY LeadFitAssumption, FS_Subset DEF Used
  <2>2. QED BY <2>1, FS_CardinalityType
<1>6. ASSUME NEW r \in Revisions, NEW name \in IcpNames, CreateIcp(r, name)
      PROVE  icps' \in Rows /\ RevisionsOK'
  <2> DEFINE i == [lineage |-> r, name |-> name, version |-> 1,
                   active |-> TRUE, born |-> tick + 1]
  <2>1. icps[r] = NoRow /\ icps' = [icps EXCEPT ![r] = i]
    BY <1>6 DEF CreateIcp
  <2>2. 1 \in Versions
    BY <1>5, <2>1, VersionLeft
  <2>3. i \in Icp
    BY <1>1, <1>2, <2>2 DEF Icp
  <2>4. i.born = tick + 1 /\ i.version <= Cardinality(Used) + 1
    BY <1>5
  <2> HIDE DEF i
  <2>5. icps' \in Rows /\ icps'[r] = i /\ \A q \in Revisions \ {r} : icps'[q] = icps[q]
    BY <1>4, <2>1, <2>3 DEF Rows
  <2>6. QED BY <1>2, <2>1, <2>3, <2>4, <2>5, RevisionAdded
<1>7. ASSUME NEW r \in Revisions, NEW s \in Revisions, NEW name \in IcpNames,
             NEW on \in BOOLEAN, ReviseIcp(r, s, name, on)
      PROVE  icps' \in Rows /\ RevisionsOK'
  <2> DEFINE i == [lineage |-> icps[r].lineage, name |-> name,
                   version |-> icps[r].version + 1, active |-> on, born |-> tick + 1]
             old == [icps[r] EXCEPT !.active = FALSE]
  <2>1. icps[r] # NoRow /\ icps[s] = NoRow /\ r # s
    BY <1>7 DEF ReviseIcp
  <2>2. icps'[r] = old /\ icps'[s] = i /\ icps' \in [Revisions -> {old, i} \cup Icp \cup {NoRow}]
        /\ \A q \in Revisions \ {r, s} : icps'[q] = icps[q]
    BY <1>4, <1>7, <2>1 DEF ReviseIcp, Rows
  <2>3. icps[r] \in Icp /\ icps[r].version \in Nat /\ icps[r].version <= Cardinality(Used)
    <3>1. icps[r] \in Icp
      BY <1>4, <2>1
    <3>2. icps[r].version \in Versions
      BY <3>1 DEF Icp
    <3>3. QED BY <1>1, <2>1, <3>1, <3>2 DEF Versions, RevisionsOK, Used
  <2>4. icps[r].version + 1 \in Versions
    BY <1>5, <2>1, <2>3, VersionLeft
  <2>5. i \in Icp /\ i.born = tick + 1 /\ i.version <= Cardinality(Used) + 1
    BY <1>1, <1>2, <1>5, <2>3, <2>4 DEF Icp
  <2>6. old \in Icp /\ old.born = icps[r].born /\ old.version = icps[r].version
    BY <2>3 DEF Icp
  <2> HIDE DEF i, old
  <2>7. icps' \in Rows
    BY <2>2, <2>5, <2>6 DEF Rows
  <2>8. old # NoRow
    BY <2>6, LeadFitAssumption
  <2>9. \A q \in Revisions \ {s} :
          \/ icps'[q] = icps[q]
          \/ /\ icps[q] # NoRow /\ icps'[q] # NoRow
             /\ icps'[q].born = icps[q].born /\ icps'[q].version = icps[q].version
    BY <2>1, <2>2, <2>6, <2>8
  <2>10. QED BY <1>2, <2>1, <2>2, <2>5, <2>7, <2>9, RevisionAdded
<1>8. ASSUME NEW r \in Revisions, NEW on \in BOOLEAN, SwitchIcp(r, on)
      PROVE  icps' \in Rows /\ RevisionsOK'
  <2> DEFINE i == [icps[r] EXCEPT !.active = on]
  <2>1. icps[r] # NoRow /\ icps[r] \in Icp /\ icps' = [icps EXCEPT ![r] = i]
    BY <1>4, <1>8 DEF SwitchIcp
  <2>2. i \in Icp /\ i.born = icps[r].born /\ i.version = icps[r].version
    BY <2>1 DEF Icp
  <2> HIDE DEF i
  <2>3. i # NoRow
    BY <2>2, LeadFitAssumption
  <2>4. /\ icps' \in Rows
        /\ \A q \in Revisions : /\ icps'[q] # NoRow <=> icps[q] # NoRow
                                /\ icps'[q] # NoRow =>
                                     /\ icps'[q].born = icps[q].born
                                     /\ icps'[q].version = icps[q].version
    BY <1>4, <2>1, <2>2, <2>3 DEF Rows
  <2>5. Used' = Used
    BY <2>4 DEF Used
  <2>6. BornApart(icps')
    BY <1>1, <2>4 DEF RevisionsOK, BornApart
  <2>7. \A q \in Used : icps'[q].born <= tick' /\ icps'[q].version <= Cardinality(Used)
    <3> SUFFICES ASSUME NEW q \in Used
                 PROVE  icps'[q].born <= tick' /\ icps'[q].version <= Cardinality(Used)
      OBVIOUS
    <3>1. icps'[q].born = icps[q].born /\ icps'[q].version = icps[q].version
      BY <2>4 DEF Used
    <3>2. icps[q] \in Icp
      BY <1>4 DEF Used
    <3>3. icps[q].born \in Nat
      BY <3>2 DEF Icp, Ticks
    <3>4. icps[q].born <= tick /\ icps[q].version <= Cardinality(Used)
      BY <1>1 DEF RevisionsOK
    <3>5. QED BY <1>1, <1>3, <3>1, <3>3, <3>4
  <2>8. QED BY <2>4, <2>5, <2>6, <2>7 DEF RevisionsOK
<1>9. icps' \in Rows /\ RevisionsOK'
  BY <1>6, <1>7, <1>8
<1>10. FlowTypeOK'
  BY <1>1, <1>2, <1>3, <1>9 DEF FlowTypeOK, LeadTypeOK, Rows
<1>11. /\ fits' = fits \cup {} /\ quals' = quals \cup {}
       /\ AddsFit({}) /\ AddsQual({})
  BY <1>2 DEF AddsFit, AddsQual
<1>12. QED BY <1>2, <1>9, <1>10, <1>11, UserKeeps

LEMMA FactsKeep ==
  ASSUME FlowInv, UNCHANGED workVars,
         \/ \E new \in SUBSET Facts : Observe(new)
         \/ \E f \in Facts : Age(f)
         \/ \E f \in Facts, action \in ReviewAction : ReviewFact(f, action)
         \/ RevokeReview
  PROVE  FlowInv'
<1>1. LeadTypeOK /\ RevisionsOK /\ FlowTypeOK
  BY InvFacts
<1>2. /\ UNCHANGED <<icps, fits, quals, personaMode, contacts, searches, expired, work>>
      /\ tick' = tick \/ Tick
  BY DEF Observe, Age, ReviewFact, RevokeReview, workVars
<1>3. tick' \in Ticks /\ tick <= tick'
  BY <1>2, TickMoves
<1>4. /\ known' \subseteq Facts /\ pinned' \in Review /\ pinned'.fact \in known' \cup {0}
      /\ age' \in [Facts -> StalenessStatus]
  <2>1. CASE \E new \in SUBSET Facts : Observe(new)
    BY <1>1, <2>1 DEF Observe, LeadTypeOK
  <2>2. ASSUME NEW f \in Facts, Age(f)
        PROVE  /\ known' = known /\ pinned' = pinned
               /\ age' \in [Facts -> StalenessStatus]
    BY <1>1, <2>2 DEF Age, LeadTypeOK, StalenessStatus
  <2>3. ASSUME NEW f \in Facts, NEW action \in ReviewAction, ReviewFact(f, action)
        PROVE  /\ known' \subseteq Facts /\ age' = age
               /\ pinned' \in Review /\ pinned'.fact \in known'
    BY <1>1, <2>3 DEF ReviewFact, LeadTypeOK, Review
  <2>4. CASE RevokeReview
    BY <1>1, <2>4 DEF RevokeReview, LeadTypeOK, Review, NoReview
  <2>5. QED BY <1>1, <2>1, <2>2, <2>3, <2>4 DEF LeadTypeOK
<1>5. FlowTypeOK'
  BY <1>1, <1>2, <1>3, <1>4 DEF FlowTypeOK, LeadTypeOK
<1>6. RevisionsOK'
  BY <1>1, <1>2, <1>3, RevisionsStay
<1>7. /\ fits' = fits \cup {} /\ quals' = quals \cup {}
      /\ AddsFit({}) /\ AddsQual({})
  BY <1>2 DEF AddsFit, AddsQual
<1>8. QED BY <1>2, <1>5, <1>6, <1>7, UserKeeps

LEMMA ScoresKeep ==
  ASSUME FlowInv, UNCHANGED workVars,
         (\E r \in Revisions : AssessFit(r)) \/ (\E f \in fits : QualifyLead(f))
  PROVE  FlowInv'
<1>1. /\ LeadTypeOK /\ RevisionsOK /\ FlowTypeOK /\ fits \subseteq AllFits
      /\ tick \in Nat /\ tick \in Ticks /\ (Tick => tick + 1 \in Ticks)
  BY InvFacts
<1>2. /\ UNCHANGED <<icps, known, age, pinned, personaMode, contacts, searches, expired, work>>
      /\ Tick /\ tick + 1 \in Ticks
  BY <1>1 DEF AssessFit, QualifyLead, workVars
<1>3. tick' = tick + 1 /\ tick' \in Ticks /\ tick <= tick'
  BY <1>1, <1>2 DEF Tick
<1>4. RevisionsOK'
  BY <1>1, <1>2, <1>3, RevisionsStay
<1>5. ASSUME NEW r \in Revisions, AssessFit(r) PROVE FlowInv'
  <2>1. PICK f \in Assessed(Committed, r) : fits' = fits \cup {f}
    BY <1>5 DEF AssessFit
  <2>2. quals' = quals /\ quals' = quals \cup {}
    BY <1>5 DEF AssessFit
  <2>3. /\ Committed.known \subseteq Facts /\ Committed.age \in [Facts -> StalenessStatus]
        /\ Committed.pinned \in Review /\ Committed.pinned.fact \in Committed.known \cup {0}
    BY <1>1 DEF Committed, LeadTypeOK
  <2>4. f \in Fit /\ f.at = tick + 1 /\ (f.good => ~Gaps(f))
    BY <1>2, <2>3, AssessedType
  <2>5. FlowTypeOK'
    BY <1>1, <1>2, <1>3, <2>1, <2>2, <2>4 DEF FlowTypeOK, LeadTypeOK
  <2>6. AddsFit({f}) /\ AddsQual({})
    BY <1>2, <2>4 DEF AddsFit, AddsQual
  <2>7. QED BY <1>2, <1>4, <2>1, <2>2, <2>5, <2>6, UserKeeps
<1>6. ASSUME NEW f \in fits, QualifyLead(f) PROVE FlowInv'
  <2> DEFINE q == Qualified(Committed, f)
  <2>1. quals' = quals \cup {q} /\ fits' = fits /\ fits' = fits \cup {}
    BY <1>6 DEF QualifyLead
  <2>2. f \in Fit /\ f \in AllFits
    BY <1>1 DEF LeadTypeOK
  <2>3. /\ q \in Qualification /\ q.at = tick + 1 /\ q.fit = f.at
        /\ q.status = "QUALIFIED" => f.good
    BY <1>2, <2>2, QualifiedType
  <2> HIDE DEF q
  <2>4. FlowTypeOK'
    BY <1>1, <1>2, <1>3, <2>1, <2>3 DEF FlowTypeOK, LeadTypeOK
  <2>5. AddsFit({}) /\ AddsQual({q})
    BY <1>2, <2>2, <2>3 DEF AddsFit, AddsQual
  <2>6. QED BY <1>2, <1>4, <2>1, <2>4, <2>5, UserKeeps
<1>7. QED BY <1>5, <1>6

LEMMA FlowStep == FlowInv /\ [FlowNext]_flowVars => FlowInv'
<1> SUFFICES ASSUME FlowInv, [FlowNext]_flowVars PROVE FlowInv'
  OBVIOUS
<1>1. CASE UNCHANGED flowVars
  <2>1. UNCHANGED <<icps, known, age, pinned, fits, quals, tick, personaMode, contacts,
                    searches, expired, work>>
    BY <1>1 DEF flowVars, leadVars, workVars
  <2>2. FlowTypeOK' /\ RevisionsOK'
    BY <2>1, InvFacts DEF FlowTypeOK, LeadTypeOK, RevisionsOK, Used
  <2>3. /\ fits' = fits \cup {} /\ quals' = quals \cup {}
        /\ AddsFit({}) /\ AddsQual({})
    BY <2>1 DEF AddsFit, AddsQual
  <2>4. QED BY <2>1, <2>2, <2>3, UserKeeps
<1>2. ASSUME NEW p \in Workers, NEW credits \in BOOLEAN, NEW steps \in StepLimits,
             Begin(p, credits, steps)
      PROVE  FlowInv'
  BY <1>2, BeginKeeps
<1>3. ASSUME NEW p \in Workers, Proceed(p) PROVE FlowInv'
  BY <1>3, ProceedKeeps
<1>4. CASE LeadNext /\ UNCHANGED workVars
  BY <1>4, CatalogKeeps, FactsKeep, ScoresKeep DEF LeadNext
<1>5. CASE Expire \/ \E credits, found \in BOOLEAN : Refresh(credits, found)
  BY <1>5, WorkflowUsersKeep
<1>6. ASSUME NEW p \in Workers, work[p] # NoWork, Abandon(p) PROVE FlowInv'
  BY <1>6, EndKeeps
<1>7. QED BY <1>1, <1>2, <1>3, <1>4, <1>5, <1>6 DEF FlowNext

-----------------------------------------------------------------------------
(* Nothing is stored and no request is open.                               *)
LEMMA NothingWritten ==
  ASSUME fits = {}, quals = {}, work = [w \in Workers |-> NoWork],
         FlowTypeOK, RevisionsOK
  PROVE  FlowInv
<1>1. Open = {}
  BY DEF Open
<1>2. AllFits = {} /\ AllQuals = {}
  BY <1>1 DEF AllFits, AllQuals
<1>3. QED BY <1>1, <1>2 DEF FlowInv, RowsOK, Apart, Sound, Judged

LEMMA FlowInitial == FlowInit => FlowInv
<1> SUFFICES ASSUME FlowInit PROVE FlowInv
  OBVIOUS
<1>1. 0 \in Ticks
  BY LeadFitAssumption DEF Ticks
<1>2. FlowTypeOK
  BY <1>1 DEF FlowInit, LeadInit, FlowTypeOK, LeadTypeOK, Review, NoReview, StalenessStatus
<1>3. RevisionsOK
  BY DEF FlowInit, LeadInit, RevisionsOK, BornApart, Used
<1>4. QED BY <1>2, <1>3, NothingWritten DEF FlowInit, LeadInit

LEMMA FlowInvariant == FlowSpec => []FlowInv
BY FlowInitial, FlowStep, PTL DEF FlowSpec

(* The workflow assesses by the revision that freshness will ask for,      *)
(* whatever users revise and switch on or off, but for a tie.              *)
THEOREM ServicesAlwaysAgree == FlowSpec => []ServicesAgreeOnIcp
<1>1. FlowInv => ServicesAgreeOnIcp
  BY ServicesAgree DEF FlowInv, FlowTypeOK
<1>2. QED BY <1>1, FlowInvariant, PTL

(* While the assessment behind a QUALIFIED lead is current by the          *)
(* comparison of fit_freshness.py, what it scored can be relied on: the    *)
(* observation stands, is not outdated, is not contradicted unless a       *)
(* review resolved that, and is what a reviewer selected; and no higher    *)
(* revision of its lineage is active.                                      *)
THEOREM ActionableAlwaysHolds == FlowSpec => []ActionableStillHolds
<1>1. FlowInv => ActionableStillHolds
  <2> SUFFICES ASSUME FlowInv PROVE ActionableStillHolds
    OBVIOUS
  <2>1. /\ LeadTypeOK /\ BornApart(icps) /\ RowsOK(AllFits, AllQuals, tick)
        /\ fits \subseteq AllFits /\ quals \subseteq AllQuals
    BY InvFacts DEF RevisionsOK
  <2>2. Sound(fits) /\ Judged(quals, fits, tick)
    BY <2>1 DEF RowsOK, Sound, Judged
  <2>3. QED BY <2>1, <2>2, ActionableHolds
<1>2. QED BY <1>1, FlowInvariant, PTL

LEMMA WorkflowInitial == MCInit => FlowInv /\ results \in Tables
<1> SUFFICES ASSUME MCInit PROVE FlowInv /\ results \in Tables
  OBVIOUS
<1>1. results \in Tables
  <2>1. CASE focus = "scores"
    BY <2>1 DEF MCInit, ScoringInit, Tables
  <2>2. CASE focus # "scores"
    <3>1. results = MCBare
      BY <2>2 DEF MCInit
    <3>2. MCBare \in Tables
      BY MCAssumption DEF MCBare, Tables, Criterion
    <3>3. QED BY <3>1, <3>2
  <2>3. QED BY <2>1, <2>2
<1>2. /\ 0 \in Ticks /\ tick = 0
  BY LeadFitAssumption DEF Ticks, MCInit
<1>3. 1 \in Revisions => MCIcp \in Icp
  <2> SUFFICES ASSUME 1 \in Revisions PROVE MCIcp \in Icp
    OBVIOUS
  <2>1. 1 \in Versions
    <3>1. Cardinality(Revisions) \in Nat /\ Cardinality(Revisions) # 0
      BY LeadFitAssumption, FS_CardinalityType, FS_EmptySet
    <3>2. QED BY <3>1 DEF Versions
  <2>2. (CHOOSE n \in IcpNames : TRUE) \in IcpNames
    BY MCAssumption
  <2>3. QED BY <1>2, <2>1, <2>2 DEF MCIcp, Icp
<1>4. /\ icps = [r \in Revisions |-> IF r = 1 THEN MCIcp ELSE NoRow]
      /\ icps \in [Revisions -> Icp \cup {NoRow}]
  BY <1>3 DEF MCInit
<1>5. FlowTypeOK
  BY <1>2, <1>4 DEF MCInit, FlowTypeOK, LeadTypeOK, Review, NoReview, StalenessStatus
<1>6. \A r \in Used : r = 1 /\ icps[r] = MCIcp
  BY <1>4 DEF Used
<1>7. BornApart(icps)
  BY <1>6 DEF BornApart, Used
<1>8. \A r \in Used : icps[r].born <= tick /\ icps[r].version <= Cardinality(Used)
  <2> SUFFICES ASSUME NEW r \in Used
               PROVE  icps[r].born <= tick /\ icps[r].version <= Cardinality(Used)
    OBVIOUS
  <2>0. MCIcp.born = 0 /\ MCIcp.version = 1
    BY DEF MCIcp
  <2>1. icps[r].born = 0 /\ icps[r].version = 1
    BY <1>6, <2>0
  <2>2. IsFiniteSet(Used)
    BY LeadFitAssumption, FS_Subset DEF Used
  <2>3. Cardinality(Used) \in Nat /\ Cardinality(Used) # 0
    BY <2>2, FS_CardinalityType, FS_EmptySet
  <2>4. QED BY <1>2, <2>1, <2>3
<1>9. FlowInv
  BY <1>5, <1>7, <1>8, NothingWritten DEF MCInit, RevisionsOK
<1>10. QED BY <1>1, <1>9

LEMMA WorkflowStep ==
  FlowInv /\ results \in Tables /\ [MCNext]_mcVars => FlowInv' /\ (results \in Tables)'
<1> SUFFICES ASSUME FlowInv, results \in Tables, [MCNext]_mcVars
             PROVE  FlowInv' /\ results' \in Tables
  OBVIOUS
<1>1. [FlowNext]_flowVars /\ [ScoringNext]_results
  <2>1. CASE MCFlow
    BY <2>1 DEF MCFlow
  <2>2. CASE MCUsers
    BY <2>2 DEF MCUsers, FlowNext
  <2>3. CASE focus = "scores" /\ ScoringNext /\ UNCHANGED <<focus, flowVars>>
    BY <2>3
  <2>4. CASE UNCHANGED mcVars
    BY <2>4 DEF mcVars
  <2>5. QED BY <2>1, <2>2, <2>3, <2>4 DEF MCNext
<1>2. results' \in Tables
  BY <1>1 DEF ScoringNext, Learn, Tables
<1>3. QED BY <1>1, <1>2, FlowStep

(* Every variable of the workflow keeps its type, and every score its      *)
(* range: of rows stored, and of the requests that are open beside users.  *)
THEOREM WorkflowTypes == MCSpec => []WorkflowTypeOK
<1>1. FlowInv /\ results \in Tables => WorkflowTypeOK
  BY TablesAreTyped DEF FlowInv, WorkflowTypeOK
<1>2. MCSpec => MCInit /\ [][MCNext]_mcVars
  BY PTL DEF MCSpec
<1>3. QED BY <1>1, <1>2, WorkflowInitial, WorkflowStep, PTL
=============================================================================
