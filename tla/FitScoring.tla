------------------------------ MODULE FitScoring ------------------------------
(***************************************************************************)
(* The arithmetic of a fit assessment (application/fit.py) and of the lead *)
(* qualification made from it (application/qualification.py), over the     *)
(* results of comparing an ICP's criteria with what is known of a company. *)
(*                                                                         *)
(* The state is one such table of results; a step is new evidence for one  *)
(* criterion.  Comparing texts and numbers is abstracted to its outcome.   *)
(***************************************************************************)
EXTENDS Integers, FiniteSets, FiniteSetsExt

CONSTANTS
  CriterionIds,  \* the criteria of the ICP
  Weights        \* the weights a criterion may have

(* _evaluate_criterion: without a usable value the result is UNKNOWN.      *)
Criterion ==
  [weight : Weights, required : BOOLEAN,
   outcome : [result : {"MATCH", "NO_MATCH", "UNKNOWN"},
              quality : {"CURRENT", "STALE", "CONFLICTED"}]]

ASSUME ScoringAssumption ==
  Weights \subseteq Nat \ {0} /\ IsFiniteSet(CriterionIds)

VARIABLE results  \* results[i]: the criterion i, evaluated

-----------------------------------------------------------------------------
(* Python's round(a / b): halves go to the even neighbour.                 *)
Rounded(a, b) ==
  LET q == a \div b
      half == 2 * (a % b)
  IN IF half > b \/ (half = b /\ q % 2 = 1) THEN q + 1 ELSE q

With(t, result) == {i \in CriterionIds : t[i].outcome.result = result}

Weight(t, I) == MapThenSumSet(LAMBDA i : t[i].weight, I)

Known(t) == CriterionIds \ With(t, "UNKNOWN")

RequiredHas(t, result) == \E i \in With(t, result) : t[i].required

EvidenceIs(t, quality) == \E i \in CriterionIds : t[i].outcome.quality = quality

(* Mutant: the matches are divided by the number of known criteria.        *)
FitScorePerCriterion(t) ==
  IF Known(t) = {} THEN 0
  ELSE Rounded(100 * Weight(t, With(t, "MATCH")), Cardinality(Known(t)))

(* The score: required failures cap it at 39.                              *)
FitScore(t) ==
  LET score == IF Known(t) = {} THEN 0
               ELSE Rounded(100 * Weight(t, With(t, "MATCH")), Weight(t, Known(t)))
  IN IF RequiredHas(t, "NO_MATCH") /\ score > 39 THEN 39 ELSE score

Coverage(t) ==
  IF CriterionIds = {} THEN 0
  ELSE Rounded(100 * Weight(t, Known(t)), Weight(t, CriterionIds))

Confidence(t) ==
  CASE Coverage(t) >= 80 -> 100 [] Coverage(t) \in 50 .. 79 -> 60 [] OTHER -> 30

FitGrade(t) ==
  CASE Known(t) = {} -> "UNKNOWN"
    [] Known(t) # {} /\ RequiredHas(t, "NO_MATCH") -> "D"
    [] OTHER -> CASE FitScore(t) >= 80 -> "A" [] FitScore(t) \in 65 .. 79 -> "B"
                  [] FitScore(t) \in 50 .. 64 -> "C" [] OTHER -> "D"

FitStatus(t) ==
  IF EvidenceIs(t, "CONFLICTED") THEN "CONFLICTED"
  ELSE IF RequiredHas(t, "UNKNOWN") THEN "NEEDS_MORE_RESEARCH"
  ELSE IF EvidenceIs(t, "STALE") THEN "STALE"
  ELSE IF With(t, "UNKNOWN") # {} THEN "PARTIAL" ELSE "COMPLETE"

(* The scores that the weighted sum may be rounded to: it is a sum of      *)
(* binary fractions, whose halves may fall to either side.                 *)
QualificationScores(t, current) ==
  LET tenths == 6 * FitScore(t) + 2 * Coverage(t) + Confidence(t)
                  + IF current THEN 100 ELSE 0
  IN IF tenths % 10 = 5 THEN {tenths \div 10, tenths \div 10 + 1}
     ELSE {Rounded(tenths, 10)}

(* Mutant: the score is asked before the required criteria.                *)
LeadStatusByScore(t, current, score) ==
  CASE ~current -> "STALE"
    [] current /\ score >= 60 -> "QUALIFIED"
    [] OTHER -> "NURTURE"

(* Mutant: the band of QUALIFIED ends where the score of HIGH_PRIORITY      *)
(* begins.                                                                 *)
LeadStatusInBands(t, current, score) ==
  IF ~current THEN "STALE"
  ELSE IF \/ RequiredHas(t, "NO_MATCH") \/ RequiredHas(t, "UNKNOWN") \/ Coverage(t) < 50
          \/ FitStatus(t) \in {"NEEDS_MORE_RESEARCH", "CONFLICTED", "STALE"}
       THEN "NEEDS_MORE_RESEARCH"
  ELSE IF score >= 80 THEN
         IF FitScore(t) >= 80 /\ Coverage(t) >= 80 THEN "HIGH_PRIORITY" ELSE "NURTURE"
  ELSE IF score >= 60 THEN "QUALIFIED" ELSE "NURTURE"

LeadStatus(t, current, score) ==
  IF ~current THEN "STALE"
  ELSE IF RequiredHas(t, "NO_MATCH") THEN "NOT_QUALIFIED"
  ELSE IF \/ RequiredHas(t, "UNKNOWN") \/ Coverage(t) < 50
          \/ FitStatus(t) \in {"NEEDS_MORE_RESEARCH", "CONFLICTED", "STALE"}
       THEN "NEEDS_MORE_RESEARCH"
  ELSE IF score >= 80 /\ FitScore(t) >= 80 /\ Coverage(t) >= 80
       THEN "HIGH_PRIORITY"
  ELSE IF score >= 60 THEN "QUALIFIED"
  ELSE IF FitScore(t) < 40 /\ Coverage(t) >= 50 THEN "NOT_QUALIFIED"
  ELSE "NURTURE"

(* The statuses a qualification of the table may get.                      *)
Statuses(t, current) ==
  {LeadStatus(t, current, score) : score \in QualificationScores(t, current)}

Actionable == {"HIGH_PRIORITY", "QUALIFIED"}

-----------------------------------------------------------------------------
ScoringInit == results \in [CriterionIds -> Criterion]

(* New evidence for criterion i: its weight and kind stay.                 *)
Learn(i, new) ==
  /\ new.weight = results[i].weight /\ new.required = results[i].required
  /\ new # results[i]
  /\ results' = [results EXCEPT ![i] = new]

ScoringNext == \E i \in CriterionIds, new \in Criterion : Learn(i, new)

ScoringSpec == ScoringInit /\ [][ScoringNext]_results

-----------------------------------------------------------------------------
(* Every table is one, and every score and grade is in range.              *)
ScoringTypeOK ==
  /\ results \in [CriterionIds -> Criterion]
  /\ FitScore(results) \in 0 .. 100 /\ Coverage(results) \in 0 .. 100
  /\ QualificationScores(results, TRUE) \subseteq 0 .. 100
  /\ FitGrade(results) \in {"A", "B", "C", "D", "UNKNOWN"}

(* A lead is only actionable on good evidence, however well it scores: no  *)
(* required criterion fails or is unknown, half the weight is known, but   *)
(* for what rounding the share to a percent adds, and nothing that was     *)
(* used is stale or contradicted.                                          *)
ActionableIsEvidenced ==
  Statuses(results, TRUE) \cap Actionable # {} =>
    /\ \A i \in CriterionIds :
         results[i].required => results[i].outcome.result = "MATCH"
    /\ 200 * Weight(results, Known(results)) >= 99 * Weight(results, CriterionIds)
    /\ ~EvidenceIs(results, "STALE") /\ ~EvidenceIs(results, "CONFLICTED")

(* The better statuses, in order; the others are not compared.             *)
Rank(status) ==
  CASE status = "HIGH_PRIORITY" -> 2 [] status = "QUALIFIED" -> 1 [] OTHER -> 0

(* Good news never hurts: when an unknown criterion turns out to match, by *)
(* current evidence, no rounding, cap or threshold makes the lead's status *)
(* worse, though every weighted share changes.                             *)
ConfirmationNeverDemotes ==
  [][\A i \in CriterionIds :
       /\ results[i].outcome.result = "UNKNOWN"
       /\ results'[i].outcome = [result |-> "MATCH", quality |-> "CURRENT"]
       => \A old \in Statuses(results, TRUE), new \in Statuses(results', TRUE) :
            Rank(new) >= Rank(old)]_results
=============================================================================
