-------------------------------- MODULE LeadFit --------------------------------
(***************************************************************************)
(* What is known of one company and what follows for one product: the      *)
(* revisions of its ideal customer profiles (application/catalog.py), fit  *)
(* assessments and their freshness (fit.py, fit_freshness.py), and lead    *)
(* qualifications (qualification.py).                                      *)
(*                                                                         *)
(* Operators read a view of the tables: the committed ones, or the         *)
(* snapshot and the own writes of a transaction (module Orchestration).    *)
(* Rows carry the time they are ordered by.  What a score comes to is      *)
(* module FitScoring, which observation is selected module CurrentFacts.   *)
(***************************************************************************)
EXTENDS Integers, FiniteSets

CONSTANTS
  Revisions,  \* rows of the icps table, by the order of their ids
  IcpNames,
  Facts,      \* observations of the company, positive, by automatic rank
  ValueOf,    \* ValueOf[f]: what the observation f says
  ConfidenceOf, \* ConfidenceOf[f]: of 100, how sure it is
  LastTick,   \* bound: the times modelled
  NoRow

Ticks == 0 .. LastTick
Versions == 1 .. Cardinality(Revisions)

Icp == [lineage : Revisions, name : IcpNames, version : Versions,
        active : BOOLEAN, born : Ticks]

(* The active review of the fact: an action upon an observation.           *)
ReviewAction == {"APPROVE", "SELECT", "MANUAL_CORRECTION", "RESOLVE_CONFLICT"}
NoReview == [fact |-> 0, action |-> "NONE"]
Review == [fact : Facts, action : ReviewAction] \cup {NoReview}

StalenessStatus == {"FRESH", "AGING", "STALE"}

(* The projection that a criterion reads.  An observation never changes:   *)
(* its value, its confidence and the criterion's result are fact's.        *)
Projection ==
  [fact : Facts \cup {0}, selection : ReviewAction \cup {"POLICY", "NONE"},
   staleness : StalenessStatus \cup {"UNKNOWN"},
   conflict : {"NONE", "MATERIAL", "NEEDS_REVIEW"},
   review : {"UNREVIEWED", "APPROVED", "OVERRIDDEN", "CONFLICT", "STALE_REVIEW_REQUIRED"}]

(* An assessment, by one criterion: the evidence it keeps, and whether its *)
(* score suits pursuit.                                                    *)
Fit == [at : Ticks, icp : Revisions, saw : Projection,
        quality : {"CURRENT", "STALE", "CONFLICTED"}, good : BOOLEAN]

(* NEEDS_MORE_RESEARCH, PARTIAL, STALE or CONFLICTED.                      *)
Gaps(f) == f.saw.fact = 0 \/ f.quality # "CURRENT"

(* A qualification, of the assessment of time fit.                         *)
Qualification == [at : Ticks, fit : Ticks, status : {"QUALIFIED", "NURTURE", "STALE"}]

ASSUME LeadFitAssumption ==
  /\ Revisions \subseteq Nat /\ IsFiniteSet(Revisions)
  /\ Facts \subseteq Nat \ {0} /\ IsFiniteSet(Facts)
  /\ DOMAIN ValueOf = Facts /\ ConfidenceOf \in [Facts -> 0 .. 100]
  /\ LastTick \in Nat
  /\ NoRow \notin Icp \cup Fit \cup Qualification

VARIABLES
  icps,   \* icps[r]: the revision r, or NoRow
  known,  \* observations stored
  age,    \* age[f]: the staleness of the observation f, by the clock
  pinned, \* the active review, or NoReview
  fits, quals,
  tick    \* the time

leadVars == <<icps, known, age, pinned, fits, quals, tick>>

-----------------------------------------------------------------------------
(* The row of a set that an ORDER BY puts above all others, or NoRow.      *)
First(S, above) ==
  IF S = {} THEN NoRow ELSE CHOOSE x \in S : \A y \in S \ {x} : <<x, y>> \in above

Latest(S) == First(S, {e \in S \X S : e[1].at > e[2].at})

Committed == [icps |-> icps, known |-> known, age |-> age, pinned |-> pinned,
              fits |-> fits, quals |-> quals]

Nothing == [fact |-> 0, selection |-> "NONE", staleness |-> "UNKNOWN",
            conflict |-> "NONE", review |-> "UNREVIEWED"]

Credible(f) == ConfidenceOf[f] >= 60

(* _conflict, of all observations whichever is selected.                   *)
ConflictOf(F) ==
  LET credible == {f \in F : Credible(f)}
  IN CASE \A f, g \in credible : ValueOf[f] = ValueOf[g] -> "NONE"
       [] \A f \in credible : ConfidenceOf[f] >= 80 -> "NEEDS_REVIEW"
       [] OTHER -> "MATERIAL"

Unreviewed(conflict, staleness) ==
  CASE conflict # "NONE" -> "CONFLICT"
    [] staleness = "STALE" -> "STALE_REVIEW_REQUIRED"
    [] OTHER -> "UNREVIEWED"

(* IntelligenceService.get: a review selects, or else the best ranked.     *)
Projected(v) ==
  IF v.pinned # NoReview
  THEN [fact |-> v.pinned.fact, selection |-> v.pinned.action,
        staleness |-> v.age[v.pinned.fact],
        conflict |-> IF v.pinned.action = "RESOLVE_CONFLICT" THEN "NONE"
                     ELSE ConflictOf(v.known),
        review |-> IF v.pinned.action = "APPROVE" THEN "APPROVED" ELSE "OVERRIDDEN"]
  ELSE IF v.known = {} THEN Nothing
  ELSE LET best == CHOOSE f \in v.known : \A g \in v.known : g <= f
       IN [fact |-> best, selection |-> "POLICY", staleness |-> v.age[best],
           conflict |-> ConflictOf(v.known),
           review |-> Unreviewed(ConflictOf(v.known), v.age[best])]

(* projection_quality.                                                     *)
Quality(p) ==
  CASE p.conflict # "NONE" -> "CONFLICTED"
    [] p.staleness = "STALE" -> "STALE"
    [] OTHER -> "CURRENT"

Active(v) == {r \in Revisions : v.icps[r] # NoRow /\ v.icps[r].active}

(* Orchestration's _active_icp: by version, then by id.                    *)
ActiveIcp(v) ==
  First(Active(v), {e \in Active(v) \X Active(v) :
    \/ v.icps[e[1]].version > v.icps[e[2]].version
    \/ v.icps[e[1]].version = v.icps[e[2]].version /\ e[1] > e[2]})

(* Mutant: a revision that was switched off still supersedes.              *)
CurrentIcpOfAny(v, r) ==
  LET lineage == {s \in Revisions : /\ v.icps[s] # NoRow
                                    /\ v.icps[s].lineage = v.icps[r].lineage}
  IN First(lineage, {e \in lineage \X lineage : v.icps[e[1]].born > v.icps[e[2]].born})

(* Freshness's _current_icp: of r's lineage, by version, then by age; r    *)
(* itself when no revision is active.                                      *)
CurrentIcp(v, r) ==
  LET lineage == {s \in Active(v) : v.icps[s].lineage = v.icps[r].lineage}
  IN IF lineage = {} THEN r
     ELSE First(lineage, {e \in lineage \X lineage :
            \/ v.icps[e[1]].version > v.icps[e[2]].version
            \/ /\ v.icps[e[1]].version = v.icps[e[2]].version
               /\ v.icps[e[1]].born > v.icps[e[2]].born})

(* Mutant: the inputs are compared, and not the details of the evidence.   *)
IsCurrentByInput(v, f) ==
  f.saw.fact = Projected(v).fact /\ CurrentIcp(v, f.icp) = f.icp

(* FitAssessmentFreshnessService.evaluate: the stored item against the     *)
(* projection now, field by field: the input, then the details.            *)
IsCurrent(v, f) ==
  \E now \in {Projected(v)} :
    /\ f.saw.fact = now.fact
    /\ f.quality = Quality(now)
    /\ f.saw.staleness = now.staleness
    /\ f.saw.conflict = now.conflict
    /\ f.saw.review = now.review
    /\ f.saw.selection = now.selection
    /\ CurrentIcp(v, f.icp) = f.icp

(* FitAssessmentService.evaluate, with any score that the evidence allows. *)
Assessed(v, r) ==
  {f \in [at : {tick + 1}, icp : {r}, saw : {Projected(v)},
          quality : {Quality(Projected(v))}, good : BOOLEAN] :
     f.good => ~Gaps(f)}

(* LeadQualificationService.execute.                                       *)
Qualified(v, f) ==
  [at |-> tick + 1, fit |-> f.at,
   status |-> IF ~IsCurrent(v, f) THEN "STALE"
              ELSE IF f.good THEN "QUALIFIED" ELSE "NURTURE"]

-----------------------------------------------------------------------------
LeadInit ==
  /\ icps = [r \in Revisions |-> NoRow]
  /\ known = {} /\ age = [f \in Facts |-> "FRESH"] /\ pinned = NoReview
  /\ fits = {} /\ quals = {} /\ tick = 0

Tick == tick < LastTick /\ tick' = tick + 1

Unnamed(name, version) ==
  \A r \in Revisions :
    icps[r] # NoRow => <<icps[r].name, icps[r].version>> # <<name, version>>

(* create_icp; the name and version are unique.                            *)
CreateIcp(r, name) ==
  /\ Tick /\ icps[r] = NoRow /\ Unnamed(name, 1)
  /\ icps' = [icps EXCEPT ![r] = [lineage |-> r, name |-> name, version |-> 1,
                                  active |-> TRUE, born |-> tick + 1]]
  /\ UNCHANGED <<known, age, pinned, fits, quals>>

(* update_icp revises any revision: the old one is switched off.           *)
ReviseIcp(old, new, name, active) ==
  /\ Tick /\ icps[old] # NoRow /\ icps[new] = NoRow
  /\ Unnamed(name, icps[old].version + 1)
  /\ icps' = [icps EXCEPT
       ![old].active = FALSE,
       ![new] = [lineage |-> icps[old].lineage, name |-> name,
                 version |-> icps[old].version + 1,
                 active |-> active, born |-> tick + 1]]
  /\ UNCHANGED <<known, age, pinned, fits, quals>>

SwitchIcp(r, active) ==
  /\ icps[r] # NoRow /\ icps[r].active # active
  /\ Tick
  /\ icps' = [icps EXCEPT ![r].active = active]
  /\ UNCHANGED <<known, age, pinned, fits, quals>>

(* A research run of its own stores observations.                          *)
Observe(new) ==
  /\ Tick /\ ~ new \subseteq known
  /\ known' = known \cup new
  /\ UNCHANGED <<icps, age, pinned, fits, quals>>

(* An observation is past three quarters of its freshness_days, then past  *)
(* all of them.                                                            *)
Age(f) ==
  /\ age[f] # "STALE"
  /\ age' = [age EXCEPT ![f] = IF @ = "FRESH" THEN "AGING" ELSE "STALE"]
  /\ UNCHANGED <<icps, known, pinned, fits, quals, tick>>

(* An administrator reviews an observation, in place of an earlier review. *)
(* A correction is an observation of its own.                              *)
ReviewFact(f, action) ==
  /\ Tick /\ pinned # [fact |-> f, action |-> action]
  /\ f \in known <=> action # "MANUAL_CORRECTION"
  /\ known' = known \cup {f}
  /\ pinned' = [fact |-> f, action |-> action]
  /\ UNCHANGED <<icps, age, fits, quals>>

RevokeReview ==
  /\ Tick /\ pinned # NoReview
  /\ pinned' = NoReview
  /\ UNCHANGED <<icps, known, age, fits, quals>>

(* A user assesses against any revision.                                   *)
AssessFit(r) ==
  /\ Tick /\ icps[r] # NoRow
  /\ \E f \in Assessed(Committed, r) : fits' = fits \cup {f}
  /\ UNCHANGED <<icps, known, age, pinned, quals>>

(* A user qualifies, or qualifies again, from any assessment.              *)
QualifyLead(f) ==
  /\ Tick
  /\ quals' = quals \cup {Qualified(Committed, f)}
  /\ UNCHANGED <<icps, known, age, pinned, fits>>

LeadNext ==
  \/ \E r \in Revisions, name \in IcpNames : CreateIcp(r, name)
  \/ \E r, s \in Revisions, name \in IcpNames, on \in BOOLEAN : ReviseIcp(r, s, name, on)
  \/ \E r \in Revisions, on \in BOOLEAN : SwitchIcp(r, on)
  \/ \E new \in SUBSET Facts : Observe(new)
  \/ \E f \in Facts : Age(f)
  \/ \E f \in Facts, action \in ReviewAction : ReviewFact(f, action)
  \/ RevokeReview
  \/ \E r \in Revisions : AssessFit(r)
  \/ \E f \in fits : QualifyLead(f)

-----------------------------------------------------------------------------
(* Every variable keeps its type.                                          *)
LeadTypeOK ==
  /\ icps \in [Revisions -> Icp \cup {NoRow}]
  /\ known \subseteq Facts /\ age \in [Facts -> StalenessStatus]
  /\ pinned \in Review /\ pinned.fact \in known \cup {0}
  /\ fits \subseteq Fit
  /\ quals \subseteq Qualification
  /\ tick \in Ticks

(* Another active revision of the lineage has r's version: the code lets a *)
(* revision be revised twice, under two names.                             *)
Tied(r) ==
  \E s \in Active(Committed) \ {r} :
    icps[s].lineage = icps[r].lineage /\ icps[s].version = icps[r].version

(* The workflow assesses against the revision that freshness will ask for: *)
(* the two services choose the active revision by themselves, and agree    *)
(* whatever was revised and switched on or off, but for a tie.             *)
ServicesAgreeOnIcp ==
  LET r == ActiveIcp(Committed)
  IN r = NoRow \/ CurrentIcp(Committed, r) = r \/ Tied(r)

(* An actionable qualification can be relied on while its assessment is    *)
(* current: the evidence there is now is the observation that was scored,  *)
(* not outdated; no credible observation contradicts another, unless a     *)
(* review resolved that; the user's selection, if any, is what was scored; *)
(* and the lineage has no higher active revision.  This holds however      *)
(* observations came, aged, were reviewed or revoked since, in whichever   *)
(* order requests assessed and qualified.                                  *)
ActionableStillHolds ==
  \A q \in quals, f \in fits :
    q.fit = f.at /\ q.status = "QUALIFIED" /\ IsCurrent(Committed, f) =>
      /\ f.saw.fact \in known /\ age[f.saw.fact] # "STALE"
      /\ pinned # NoReview => f.saw.fact = pinned.fact
      /\ \/ pinned.action = "RESOLVE_CONFLICT"
         \/ \A g, h \in known : Credible(g) /\ Credible(h) => ValueOf[g] = ValueOf[h]
      /\ ~ \E r \in Active(Committed) :
             /\ icps[r].lineage = icps[f.icp].lineage
             /\ icps[r].version > icps[f.icp].version
=============================================================================
