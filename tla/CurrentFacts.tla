----------------------------- MODULE CurrentFacts -----------------------------
(***************************************************************************)
(* The best known value of one fact of a company                           *)
(* (application/intelligence.py): observations are only ever added, by     *)
(* research, by an import or by a correction; a projection selects one, by *)
(* the newest active review of the organization or else by rank.           *)
(*                                                                         *)
(* A review is a transaction: it revokes the active reviews of its         *)
(* snapshot, stamps its own when it flushes it, and lands when it commits. *)
(***************************************************************************)
EXTENDS Naturals, Sequences, FiniteSets, FiniteSetsExt

CONSTANTS
  Owners,      \* organizations
  Shared,      \* the owner of an observation that every organization sees
  Ranks,       \* the places of observations in the order of _rank
  Reviewers,   \* requests of users at work at the same time
  MaxVerdicts, \* bound: reviews and revocations begun
  NoReview     \* no transaction open

(* Confidence, dates and, last, the id tell any two observations apart: a  *)
(* rank is one observation.                                                *)
Observation == [owner : Owners \cup {Shared}, rank : Ranks]

(* HumanOverride: made is created_at; began and landed are history.        *)
Override == [owner : Owners, fact : Observation, active : BOOLEAN,
             made : Nat, began : Nat, landed : Nat]

ASSUME FactAssumption ==
  /\ Ranks \subseteq Nat /\ IsFiniteSet(Ranks) /\ MaxVerdicts \in Nat
  /\ Shared \notin Owners

VARIABLES
  facts,      \* the committed observations
  overrides,  \* the committed reviews
  reviewing,  \* reviewing[u]: the open transaction of u, or NoReview
  verdicts,   \* bound: transactions begun
  factClock,  \* a step of a review is an instant
  revoked     \* history: the last step revoked for this owner, unraced

factVars == <<facts, overrides, reviewing, verdicts, factClock, revoked>>

-----------------------------------------------------------------------------
(* history: shared observations, and those of the organization.            *)
SeenBy(o, F) == {f \in F : f.owner \in {o, Shared}}

(* _active_reviews.                                                        *)
ActiveReviews(o, R) == {r \in R : r.owner = o /\ r.active}

Best(F) == CHOOSE f \in F : \A g \in F : g.rank <= f.rank

(* get: the newest active review, or the best observation.                 *)
Selected(o, F, R) ==
  LET active == ActiveReviews(o, R) IN
  IF active # {}
  THEN (CHOOSE r \in active : \A s \in active : s.made <= r.made).fact
  ELSE Best(SeenBy(o, F))

-----------------------------------------------------------------------------
FactInit ==
  /\ \E r \in Ranks : facts = {[owner |-> Shared, rank |-> r]}
  /\ overrides = {} /\ reviewing = [u \in Reviewers |-> NoReview]
  /\ verdicts = 0 /\ factClock = 0 /\ revoked = {}

(* Research, an import or add_fact adds an observation.                    *)
Observe(f) ==
  /\ \A g \in facts : g.rank # f.rank
  /\ facts' = facts \cup {f}
  /\ revoked' = {}
  /\ UNCHANGED <<overrides, reviewing, verdicts, factClock>>

BeginVerdict(u, o) ==
  /\ reviewing[u] = NoReview /\ verdicts < MaxVerdicts
  /\ verdicts' = verdicts + 1 /\ factClock' = factClock + 1
  /\ reviewing' = [reviewing EXCEPT ![u] =
       [owner |-> o, began |-> factClock, facts |-> facts, seen |-> overrides,
        drop |-> {}, insert |-> {}, correction |-> {}]]
  /\ revoked' = {}
  /\ UNCHANGED <<facts, overrides>>

Flush(u, drop, insert, correction) ==
  /\ reviewing' = [reviewing EXCEPT ![u] =
       [reviewing[u] EXCEPT !.drop = drop, !.insert = insert, !.correction = correction]]
  /\ factClock' = factClock + 1 /\ revoked' = {}
  /\ UNCHANGED <<facts, overrides, verdicts>>

Fresh(u) == reviewing[u] # NoReview /\ reviewing[u].drop = {} /\ reviewing[u].insert = {}

MadeReview(u, f) ==
  [owner |-> reviewing[u].owner, fact |-> f, active |-> TRUE, made |-> factClock,
   began |-> reviewing[u].began, landed |-> 0]

(* Mutant: the review that was in force is not revoked.                    *)
ReviewFactBeside(u, f, isNew) ==
  /\ Fresh(u)
  /\ LET t == reviewing[u] IN
     /\ IF isNew THEN f.owner = t.owner /\ \A g \in facts : g.rank # f.rank
        ELSE f \in SeenBy(t.owner, t.facts)
     /\ Flush(u, {}, {MadeReview(u, f)}, IF isNew THEN {f} ELSE {})

(* review: approve or select an observation that the organization sees,    *)
(* settle a conflict with it, or correct it by a new one.                  *)
ReviewFact(u, f, isNew) ==
  /\ Fresh(u)
  /\ LET t == reviewing[u] IN
     /\ IF isNew THEN f.owner = t.owner /\ \A g \in facts : g.rank # f.rank
        ELSE f \in SeenBy(t.owner, t.facts)
     /\ Flush(u, ActiveReviews(t.owner, t.seen), {MadeReview(u, f)},
              IF isNew THEN {f} ELSE {})

(* revoke: every active review.                                            *)
RevokeReview(u) ==
  /\ Fresh(u)
  /\ ActiveReviews(reviewing[u].owner, reviewing[u].seen) # {}
  /\ Flush(u, ActiveReviews(reviewing[u].owner, reviewing[u].seen), {}, {})

(* The commit: revoked_at is set in the rows that were seen.               *)
LandVerdict(u) ==
  /\ reviewing[u] # NoReview /\ ~Fresh(u)
  /\ LET t == reviewing[u] IN
     /\ \A f \in t.correction, g \in facts : g.rank # f.rank
     /\ facts' = facts \cup t.correction
     /\ overrides' =
          {IF \E d \in t.drop : d.made = r.made THEN [r EXCEPT !.active = FALSE] ELSE r :
             r \in overrides}
          \cup {[r EXCEPT !.landed = factClock] : r \in t.insert}
     /\ revoked' = IF t.insert = {} /\ t.seen = overrides THEN {t.owner} ELSE {}
  /\ factClock' = factClock + 1
  /\ reviewing' = [reviewing EXCEPT ![u] = NoReview]
  /\ UNCHANGED verdicts

DropVerdict(u) ==
  /\ reviewing[u] # NoReview
  /\ reviewing' = [reviewing EXCEPT ![u] = NoReview]
  /\ revoked' = {}
  /\ UNCHANGED <<facts, overrides, verdicts, factClock>>

FactNext ==
  \/ \E f \in Observation : Observe(f)
  \/ \E u \in Reviewers :
       \/ \E o \in Owners : BeginVerdict(u, o)
       \/ \E f \in Observation, isNew \in BOOLEAN : ReviewFact(u, f, isNew)
       \/ RevokeReview(u) \/ LandVerdict(u) \/ DropVerdict(u)

FactSpec == FactInit /\ [][FactNext]_factVars

-----------------------------------------------------------------------------
(* Two reviews of one organization are both in force only if their         *)
(* requests overlapped, neither having seen the other.                     *)
TwoActiveOverlapped ==
  \A r, s \in overrides :
    r.owner = s.owner /\ r.active /\ s.active /\ r # s
      => r.began < s.landed /\ s.began < r.landed

(* What an organization has reviewed stays selected until it decides anew: *)
(* research and other organizations, whatever they observe, never move it. *)
ReviewedSelectionStands ==
  [][\A o \in Owners :
       /\ ActiveReviews(o, overrides) # {}
       /\ \A u \in Reviewers : reviewing'[u] = reviewing[u] \/ reviewing[u] = NoReview
                               \/ reviewing[u].owner # o
       => Selected(o, facts', overrides') = Selected(o, facts, overrides)]_factVars

(* "Revoking a review ... restores automatic projection", also when more   *)
(* than one was in force; only a review that raced it is left.             *)
RevokingRestores ==
  \A o \in revoked : Selected(o, facts, overrides) = Best(SeenBy(o, facts))

(* Reviews give way to each other unless they raced, and to a revocation.  *)
ReviewsSettle == TwoActiveOverlapped /\ RevokingRestores
=============================================================================
