---------------------------- MODULE RegisterProofs ----------------------------
(***************************************************************************)
(* Proofs about what an organization records about companies, people and   *)
(* mail: each register by itself, for any people, requests and limits, and *)
(* then, at the end, what MCRegisters asks of them together.               *)
(***************************************************************************)
EXTENDS MCRegisters, EngagementProofs, FiniteLemmas

-----------------------------------------------------------------------------
(* The reviewed facts of a company (CurrentFacts).                        *)

Verdict ==
  [owner : Owners, began : Nat, facts : SUBSET Observation, seen : SUBSET Override,
   drop : SUBSET Override, insert : SUBSET Override, correction : SUBSET Observation]

VerdictTypes ==
  /\ overrides \subseteq Override /\ factClock \in Nat
  /\ facts \subseteq Observation /\ DOMAIN reviewing = Reviewers
  /\ \A u \in Reviewers : reviewing[u] # NoReview => reviewing[u] \in Verdict

(* Committed reviews and open requests are of instants that have passed.   *)
InstantsPassed ==
  /\ \A r \in overrides : r.began < factClock /\ r.landed < factClock
  /\ \A u \in Reviewers : reviewing[u] # NoReview => reviewing[u].began < factClock

(* A request saw every review that had landed when it began and is still   *)
(* in force.                                                               *)
SawTheActive(t) ==
  \A r \in overrides : r.active /\ r.landed <= t.began => r \in t.seen

(* It inserts one review of its own, beside revoking what it saw in force. *)
RevokesBefore(t) ==
  /\ t.insert # {} \/ t.drop # {} => t.drop = ActiveReviews(t.owner, t.seen)
  /\ \A r \in t.insert :
       r.owner = t.owner /\ r.began = t.began /\ t.insert = {r}

(* An organization that has just revoked, unraced, has no review in force. *)
NoneLeft == \A o \in revoked : ActiveReviews(o, overrides) = {}

FactInv ==
  /\ VerdictTypes /\ InstantsPassed /\ TwoActiveOverlapped /\ NoneLeft
  /\ \A u \in Reviewers :
       reviewing[u] # NoReview
         => SawTheActive(reviewing[u]) /\ RevokesBefore(reviewing[u])

LEMMA FactInitial == FactInit => FactInv
<1> SUFFICES ASSUME FactInit PROVE FactInv
  OBVIOUS
<1>1. facts \subseteq Observation
  <2>1. PICK r \in Ranks : facts = {[owner |-> Shared, rank |-> r]}
    BY DEF FactInit
  <2>2. [owner |-> Shared, rank |-> r] \in Observation
    BY DEF Observation
  <2>3. QED BY <2>1, <2>2
<1>2. QED
  BY <1>1 DEF FactInit, FactInv, VerdictTypes, InstantsPassed, TwoActiveOverlapped,
          NoneLeft

-----------------------------------------------------------------------------
(* A step that lands nothing: one request's transaction becomes t, or it   *)
(* is gone, and the clock does not go back.                                *)
LEMMA OpenRequestKeeps ==
  ASSUME FactInv, NEW u \in Reviewers, NEW t,
         reviewing' = [reviewing EXCEPT ![u] = t],
         overrides' = overrides, revoked' = {}, facts' \subseteq Observation,
         factClock' \in Nat, factClock' >= factClock,
         t # NoReview => /\ t \in Verdict /\ t.began < factClock'
                         /\ SawTheActive(t) /\ RevokesBefore(t)
  PROVE  FactInv'
<1>1. \A v \in Reviewers : reviewing'[v] = IF v = u THEN t ELSE reviewing[v]
  BY DEF FactInv, VerdictTypes
<1>2. VerdictTypes'
  BY <1>1 DEF FactInv, VerdictTypes
<1>3. InstantsPassed'
  <2>1. \A r \in overrides : r.began \in Nat /\ r.landed \in Nat
    BY DEF FactInv, VerdictTypes, Override
  <2>2. \A v \in Reviewers : reviewing[v] # NoReview => reviewing[v].began \in Nat
    BY DEF FactInv, VerdictTypes, Verdict
  <2>3. t # NoReview => t.began < factClock'
    OBVIOUS
  <2>4. \A v \in Reviewers : reviewing'[v] # NoReview => reviewing'[v].began < factClock'
    <3> SUFFICES ASSUME NEW v \in Reviewers, reviewing'[v] # NoReview
                 PROVE  reviewing'[v].began < factClock'
      OBVIOUS
    <3>1. CASE v = u
      BY <3>1, <1>1, <2>3
    <3>2. CASE v # u
      <4>1. /\ reviewing'[v] = reviewing[v] /\ reviewing[v].began \in Nat
            /\ reviewing[v].began < factClock
        BY <3>2, <1>1, <2>2 DEF FactInv, InstantsPassed
      <4>2. QED BY <4>1 DEF FactInv, VerdictTypes
    <3>3. QED BY <3>1, <3>2
  <2>5. \A r \in overrides : r.began < factClock' /\ r.landed < factClock'
    BY <2>1 DEF FactInv, InstantsPassed, VerdictTypes
  <2>6. QED BY <2>4, <2>5 DEF InstantsPassed
<1>4. \A v \in Reviewers :
        reviewing'[v] # NoReview
          => SawTheActive(reviewing[v])' /\ RevokesBefore(reviewing[v])'
  BY <1>1 DEF FactInv, SawTheActive, RevokesBefore, ActiveReviews
<1>5. TwoActiveOverlapped' /\ NoneLeft'
  BY DEF FactInv, TwoActiveOverlapped, NoneLeft
<1>6. QED BY <1>2, <1>3, <1>4, <1>5 DEF FactInv

LEMMA BeginVerdictKeeps ==
  ASSUME FactInv, NEW u \in Reviewers, NEW o \in Owners, BeginVerdict(u, o)
  PROVE  FactInv'
<1> DEFINE t == [owner |-> o, began |-> factClock, facts |-> facts, seen |-> overrides,
                 drop |-> {}, insert |-> {}, correction |-> {}]
<1>1. t \in Verdict /\ t.began = factClock /\ t.seen = overrides /\ t.insert = {}
      /\ t.drop = {}
  BY DEF FactInv, VerdictTypes, Verdict
<1>2. /\ reviewing' = [reviewing EXCEPT ![u] = t]
      /\ factClock' = factClock + 1 /\ overrides' = overrides /\ facts' = facts
      /\ revoked' = {}
  BY DEF BeginVerdict
<1> HIDE DEF t
<1>3. SawTheActive(t) /\ RevokesBefore(t)
  BY <1>1 DEF SawTheActive, RevokesBefore
<1>4. /\ t.began < factClock' /\ factClock' \in Nat /\ factClock' >= factClock
      /\ facts' \subseteq Observation
  BY <1>1, <1>2 DEF FactInv, VerdictTypes
<1>5. QED BY <1>1, <1>2, <1>3, <1>4, OpenRequestKeeps

(* A request decides what it will write.                                   *)
LEMMA FlushKeeps ==
  ASSUME FactInv, NEW u \in Reviewers, reviewing[u] # NoReview,
         NEW drop \in SUBSET Override, NEW insert \in SUBSET Override,
         NEW correction \in SUBSET Observation,
         Flush(u, drop, insert, correction),
         drop = ActiveReviews(reviewing[u].owner, reviewing[u].seen),
         \A r \in insert :
           /\ r.owner = reviewing[u].owner /\ r.began = reviewing[u].began
           /\ insert = {r}
  PROVE  FactInv'
<1> DEFINE t == [reviewing[u] EXCEPT !.drop = drop, !.insert = insert,
                                     !.correction = correction]
<1>1. reviewing[u] \in Verdict
  BY DEF FactInv, VerdictTypes
<1>2. /\ t \in Verdict /\ t.owner = reviewing[u].owner /\ t.began = reviewing[u].began
      /\ t.seen = reviewing[u].seen /\ t.insert = insert /\ t.drop = drop
  BY <1>1 DEF Verdict
<1>3. /\ reviewing' = [reviewing EXCEPT ![u] = t]
      /\ factClock' = factClock + 1 /\ overrides' = overrides /\ facts' = facts
      /\ revoked' = {}
  BY DEF Flush
<1> HIDE DEF t
<1>4. SawTheActive(t)
  BY <1>2 DEF FactInv, SawTheActive
<1>5. RevokesBefore(t)
  BY <1>2 DEF RevokesBefore
<1>6. /\ t.began < factClock' /\ factClock' \in Nat /\ factClock' >= factClock
      /\ facts' \subseteq Observation
  <2>1. t.began \in Nat /\ t.began < factClock
    BY <1>1, <1>2 DEF FactInv, InstantsPassed, Verdict
  <2>2. QED BY <2>1, <1>3 DEF FactInv, VerdictTypes
<1>7. QED BY <1>2, <1>3, <1>4, <1>5, <1>6, OpenRequestKeeps

LEMMA MadeReviewIs ==
  ASSUME FactInv, NEW u \in Reviewers, reviewing[u] # NoReview, NEW f \in Observation
  PROVE  /\ MadeReview(u, f) \in Override
         /\ MadeReview(u, f).owner = reviewing[u].owner
         /\ MadeReview(u, f).began = reviewing[u].began
<1>1. reviewing[u].owner \in Owners /\ reviewing[u].began \in Nat /\ factClock \in Nat
  BY DEF FactInv, VerdictTypes, Verdict
<1>2. QED BY <1>1 DEF MadeReview, Override

(* The active reviews of the snapshot are revoked, and one is made.        *)
LEMMA ReviewFactKeeps ==
  ASSUME FactInv, NEW u \in Reviewers,
         NEW f \in Observation, NEW isNew \in BOOLEAN, ReviewFact(u, f, isNew)
  PROVE  FactInv'
<1> DEFINE active == ActiveReviews(reviewing[u].owner, reviewing[u].seen)
           corrected == IF isNew THEN {f} ELSE {}
<1>1. reviewing[u] # NoReview /\ reviewing[u] \in Verdict
  BY DEF ReviewFact, Fresh, FactInv, VerdictTypes
<1>2. active \in SUBSET Override
  BY <1>1 DEF ActiveReviews, Verdict
<1>3. Flush(u, active, {MadeReview(u, f)}, corrected)
  BY DEF ReviewFact
<1>4. /\ {MadeReview(u, f)} \in SUBSET Override /\ corrected \in SUBSET Observation
      /\ \A r \in {MadeReview(u, f)} :
           /\ r.owner = reviewing[u].owner /\ r.began = reviewing[u].began
           /\ {MadeReview(u, f)} = {r}
  BY <1>1, MadeReviewIs
<1> HIDE DEF corrected
<1>5. QED BY <1>1, <1>2, <1>3, <1>4, FlushKeeps

(* Only revoked.                                                           *)
LEMMA RevokeReviewKeeps ==
  ASSUME FactInv, NEW u \in Reviewers, RevokeReview(u)
  PROVE  FactInv'
<1> DEFINE active == ActiveReviews(reviewing[u].owner, reviewing[u].seen)
<1>1. reviewing[u] # NoReview /\ reviewing[u] \in Verdict
  BY DEF RevokeReview, Fresh, FactInv, VerdictTypes
<1>2. active \in SUBSET Override /\ Flush(u, active, {}, {})
  BY <1>1 DEF ActiveReviews, Verdict, RevokeReview
<1>3. QED BY <1>1, <1>2, FlushKeeps

-----------------------------------------------------------------------------
(* What a commit makes of the committed reviews: its own, stamped now, and *)
(* those there were, of which the active ones are as they were and were    *)
(* not revoked.                                                            *)
LEMMA LandedAre ==
  ASSUME FactInv, NEW u \in Reviewers, LandVerdict(u), NEW r \in overrides'
  PROVE  /\ r \in Override
         /\ \/ /\ r.landed = factClock
               /\ \E n \in reviewing[u].insert :
                    /\ r = [n EXCEPT !.landed = factClock]
                    /\ r.owner = n.owner /\ r.began = n.began
            \/ /\ \E s \in overrides : r.began = s.began /\ r.landed = s.landed
               /\ r.active => /\ r \in overrides
                              /\ \A d \in reviewing[u].drop : d.made # r.made
<1> DEFINE t == reviewing[u]
           After(s) == IF \E d \in t.drop : d.made = s.made
                       THEN [s EXCEPT !.active = FALSE] ELSE s
<1>1. t # NoReview /\ t \in Verdict /\ factClock \in Nat
  BY DEF LandVerdict, FactInv, VerdictTypes
<1>2. overrides' = {After(s) : s \in overrides}
                   \cup {[n EXCEPT !.landed = factClock] : n \in t.insert}
  BY DEF LandVerdict
<1>3. CASE \E n \in t.insert : r = [n EXCEPT !.landed = factClock]
  <2>1. PICK n \in t.insert : r = [n EXCEPT !.landed = factClock]
    BY <1>3
  <2>2. n \in Override
    BY <1>1 DEF Verdict
  <2>3. r \in Override /\ r.landed = factClock /\ r.owner = n.owner /\ r.began = n.began
    BY <1>1, <2>1, <2>2 DEF Override
  <2>4. QED BY <2>1, <2>3
<1>4. CASE \E s \in overrides : r = After(s)
  <2>1. PICK s \in overrides : r = After(s)
    BY <1>4
  <2>2. s \in Override
    BY DEF FactInv, VerdictTypes
  <2>3. CASE \E d \in t.drop : d.made = s.made
    <3>1. r = [s EXCEPT !.active = FALSE]
      BY <2>1, <2>3
    <3>2. r \in Override /\ r.began = s.began /\ r.landed = s.landed /\ ~r.active
      BY <2>2, <3>1 DEF Override
    <3>3. QED BY <3>2
  <2>4. CASE ~ \E d \in t.drop : d.made = s.made
    <3>1. r = s
      BY <2>1, <2>4
    <3>2. QED BY <2>2, <2>4, <3>1
  <2>5. QED BY <2>3, <2>4
<1>5. QED BY <1>2, <1>3, <1>4

(* Two reviews in force after a commit: a new one beside an old one, which *)
(* the request had not seen, since it revoked what it saw.                 *)
LEMMA NewBesideOld ==
  ASSUME FactInv, NEW u \in Reviewers, LandVerdict(u),
         NEW n \in reviewing[u].insert, NEW s \in overrides,
         s.active, s.owner = n.owner,
         \A d \in reviewing[u].drop : d.made # s.made
  PROVE  n.began < s.landed /\ s.began < factClock
<1> DEFINE t == reviewing[u]
<1>1. t # NoReview /\ t \in Verdict
  BY DEF LandVerdict, FactInv, VerdictTypes
<1>2. n.owner = t.owner /\ n.began = t.began /\ t.drop = ActiveReviews(t.owner, t.seen)
  BY <1>1 DEF FactInv, RevokesBefore
<1>3. s \notin t.seen
  BY <1>2 DEF ActiveReviews
<1>4. ~(s.landed <= t.began)
  BY <1>1, <1>3 DEF FactInv, SawTheActive
<1>5. s.landed \in Nat /\ t.began \in Nat
  BY <1>1 DEF FactInv, VerdictTypes, Override, Verdict
<1>6. QED BY <1>2, <1>4, <1>5 DEF FactInv, InstantsPassed

LEMMA LandKeepsOverlap ==
  ASSUME FactInv, NEW u \in Reviewers, LandVerdict(u)
  PROVE  TwoActiveOverlapped'
<1> DEFINE t == reviewing[u]
           New(r) == /\ r.landed = factClock
                     /\ \E n \in t.insert : /\ r = [n EXCEPT !.landed = factClock]
                                            /\ r.owner = n.owner /\ r.began = n.began
           Old(r) == r \in overrides /\ \A d \in t.drop : d.made # r.made
<1> SUFFICES ASSUME NEW r \in overrides', NEW s \in overrides',
                    r.owner = s.owner, r.active, s.active, r # s
             PROVE  r.began < s.landed /\ s.began < r.landed
  BY DEF TwoActiveOverlapped
<1>1. (New(r) \/ Old(r)) /\ (New(s) \/ Old(s))
  BY LandedAre
<1>2. CASE New(r) /\ New(s)
  <2>1. \A m, n \in t.insert : m = n
    BY DEF FactInv, RevokesBefore, LandVerdict
  <2>2. QED BY <1>2, <2>1
<1>3. CASE New(r) /\ Old(s)
  BY <1>3, NewBesideOld
<1>4. CASE Old(r) /\ New(s)
  BY <1>4, NewBesideOld
<1>5. CASE Old(r) /\ Old(s)
  BY <1>5 DEF FactInv, TwoActiveOverlapped
<1>6. QED BY <1>1, <1>2, <1>3, <1>4, <1>5

LEMMA LandVerdictKeeps ==
  ASSUME FactInv, NEW u \in Reviewers, LandVerdict(u)
  PROVE  FactInv'
<1> DEFINE t == reviewing[u]
<1>1. t # NoReview /\ t \in Verdict /\ factClock \in Nat /\ factClock' = factClock + 1
  BY DEF LandVerdict, FactInv, VerdictTypes
<1>2. /\ \A v \in Reviewers : reviewing'[v] = IF v = u THEN NoReview ELSE reviewing[v]
      /\ DOMAIN reviewing' = Reviewers
  BY DEF LandVerdict, FactInv, VerdictTypes
<1>3. VerdictTypes'
  <2>1. overrides' \subseteq Override
    BY LandedAre
  <2>2. facts' \subseteq Observation
    BY <1>1 DEF LandVerdict, Verdict, FactInv, VerdictTypes
  <2>3. QED BY <1>1, <1>2, <2>1, <2>2 DEF FactInv, VerdictTypes
<1>4. InstantsPassed'
  <2>1. ASSUME NEW r \in overrides' PROVE r.began < factClock' /\ r.landed < factClock'
    <3>1. r \in Override
      BY LandedAre
    <3>2. r.began \in Nat /\ r.landed \in Nat
      BY <3>1 DEF Override
    <3>3. t.began < factClock
      BY <1>1 DEF FactInv, InstantsPassed
    <3>4. r.began < factClock /\ r.landed <= factClock
      <4>1. CASE r.landed = factClock /\ \E n \in t.insert : r.began = n.began
        BY <4>1, <1>1, <3>3 DEF FactInv, RevokesBefore
      <4>2. CASE \E s \in overrides : r.began = s.began /\ r.landed = s.landed
        BY <4>2, <1>1, <3>2 DEF FactInv, InstantsPassed
      <4>3. QED BY <4>1, <4>2, LandedAre
    <3>5. QED BY <1>1, <3>2, <3>4
  <2>2. ASSUME NEW v \in Reviewers, reviewing'[v] # NoReview
        PROVE  reviewing'[v].began < factClock'
    <3>1. /\ reviewing'[v] = reviewing[v] /\ reviewing[v].began < factClock
          /\ reviewing[v].began \in Nat
      BY <1>2, <2>2 DEF FactInv, InstantsPassed, VerdictTypes, Verdict
    <3>2. QED BY <1>1, <3>1
  <2>3. QED BY <2>1, <2>2 DEF InstantsPassed
<1>5. TwoActiveOverlapped'
  BY LandKeepsOverlap
<1>6. NoneLeft'
  <2> SUFFICES ASSUME NEW o \in revoked', NEW r \in overrides', r.owner = o, r.active
               PROVE  FALSE
    BY DEF NoneLeft, ActiveReviews
  <2>1. o = t.owner /\ t.insert = {} /\ t.seen = overrides
    BY DEF LandVerdict
  <2>2. t.drop = ActiveReviews(o, overrides)
    BY <1>1, <2>1 DEF FactInv, RevokesBefore, LandVerdict, Fresh
  <2>3. r \in overrides /\ \A d \in t.drop : d.made # r.made
    BY <2>1, LandedAre
  <2>4. QED BY <2>2, <2>3 DEF ActiveReviews
<1>7. ASSUME NEW v \in Reviewers, reviewing'[v] # NoReview
      PROVE  SawTheActive(reviewing[v])' /\ RevokesBefore(reviewing[v])'
  <2>1. /\ reviewing'[v] = reviewing[v] /\ reviewing[v] # NoReview
        /\ reviewing[v].began \in Nat /\ reviewing[v].began < factClock
        /\ SawTheActive(reviewing[v]) /\ RevokesBefore(reviewing[v])
    BY <1>2, <1>7 DEF FactInv, InstantsPassed, VerdictTypes, Verdict
  <2>2. RevokesBefore(reviewing[v])'
    BY <2>1 DEF RevokesBefore, ActiveReviews
  <2>3. \A r \in overrides' : r.active /\ r.landed <= reviewing[v].began => r \in overrides
    <3> SUFFICES ASSUME NEW r \in overrides', r.active, r.landed <= reviewing[v].began
                 PROVE  r \in overrides
      OBVIOUS
    <3>1. r.landed # factClock
      BY <1>1, <2>1
    <3>2. QED BY <3>1, LandedAre
  <2>4. SawTheActive(reviewing[v])'
    BY <2>1, <2>3 DEF SawTheActive
  <2>5. QED BY <2>2, <2>4
<1>8. QED BY <1>3, <1>4, <1>5, <1>6, <1>7 DEF FactInv

-----------------------------------------------------------------------------
LEMMA FactStep == FactInv /\ [FactNext]_factVars => FactInv'
<1> SUFFICES ASSUME FactInv, [FactNext]_factVars PROVE FactInv'
  OBVIOUS
<1>1. ASSUME NEW f \in Observation, Observe(f) PROVE FactInv'
  BY <1>1 DEF Observe, FactInv, VerdictTypes, InstantsPassed, TwoActiveOverlapped,
              NoneLeft, SawTheActive, RevokesBefore, ActiveReviews
<1>2. ASSUME NEW u \in Reviewers, DropVerdict(u) PROVE FactInv'
  <2>1. /\ reviewing' = [reviewing EXCEPT ![u] = NoReview]
        /\ UNCHANGED <<facts, overrides, factClock>> /\ revoked' = {}
    BY <1>2 DEF DropVerdict
  <2>2. /\ facts' \subseteq Observation /\ factClock' \in Nat /\ factClock' >= factClock
    BY <2>1 DEF FactInv, VerdictTypes
  <2>3. QED BY <2>1, <2>2, OpenRequestKeeps
<1>3. CASE UNCHANGED factVars
  BY <1>3 DEF factVars, FactInv, VerdictTypes, InstantsPassed, TwoActiveOverlapped,
              NoneLeft, SawTheActive, RevokesBefore, ActiveReviews
<1>4. QED
  BY <1>1, <1>2, <1>3, BeginVerdictKeeps, ReviewFactKeeps, RevokeReviewKeeps,
     LandVerdictKeeps DEF FactNext

(* What open reviews have seen and will revoke (review, revoke).           *)
THEOREM FactInvariant == FactSpec => []FactInv
BY FactInitial, FactStep, PTL DEF FactSpec

(* Two reviews of one organization are in force together only if their     *)
(* requests overlapped: a review that began after another's commit has     *)
(* revoked it.  And a revocation that raced no review restores the         *)
(* projection (review, revoke and get in intelligence.py).                 *)
THEOREM ReviewsAlwaysSettle == FactSpec => []ReviewsSettle
<1>1. FactInv => ReviewsSettle
  BY DEF FactInv, NoneLeft, ReviewsSettle, RevokingRestores, Selected
<1>2. QED BY <1>1, FactInvariant, PTL

(* Reviews that were made: committed, seen, or about to be committed.      *)
MadeReviews ==
  overrides \cup UNION {reviewing[u].seen \cup reviewing[u].insert :
                          u \in {v \in Reviewers : reviewing[v] # NoReview}}

(* The instant at which a review was made tells whose it is.               *)
MadeTellsOwner ==
  /\ \A r \in MadeReviews : r.made \in Nat /\ r.made < factClock
  /\ \A r, s \in MadeReviews : r.made = s.made => r.owner = s.owner

(* A step made no review, or one, now, for the organization of u.          *)
LEMMA MadeOneKeeps ==
  ASSUME FactInv, MadeTellsOwner, factClock' \in Nat, NEW o,
         \A r \in MadeReviews' :
           \/ factClock' >= factClock /\ \E s \in MadeReviews : s.made = r.made /\ s.owner = r.owner
           \/ factClock' = factClock + 1 /\ r.made = factClock /\ r.owner = o
  PROVE  MadeTellsOwner'
<1>1. factClock \in Nat
  BY DEF FactInv, VerdictTypes
<1>2. ASSUME NEW r \in MadeReviews' PROVE r.made \in Nat /\ r.made < factClock'
  <2>1. CASE factClock' >= factClock /\ \E s \in MadeReviews : s.made = r.made
    <3>1. r.made \in Nat /\ r.made < factClock
      BY <2>1 DEF MadeTellsOwner
    <3>2. QED BY <1>1, <2>1, <3>1
  <2>2. CASE factClock' = factClock + 1 /\ r.made = factClock
    BY <1>1, <2>2
  <2>3. QED BY <2>1, <2>2
<1>3. ASSUME NEW r \in MadeReviews', NEW s \in MadeReviews', r.made = s.made
      PROVE  r.owner = s.owner
  <2>1. \A x \in MadeReviews : x.made # factClock
    BY <1>1 DEF MadeTellsOwner
  <2>2. QED BY <1>3, <2>1 DEF MadeTellsOwner
<1>4. QED BY <1>2, <1>3 DEF MadeTellsOwner

LEMMA MadeIsMade ==
  ASSUME FactInv
  PROVE  /\ overrides \subseteq MadeReviews
         /\ \A u \in Reviewers : reviewing[u] # NoReview =>
              reviewing[u].seen \cup reviewing[u].insert \subseteq MadeReviews
BY DEF MadeReviews

(* The reviews that were made after a step that commits none.              *)
LEMMA MadeOpenKeeps ==
  ASSUME FactInv, NEW u \in Reviewers, NEW t,
         reviewing' = [reviewing EXCEPT ![u] = t], overrides' = overrides,
         NEW r \in MadeReviews'
  PROVE  r \in MadeReviews \/ (t # NoReview /\ r \in t.seen \cup t.insert)
<1>1. \A v \in Reviewers : reviewing'[v] = IF v = u THEN t ELSE reviewing[v]
  BY DEF FactInv, VerdictTypes
<1>2. QED BY <1>1 DEF MadeReviews

LEMMA MadeStep ==
  ASSUME FactInv, MadeTellsOwner, [FactNext]_factVars
  PROVE  MadeTellsOwner'
<1>0. factClock \in Nat
  BY DEF FactInv, VerdictTypes
<1>1. ASSUME NEW f \in Observation, Observe(f) PROVE MadeTellsOwner'
  BY <1>1 DEF Observe, MadeTellsOwner, MadeReviews
<1>2. ASSUME NEW u \in Reviewers, DropVerdict(u) PROVE MadeTellsOwner'
  <2>1. /\ reviewing' = [reviewing EXCEPT ![u] = NoReview]
        /\ overrides' = overrides /\ factClock' = factClock
    BY <1>2 DEF DropVerdict
  <2>2. \A r \in MadeReviews' : r \in MadeReviews
    BY <2>1, MadeOpenKeeps
  <2>3. QED BY <1>0, <2>1, <2>2, MadeOneKeeps
<1>3. ASSUME NEW u \in Reviewers, NEW o \in Owners, BeginVerdict(u, o)
      PROVE  MadeTellsOwner'
  <2> DEFINE t == [owner |-> o, began |-> factClock, facts |-> facts, seen |-> overrides,
                   drop |-> {}, insert |-> {}, correction |-> {}]
  <2>1. /\ reviewing' = [reviewing EXCEPT ![u] = t] /\ overrides' = overrides
        /\ factClock' = factClock + 1 /\ t.seen = overrides /\ t.insert = {}
    BY <1>3 DEF BeginVerdict
  <2> HIDE DEF t
  <2>2. \A r \in MadeReviews' : r \in MadeReviews
    BY <2>1, MadeOpenKeeps, MadeIsMade
  <2>3. factClock' >= factClock /\ factClock' \in Nat
    BY <1>0, <2>1
  <2>4. QED BY <2>2, <2>3, MadeOneKeeps
<1>4. ASSUME NEW u \in Reviewers, NEW drop, NEW insert, NEW correction,
             reviewing[u] # NoReview, Flush(u, drop, insert, correction),
             \A n \in insert : n.made = factClock /\ n.owner = reviewing[u].owner
      PROVE  MadeTellsOwner'
  <2> DEFINE t == [reviewing[u] EXCEPT !.drop = drop, !.insert = insert,
                                       !.correction = correction]
  <2>1. reviewing[u] \in Verdict
    BY <1>4 DEF FactInv, VerdictTypes
  <2>2. /\ reviewing' = [reviewing EXCEPT ![u] = t] /\ overrides' = overrides
        /\ factClock' = factClock + 1
    BY <1>4 DEF Flush
  <2>3. t.seen = reviewing[u].seen /\ t.insert = insert
    BY <2>1 DEF Verdict
  <2> HIDE DEF t
  <2>4. \A r \in MadeReviews' : r \in MadeReviews \/ r \in insert
    BY <1>4, <2>2, <2>3, MadeOpenKeeps, MadeIsMade
  <2>5. factClock' >= factClock /\ factClock' \in Nat
    BY <1>0, <2>2
  <2>6. QED BY <1>4, <2>2, <2>4, <2>5, MadeOneKeeps
<1>5. ASSUME NEW u \in Reviewers, NEW f \in Observation, NEW isNew \in BOOLEAN,
             ReviewFact(u, f, isNew)
      PROVE  MadeTellsOwner'
  <2>1. reviewing[u] # NoReview
    BY <1>5 DEF ReviewFact, Fresh
  <2>2. \A n \in {MadeReview(u, f)} : n.made = factClock /\ n.owner = reviewing[u].owner
    BY DEF MadeReview
  <2>3. QED BY <1>4, <1>5, <2>1, <2>2 DEF ReviewFact
<1>6. ASSUME NEW u \in Reviewers, RevokeReview(u) PROVE MadeTellsOwner'
  BY <1>4, <1>6 DEF RevokeReview, Fresh
<1>7. ASSUME NEW u \in Reviewers, LandVerdict(u) PROVE MadeTellsOwner'
  <2> DEFINE t == reviewing[u]
  <2>1. t # NoReview /\ t \in Verdict /\ factClock' = factClock + 1
    BY <1>7 DEF LandVerdict, FactInv, VerdictTypes
  <2>2. ASSUME NEW r \in overrides'
        PROVE  \E s \in MadeReviews : s.made = r.made /\ s.owner = r.owner
    <3>1. \A s \in overrides \cup t.insert : s \in Override /\ s \in MadeReviews
      BY <2>1, MadeIsMade DEF FactInv, VerdictTypes, Verdict
    <3>2. CASE \E s \in overrides :
                 r = IF \E d \in t.drop : d.made = s.made THEN [s EXCEPT !.active = FALSE] ELSE s
      BY <3>1, <3>2 DEF Override
    <3>3. CASE \E n \in t.insert : r = [n EXCEPT !.landed = factClock]
      BY <3>1, <3>3 DEF Override
    <3>4. QED BY <1>7, <3>2, <3>3 DEF LandVerdict
  <2>3. ASSUME NEW r \in MadeReviews', r \notin overrides' PROVE r \in MadeReviews
    <3>1. \A v \in Reviewers : reviewing'[v] = IF v = u THEN NoReview ELSE reviewing[v]
      BY <1>7 DEF LandVerdict, FactInv, VerdictTypes
    <3>2. QED BY <2>3, <3>1 DEF MadeReviews
  <2>4. factClock' >= factClock /\ factClock' \in Nat
    BY <1>0, <2>1
  <2>5. QED BY <2>2, <2>3, <2>4, MadeOneKeeps
<1>8. CASE UNCHANGED factVars
  BY <1>8 DEF factVars, MadeTellsOwner, MadeReviews
<1>9. QED
  BY <1>1, <1>2, <1>3, <1>5, <1>6, <1>7, <1>8 DEF FactNext

LEMMA MadeAlwaysTellsOwner == FactSpec => []MadeTellsOwner
<1>1. FactInit => MadeTellsOwner
  BY DEF FactInit, MadeTellsOwner, MadeReviews
<1>2. QED BY <1>1, MadeStep, FactInvariant, PTL DEF FactSpec

-----------------------------------------------------------------------------
(* A commit of another organization leaves the reviews of o in force.      *)
LEMMA OthersLeaveActive ==
  ASSUME FactInv, MadeTellsOwner, NEW u \in Reviewers, LandVerdict(u),
         NEW o, reviewing[u].owner # o
  PROVE  ActiveReviews(o, overrides') = ActiveReviews(o, overrides)
<1> DEFINE t == reviewing[u]
           After(r) == IF \E d \in t.drop : d.made = r.made
                       THEN [r EXCEPT !.active = FALSE] ELSE r
<1>1. t # NoReview /\ t \in Verdict /\ t.drop = ActiveReviews(t.owner, t.seen)
  BY DEF LandVerdict, Fresh, FactInv, VerdictTypes, RevokesBefore
<1>2. overrides' = {After(r) : r \in overrides}
                   \cup {[r EXCEPT !.landed = factClock] : r \in t.insert}
  BY DEF LandVerdict
<1>3. ASSUME NEW r \in overrides, r.owner = o PROVE After(r) = r
  <2>1. \A d \in t.drop : d \in MadeReviews /\ d.owner = t.owner
    BY <1>1, MadeIsMade DEF ActiveReviews
  <2>2. r \in MadeReviews
    BY MadeIsMade
  <2>3. ~ \E d \in t.drop : d.made = r.made
    BY <1>3, <2>1, <2>2 DEF MadeTellsOwner
  <2>4. QED BY <2>3
<1>4. ASSUME NEW r \in overrides PROVE After(r).owner = r.owner
  <2>1. r \in Override
    BY DEF FactInv, VerdictTypes
  <2>2. QED BY <2>1 DEF Override
<1>5. ASSUME NEW n \in t.insert PROVE [n EXCEPT !.landed = factClock].owner = t.owner
  <2>1. n \in Override /\ n.owner = t.owner
    BY <1>1 DEF Verdict, FactInv, RevokesBefore
  <2>2. QED BY <2>1 DEF Override
<1> HIDE DEF After
<1>6. ASSUME NEW r \in overrides', r.owner = o PROVE r \in overrides
  <2>1. CASE \E s \in overrides : r = After(s)
    <3>1. PICK s \in overrides : r = After(s)
      BY <2>1
    <3>2. s.owner = o
      BY <1>4, <1>6, <3>1
    <3>3. QED BY <1>3, <3>1, <3>2
  <2>2. CASE \E n \in t.insert : r = [n EXCEPT !.landed = factClock]
    BY <1>5, <1>6, <2>2
  <2>3. QED BY <1>2, <2>1, <2>2
<1>7. \A r \in overrides : r.owner = o => r \in overrides'
  BY <1>2, <1>3
<1>8. QED BY <1>6, <1>7 DEF ActiveReviews

(* What an organization has reviewed stays selected until it decides anew: *)
(* neither research nor a review of another organization moves it.         *)
THEOREM ReviewedSelectionAlwaysStands == FactSpec => ReviewedSelectionStands
<1> DEFINE Stands ==
      \A o \in Owners :
        /\ ActiveReviews(o, overrides) # {}
        /\ \A u \in Reviewers : reviewing'[u] = reviewing[u] \/ reviewing[u] = NoReview
                                \/ reviewing[u].owner # o
        => Selected(o, facts', overrides') = Selected(o, facts, overrides)
<1>1. FactInv /\ MadeTellsOwner /\ [FactNext]_factVars => [Stands]_factVars
  <2> SUFFICES ASSUME FactInv, MadeTellsOwner, FactNext,
                      NEW o \in Owners, ActiveReviews(o, overrides) # {},
                      \A u \in Reviewers : reviewing'[u] = reviewing[u]
                        \/ reviewing[u] = NoReview \/ reviewing[u].owner # o
               PROVE  Selected(o, facts', overrides') = Selected(o, facts, overrides)
    OBVIOUS
  <2>1. ActiveReviews(o, overrides') = ActiveReviews(o, overrides)
    <3>1. ASSUME NEW u \in Reviewers, LandVerdict(u)
          PROVE  ActiveReviews(o, overrides') = ActiveReviews(o, overrides)
      <4>1. reviewing[u] # NoReview /\ reviewing'[u] = NoReview
        BY <3>1 DEF LandVerdict, FactInv, VerdictTypes
      <4>2. reviewing[u].owner # o
        BY <4>1
      <4>3. QED BY <3>1, <4>2, OthersLeaveActive
    <3>2. CASE overrides' = overrides
      BY <3>2
    <3>3. QED
      BY <3>1, <3>2 DEF FactNext, Observe, BeginVerdict, ReviewFact, RevokeReview, Flush,
                        DropVerdict
  <2>2. QED BY <2>1 DEF Selected
<1>2. [][Stands]_factVars <=> ReviewedSelectionStands
  BY DEF ReviewedSelectionStands
<1>3. QED BY <1>1, <1>2, FactInvariant, MadeAlwaysTellsOwner, PTL DEF FactSpec

-----------------------------------------------------------------------------
(* Companies that organizations share (Companies).                        *)

SharedColumn == SharedValues \cup {NoCompany, NoValue}

Columns == [Domains -> SharedColumn]

Import ==
  [owner : Organizations, file : Files, companies : Columns,
   attached : SUBSET (Organizations \X Domains)]

(* What line n makes of the companies, in an import's own transaction.     *)
Line(t, n, C) == IF AlreadyAttached(t, n) THEN C ELSE Filled(C, t.file[n])

(* it is the function by which Imported folds the lines.                   *)
Imports(it, t) ==
  it = [s \in SUBSET DOMAIN t.file |->
          IF s = {} THEN t.companies ELSE Line(t, Max(s), it[s \ {Max(s)}])]

LEMMA FileIs ==
  ASSUME NEW t \in Import
  PROVE  /\ DOMAIN t.file \in SUBSET Nat /\ IsFiniteSet(DOMAIN t.file)
         /\ \A n \in DOMAIN t.file :
              t.file[n].domain \in Domains /\ t.file[n].value \in SharedValues \cup {NoValue}
<1>1. PICK n \in 1 .. MaxImportRows : t.file \in [1 .. n -> ImportLine]
  BY DEF Import, Files
<1>2. DOMAIN t.file = 1 .. n /\ n \in Int
  BY <1>1
<1>3. IsFiniteSet(1 .. n)
  BY <1>2, FS_Interval
<1>4. \A i \in 1 .. n : t.file[i] \in ImportLine
  BY <1>1
<1>5. QED BY <1>2, <1>3, <1>4 DEF ImportLine

LEMMA LineIs ==
  ASSUME NEW t \in Import, NEW n \in DOMAIN t.file, NEW C \in Columns
  PROVE  /\ Line(t, n, C) \in Columns
         /\ \A d \in Domains :
              /\ C[d] \in SharedValues => Line(t, n, C)[d] = C[d]
              /\ Line(t, n, C)[d] # NoCompany <=>
                   \/ C[d] # NoCompany
                   \/ ~AlreadyAttached(t, n) /\ t.file[n].domain = d
<1>1. /\ t.file[n].domain \in Domains /\ t.file[n].value \in SharedValues \cup {NoValue}
      /\ t.file[n].value # NoCompany
  BY FileIs, CompanyAssumption
<1>2. CASE AlreadyAttached(t, n)
  BY <1>2 DEF Line
<1>3. CASE ~AlreadyAttached(t, n) /\ C[t.file[n].domain] \in {NoCompany, NoValue}
  <2> DEFINE x == t.file[n].domain
             v == t.file[n].value
  <2>1. Line(t, n, C) = [C EXCEPT ![x] = v]
    BY <1>3 DEF Line, Filled
  <2>2. x \in Domains /\ v \in SharedColumn /\ v # NoCompany /\ C[x] \notin SharedValues
    BY <1>1, <1>3, CompanyAssumption DEF SharedColumn
  <2> HIDE DEF x, v
  <2>3. /\ Line(t, n, C) \in Columns
        /\ \A d \in Domains : Line(t, n, C)[d] = IF d = x THEN v ELSE C[d]
    BY <2>1, <2>2 DEF Columns
  <2>4. QED BY <1>3, <2>2, <2>3 DEF x
<1>4. CASE ~AlreadyAttached(t, n) /\ C[t.file[n].domain] \notin {NoCompany, NoValue}
  BY <1>1, <1>4 DEF Line, Filled
<1>5. QED BY <1>2, <1>3, <1>4

(* The companies after the lines of s.                                     *)
AfterLines(t, s) ==
  {C \in Columns : \A d \in Domains :
     /\ t.companies[d] \in SharedValues => C[d] = t.companies[d]
     /\ C[d] # NoCompany <=>
          \/ t.companies[d] # NoCompany
          \/ \E n \in s : ~AlreadyAttached(t, n) /\ t.file[n].domain = d}

LEMMA ImportsExists ==
  ASSUME NEW t \in Import
  PROVE  \E it : Imports(it, t)
<1> DEFINE N == DOMAIN t.file
           c == [s \in SUBSET N |-> Max(s)]
           g == [n \in N |-> [C \in Columns |-> Line(t, n, C)]]
<1>0. N \in SUBSET Nat /\ IsFiniteSet(N)
  BY FileIs
<1>1. Picks(c, N) /\ \A s \in SUBSET N : c[s] = Max(s)
  <2>1. \A s \in SUBSET N : s # {} => Max(s) \in s
    <3>1. \A s \in SUBSET N : IsFiniteSet(s) /\ s \in SUBSET Nat
      BY <1>0, FS_Subset
    <3>2. QED BY <3>1, MaxIsLast
  <2>2. QED BY <2>1 DEF Picks
<1>2. \A n \in N : \A C \in Columns : g[n][C] = Line(t, n, C)
  OBVIOUS
<1> HIDE DEF N, c, g
<1>3. PICK it : Folds(it, c, g, t.companies, N)
  BY <1>0, <1>1, FoldsExists
<1> DEFINE Q == [s \in SUBSET N |-> Columns]
<1>4. \A s \in SUBSET N : it[s] \in Q[s]
  <2>1. t.companies \in Q[{}]
    BY DEF Import
  <2>2. ASSUME NEW s \in SUBSET N, s # {}, NEW w \in Q[s \ {c[s]}] PROVE g[c[s]][w] \in Q[s]
    <3>1. c[s] \in N /\ w \in Columns
      BY <2>2, <1>1 DEF Picks
    <3>2. QED BY <1>2, <3>1, LineIs DEF N
  <2> HIDE DEF Q
  <2>3. QED BY <1>0, <1>1, <1>3, <2>1, <2>2, FoldKeeps
<1>5. \A s \in SUBSET N : s # {} =>
        /\ Max(s) \in N /\ s \ {Max(s)} \in SUBSET N
        /\ g[c[s]][it[s \ {c[s]}]] = Line(t, Max(s), it[s \ {Max(s)}])
  BY <1>1, <1>2, <1>4 DEF Picks
<1>6. it = [s \in SUBSET N |->
              IF s = {} THEN t.companies ELSE Line(t, Max(s), it[s \ {Max(s)}])]
  BY <1>3, <1>5 DEF Folds
<1>7. QED BY <1>6 DEF Imports, N

LEMMA ImportedIs ==
  ASSUME NEW t \in Import
  PROVE  Imported(t) \in AfterLines(t, DOMAIN t.file)
<1> DEFINE N == DOMAIN t.file
           it == CHOOSE f : Imports(f, t)
<1>0. N \in SUBSET Nat /\ IsFiniteSet(N)
  BY FileIs
<1>1. Imports(it, t)
  BY ImportsExists
<1>2. Imported(t) = it[N]
  <2> DEFINE seq == [i \in DOMAIN t.file |-> i]
             Raw(f) ==
               f = [s \in SUBSET DOMAIN seq |->
                      IF s = {} THEN t.companies
                      ELSE IF AlreadyAttached(t, seq[Max(s)]) THEN f[s \ {Max(s)}]
                           ELSE Filled(f[s \ {Max(s)}], t.file[seq[Max(s)]])]
  <2>1. Imported(t) = (CHOOSE f : Raw(f))[DOMAIN seq]
    BY DEF Imported, FoldLeftDomain, FoldLeft, MapThenFoldSet
  <2>2. DOMAIN seq = N /\ \A s \in SUBSET N : s # {} => seq[Max(s)] = Max(s)
    <3>1. \A s \in SUBSET N : IsFiniteSet(s) /\ s \in SUBSET Nat
      BY <1>0, FS_Subset
    <3>2. \A s \in SUBSET N : s # {} => Max(s) \in N
      BY <3>1, MaxIsLast
    <3>3. QED BY <3>2
  <2> HIDE DEF seq
  <2>3. ASSUME NEW f PROVE Raw(f) <=> Imports(f, t)
    <3>1. \A s \in SUBSET N :
            (IF s = {} THEN t.companies
             ELSE IF AlreadyAttached(t, seq[Max(s)]) THEN f[s \ {Max(s)}]
                  ELSE Filled(f[s \ {Max(s)}], t.file[seq[Max(s)]]))
            = (IF s = {} THEN t.companies ELSE Line(t, Max(s), f[s \ {Max(s)}]))
      BY <2>2 DEF Line
    <3>2. QED BY <2>2, <3>1 DEF Imports
  <2> HIDE DEF Raw
  <2>4. (CHOOSE f : Raw(f)) = it
    BY <2>3
  <2>5. QED BY <2>1, <2>2, <2>4
<1> HIDE DEF it
<1> DEFINE R == {s \in SUBSET N : it[s] \in AfterLines(t, s)}
<1>3. ASSUME NEW s \in SUBSET N, \A x \in s : s \ {x} \in R PROVE s \in R
  <2>1. CASE s = {}
    <3>1. it[s] = t.companies
      BY <1>1, <2>1 DEF Imports
    <3>2. QED BY <2>1, <3>1 DEF AfterLines, Import
  <2>2. CASE s # {}
    <3> DEFINE m == Max(s)
               C == it[s \ {m}]
    <3>1. m \in s /\ m \in N
      <4>1. IsFiniteSet(s) /\ s \in SUBSET Nat
        BY <1>0, FS_Subset
      <4>2. QED BY <2>2, <4>1, MaxIsLast
    <3>2. it[s] = Line(t, m, C)
      BY <1>1, <2>2 DEF Imports
    <3>3. C \in AfterLines(t, s \ {m})
      BY <1>3, <3>1
    <3> HIDE DEF C, m
    <3>4. C \in Columns
      BY <3>3 DEF AfterLines
    <3>5. it[s] \in AfterLines(t, s)
      BY <3>1, <3>2, <3>3, <3>4, LineIs DEF AfterLines
    <3>6. QED BY <3>5
  <2>3. QED BY <2>1, <2>2
<1>4. \A s \in SUBSET N : s \in R
  <2> HIDE DEF R, N
  <2>1. QED BY <1>0, <1>3, SmallerInduction
<1>5. QED BY <1>2, <1>4

-----------------------------------------------------------------------------
CompanyTypes ==
  /\ companies \in Columns /\ attached \subseteq Organizations \X Domains
  /\ importing \in [Importers -> Import \cup {NoImport}]

(* Nothing is ever deleted: what a snapshot has is there.                  *)
SnapshotsStand ==
  \A u \in Importers : importing[u] # NoImport =>
    /\ importing[u].attached \subseteq attached
    /\ \A d \in Domains :
         importing[u].companies[d] # NoCompany => companies[d] # NoCompany

CompanyInv == CompanyTypes /\ SnapshotsStand

(* The lines that a report counts: those that attach a company, and those  *)
(* of them that create it.                                                 *)
AttachLines(t) == {n \in DOMAIN t.file : ~AlreadyAttached(t, n)}

CreateLines(t) == {n \in AttachLines(t) : t.companies[t.file[n].domain] = NoCompany}

(* Of the lines that name a domain, the first attaches it, and no other.   *)
LEMMA OneLineAttaches ==
  ASSUME NEW t \in Import
  PROVE  /\ \A n, m \in AttachLines(t) : t.file[n].domain = t.file[m].domain => n = m
         /\ \A n \in DOMAIN t.file : <<t.owner, t.file[n].domain>> \notin t.attached =>
              \E m \in AttachLines(t) : t.file[m].domain = t.file[n].domain
<1>0. DOMAIN t.file \in SUBSET Nat
  BY FileIs
<1>1. PICK k \in 1 .. MaxImportRows : DOMAIN t.file = 1 .. k
  BY DEF Import, Files
<1>2. ASSUME NEW n \in AttachLines(t), NEW m \in AttachLines(t), n < m,
             t.file[n].domain = t.file[m].domain
      PROVE  FALSE
  <2>1. n \in 1 .. m - 1
    BY <1>1, <1>2 DEF AttachLines
  <2>2. QED BY <1>2, <2>1 DEF AttachLines, AlreadyAttached, Earlier
<1>3. ASSUME NEW n \in DOMAIN t.file, <<t.owner, t.file[n].domain>> \notin t.attached
      PROVE  \E m \in AttachLines(t) : t.file[m].domain = t.file[n].domain
  <2> DEFINE S == {m \in DOMAIN t.file : t.file[m].domain = t.file[n].domain}
  <2>1. PICK m \in S : \A x \in S : m <= x
    <3>1. S \in SUBSET Nat /\ S # {}
      BY <1>0
    <3> HIDE DEF S
    <3>2. QED BY <3>1, LeastExists
  <2>2. \A x \in 1 .. m - 1 : t.file[x].domain # t.file[m].domain
    <3>1. \A x \in 1 .. m - 1 : x \in DOMAIN t.file /\ ~(m <= x)
      BY <1>1, <2>1
    <3>2. QED BY <2>1, <3>1
  <2>3. m \in AttachLines(t)
    BY <1>3, <2>1, <2>2 DEF AttachLines, AlreadyAttached, Earlier
  <2>4. QED BY <2>1, <2>3
<1>4. \A n, m \in AttachLines(t) : n < m \/ m < n \/ n = m
  BY <1>0 DEF AttachLines
<1>5. \A n, m \in AttachLines(t) : t.file[n].domain = t.file[m].domain => n = m
  BY <1>2, <1>4
<1>6. QED BY <1>3, <1>5

(* What an import that lands makes of the tables.                          *)
LEMMA LandIs ==
  ASSUME CompanyInv, NEW u \in Importers, LandImport(u), NEW t, t = importing[u]
  PROVE  /\ t \in Import
         /\ companies' \in Columns
         /\ \A d \in Domains :
              /\ companies[d] # NoCompany => companies'[d] # NoCompany
              /\ companies'[d] # companies[d] => t.companies[d] \notin SharedValues
              /\ companies[d] \in SharedValues /\ companies'[d] # companies[d] =>
                   t.companies[d] = NoValue
              /\ companies[d] = NoCompany /\ companies'[d] # NoCompany <=>
                   \E n \in CreateLines(t) : t.file[n].domain = d
<1> DEFINE mine == Imported(t)
<1>1. /\ t \in Import /\ importing[u] # NoImport
      /\ t.attached \subseteq attached /\ t.companies \in Columns
      /\ \A d \in Domains : t.companies[d] # NoCompany => companies[d] # NoCompany
  BY DEF LandImport, CompanyInv, CompanyTypes, SnapshotsStand, Import
<1>2. mine \in AfterLines(t, DOMAIN t.file)
  BY <1>1, ImportedIs
<1>3. /\ \A d \in Domains :
           t.companies[d] = NoCompany /\ mine[d] # NoCompany => companies[d] = NoCompany
      /\ companies' = [d \in Domains |-> IF mine[d] = t.companies[d] THEN companies[d]
                                         ELSE mine[d]]
  BY DEF LandImport
<1> HIDE DEF mine
<1>4. /\ mine \in Columns /\ companies \in Columns
      /\ \A d \in Domains :
           /\ t.companies[d] \in SharedValues => mine[d] = t.companies[d]
           /\ mine[d] # NoCompany <=>
                \/ t.companies[d] # NoCompany
                \/ \E n \in DOMAIN t.file : ~AlreadyAttached(t, n) /\ t.file[n].domain = d
  BY <1>2 DEF AfterLines, CompanyInv, CompanyTypes
<1>5. /\ companies' \in Columns
      /\ \A d \in Domains :
           companies'[d] = IF mine[d] = t.companies[d] THEN companies[d] ELSE mine[d]
  BY <1>3, <1>4 DEF Columns
<1>6. ASSUME NEW d \in Domains
      PROVE  /\ companies[d] # NoCompany => companies'[d] # NoCompany
             /\ companies'[d] # companies[d] => t.companies[d] \notin SharedValues
             /\ companies[d] \in SharedValues /\ companies'[d] # companies[d] =>
                  t.companies[d] = NoValue
             /\ companies[d] = NoCompany /\ companies'[d] # NoCompany <=>
                  \E n \in CreateLines(t) : t.file[n].domain = d
  <2>1. /\ t.companies[d] \in SharedValues \cup {NoCompany, NoValue}
        /\ NoCompany \notin SharedValues
    BY <1>1, CompanyAssumption DEF Columns, SharedColumn
  <2>2. (\E n \in CreateLines(t) : t.file[n].domain = d) <=>
          /\ t.companies[d] = NoCompany
          /\ \E n \in DOMAIN t.file : ~AlreadyAttached(t, n) /\ t.file[n].domain = d
    BY DEF CreateLines, AttachLines
  <2>3. companies[d] # NoCompany => companies'[d] # NoCompany
    BY <1>4, <1>5
  <2>4. companies'[d] # companies[d] => t.companies[d] \notin SharedValues
    BY <1>4, <1>5
  <2>5. companies[d] \in SharedValues /\ companies'[d] # companies[d] =>
          t.companies[d] = NoValue
    BY <1>3, <1>4, <1>5, <2>1
  <2>6. companies[d] = NoCompany /\ companies'[d] # NoCompany <=>
          \E n \in CreateLines(t) : t.file[n].domain = d
    BY <1>1, <1>3, <1>4, <1>5, <2>2
  <2>7. QED BY <2>3, <2>4, <2>5, <2>6
<1>7. QED BY <1>1, <1>5, <1>6

(* A report counts the companies and the relationships that are added.     *)
LEMMA ReportCounts ==
  ASSUME CompanyInv, NEW u \in Importers, LandImport(u)
  PROVE  ReportIsTrue'
<1> DEFINE t == importing[u]
           links == {<<t.owner, t.file[n].domain>> : n \in DOMAIN t.file}
           A == AttachLines(t)
           N == CreateLines(t)
           made == [n \in N |-> t.file[n].domain]
           bound == [n \in A |-> <<t.owner, t.file[n].domain>>]
           new == {d \in Domains : companies[d] = NoCompany /\ companies'[d] # NoCompany}
<1>1. /\ told'.report = <<Cardinality(N), Cardinality(A)>>
      /\ told'.added = <<Cardinality(new), Cardinality(attached' \ attached)>>
      /\ (links \ t.attached) \cap attached = {}
      /\ attached' = attached \cup links
  BY DEF LandImport, ImportReport, AttachLines, CreateLines
<1>2. /\ t \in Import /\ t.attached \subseteq attached
      /\ \A d \in Domains : companies[d] = NoCompany /\ companies'[d] # NoCompany <=>
                              \E n \in N : t.file[n].domain = d
  <2>1. importing[u] # NoImport
    BY DEF LandImport
  <2>2. QED BY <2>1, LandIs DEF CompanyInv, SnapshotsStand
<1>3. /\ \A n, m \in A : t.file[n].domain = t.file[m].domain => n = m
      /\ \A n \in DOMAIN t.file : <<t.owner, t.file[n].domain>> \notin t.attached =>
           \E m \in A : t.file[m].domain = t.file[n].domain
  BY <1>2, OneLineAttaches
<1>4. /\ IsFiniteSet(DOMAIN t.file) /\ A \subseteq DOMAIN t.file /\ N \subseteq A
      /\ \A n \in DOMAIN t.file : t.file[n].domain \in Domains
      /\ \A n \in A : <<t.owner, t.file[n].domain>> \notin t.attached
  BY <1>2, FileIs DEF AttachLines, CreateLines, AlreadyAttached
<1>5. IsFiniteSet(A) /\ IsFiniteSet(N)
  BY <1>4, FS_Subset
<1>6. attached' \ attached = {<<t.owner, t.file[n].domain>> : n \in A}
  BY <1>1, <1>2, <1>3, <1>4
<1>7. new = {t.file[n].domain : n \in N}
  BY <1>2, <1>4
<1> HIDE DEF t, links, A, N, new
<1>8. DOMAIN made = N /\ DOMAIN bound = A
  OBVIOUS
<1>9. Cardinality(attached' \ attached) = Cardinality(A)
  <2>1. /\ attached' \ attached = {bound[n] : n \in DOMAIN bound}
        /\ \A n, m \in DOMAIN bound : bound[n] = bound[m] => n = m
    BY <1>3, <1>6
  <2>2. IsFiniteSet(DOMAIN bound) /\ bound = [n \in DOMAIN bound |-> bound[n]]
    BY <1>5, <1>8
  <2> HIDE DEF bound
  <2>3. QED BY <1>8, <2>1, <2>2, ImageOfFinite
<1>10. Cardinality(new) = Cardinality(N)
  <2>1. /\ new = {made[n] : n \in DOMAIN made}
        /\ \A n, m \in DOMAIN made : made[n] = made[m] => n = m
    BY <1>3, <1>4, <1>7
  <2>2. IsFiniteSet(DOMAIN made) /\ made = [n \in DOMAIN made |-> made[n]]
    BY <1>5, <1>8
  <2> HIDE DEF made
  <2>3. QED BY <1>8, <2>1, <2>2, ImageOfFinite
<1>11. QED BY <1>1, <1>9, <1>10 DEF ReportIsTrue

-----------------------------------------------------------------------------
LEMMA CompanyInitial == CompanyInit => CompanyInv /\ ReportIsTrue
BY DEF CompanyInit, CompanyInv, CompanyTypes, SnapshotsStand, ReportIsTrue, Columns, SharedColumn

(* A step that lands nothing of a request: its transaction begins or ends, *)
(* and the tables grow.                                                    *)
LEMMA TablesGrow ==
  ASSUME CompanyInv, CompanyTypes', attached \subseteq attached',
         \A d \in Domains : companies[d] # NoCompany => companies'[d] # NoCompany,
         \A u \in Importers : \/ importing'[u] = importing[u]
                              \/ importing'[u] = NoImport
                              \/ /\ importing'[u].companies = companies
                                 /\ importing'[u].attached = attached
  PROVE  CompanyInv'
BY DEF CompanyInv, SnapshotsStand

LEMMA CompanyStep == CompanyInv /\ [CompanyNext]_companyVars => CompanyInv'
<1> SUFFICES ASSUME CompanyInv, [CompanyNext]_companyVars PROVE CompanyInv'
  OBVIOUS
<1> USE DEF CompanyInv, CompanyTypes
<1>1. CASE UNCHANGED companyVars
  BY <1>1 DEF companyVars, SnapshotsStand
<1>2. ASSUME NEW u \in Importers, NEW o \in Organizations, NEW file \in Files,
             BeginImport(u, o, file)
      PROVE  CompanyInv'
  <2> DEFINE t == [owner |-> o, file |-> file, companies |-> companies, attached |-> attached]
  <2>1. t \in Import /\ t.companies = companies /\ t.attached = attached
    BY DEF Import
  <2> HIDE DEF t
  <2>2. /\ importing' = [importing EXCEPT ![u] = t]
        /\ companies' = companies /\ attached' = attached
    BY <1>2 DEF BeginImport, t
  <2>3. CompanyTypes'
    BY <2>1, <2>2
  <2>4. \A v \in Importers : importing'[v] = IF v = u THEN t ELSE importing[v]
    BY <2>2
  <2> HIDE DEF CompanyTypes, CompanyInv
  <2>5. QED BY <2>1, <2>2, <2>3, <2>4, TablesGrow
<1>3. ASSUME NEW u \in Importers, LandImport(u) PROVE CompanyInv'
  <2> DEFINE t == importing[u]
             links == {<<t.owner, t.file[n].domain>> : n \in DOMAIN t.file}
  <2>1. /\ t \in Import /\ companies' \in Columns
        /\ \A d \in Domains : companies[d] # NoCompany => companies'[d] # NoCompany
    BY <1>3, LandIs
  <2>2. attached' = attached \cup links /\ importing' = [importing EXCEPT ![u] = NoImport]
    BY <1>3 DEF LandImport
  <2>3. links \subseteq Organizations \X Domains
    <3>1. t.owner \in Organizations /\ \A n \in DOMAIN t.file : t.file[n].domain \in Domains
      BY <2>1, FileIs DEF Import
    <3>2. QED BY <3>1
  <2> HIDE DEF t, links
  <2>4. CompanyTypes'
    BY <2>1, <2>2, <2>3
  <2>5. \A v \in Importers : importing'[v] = IF v = u THEN NoImport ELSE importing[v]
    BY <2>2
  <2> HIDE DEF CompanyTypes, CompanyInv
  <2>6. QED BY <2>1, <2>2, <2>4, <2>5, TablesGrow
<1>4. ASSUME NEW u \in Importers, DropImport(u) PROVE CompanyInv'
  <2>1. /\ importing' = [importing EXCEPT ![u] = NoImport]
        /\ companies' = companies /\ attached' = attached
    BY <1>4 DEF DropImport
  <2>2. CompanyTypes'
    BY <2>1
  <2>3. \A v \in Importers : importing'[v] = IF v = u THEN NoImport ELSE importing[v]
    BY <2>1
  <2> HIDE DEF CompanyTypes, CompanyInv
  <2>4. QED BY <2>1, <2>2, <2>3, TablesGrow
<1>5. ASSUME NEW o \in Organizations, NEW line \in ImportLine, AttachCompany(o, line)
      PROVE  CompanyInv'
  <2>1. /\ line.domain \in Domains /\ line.value \in SharedValues \cup {NoValue}
        /\ line.value # NoCompany
    BY CompanyAssumption DEF ImportLine
  <2>2. /\ companies' = IF companies[line.domain] = NoCompany
                        THEN [companies EXCEPT ![line.domain] = line.value] ELSE companies
        /\ attached' = attached \cup {<<o, line.domain>>} /\ importing' = importing
    BY <1>5 DEF AttachCompany
  <2>3. /\ companies' \in Columns
        /\ \A d \in Domains : companies[d] # NoCompany => companies'[d] # NoCompany
    BY <2>1, <2>2 DEF Columns, SharedColumn
  <2>4. CompanyTypes'
    BY <2>1, <2>2, <2>3
  <2> HIDE DEF CompanyTypes, CompanyInv
  <2>5. QED BY <2>2, <2>3, <2>4, TablesGrow
<1>6. QED BY <1>1, <1>2, <1>3, <1>4, <1>5 DEF CompanyNext

(* What every import keeps: the rows that its snapshot has are there.      *)
THEOREM CompanyInvariant == CompanySpec => []CompanyInv
BY CompanyInitial, CompanyStep, PTL DEF CompanySpec

(* The report of an import counts what it adds.                            *)
THEOREM ReportIsAlwaysTrue == CompanySpec => []ReportIsTrue
<1>1. CompanyInv /\ ReportIsTrue /\ [CompanyNext]_companyVars => ReportIsTrue'
  <2> SUFFICES ASSUME CompanyInv, ReportIsTrue, [CompanyNext]_companyVars
               PROVE  ReportIsTrue'
    OBVIOUS
  <2>1. \/ told' = told
        \/ \E u \in Importers : LandImport(u)
    BY DEF CompanyNext, companyVars, BeginImport, DropImport, AttachCompany
  <2>2. QED BY <2>1, ReportCounts DEF ReportIsTrue
<1>2. QED BY <1>1, CompanyInitial, CompanyInvariant, PTL DEF CompanySpec

(* A value of a shared column is only replaced by an import that had read  *)
(* the column without a value.                                             *)
THEOREM SharedValuesAlwaysStand == CompanySpec => SharedValuesStand
<1> DEFINE Stands ==
      \A d \in Domains :
        companies[d] \in SharedValues /\ companies'[d] # companies[d]
          => \E u \in Importers :
               /\ importing[u] # NoImport /\ importing'[u] = NoImport
               /\ importing[u].companies[d] = NoValue
<1>1. CompanyInv /\ [CompanyNext]_companyVars => [Stands]_companyVars
  <2> SUFFICES ASSUME CompanyInv, CompanyNext, NEW d \in Domains,
                      companies[d] \in SharedValues, companies'[d] # companies[d]
               PROVE  \E u \in Importers :
                        /\ importing[u] # NoImport /\ importing'[u] = NoImport
                        /\ importing[u].companies[d] = NoValue
    BY DEF companyVars
  <2>1. ASSUME NEW u \in Importers, LandImport(u)
        PROVE  /\ importing[u] # NoImport /\ importing'[u] = NoImport
               /\ importing[u].companies[d] = NoValue
    <3>1. importing[u] # NoImport /\ importing'[u] = NoImport
      BY <2>1 DEF LandImport, CompanyInv, CompanyTypes
    <3>2. importing[u].companies[d] = NoValue
      BY <2>1, LandIs
    <3>3. QED BY <3>1, <3>2
  <2>2. ASSUME NEW o \in Organizations, NEW line \in ImportLine, AttachCompany(o, line)
        PROVE  FALSE
    <3>1. companies'[d] = companies[d]
      BY <2>2, CompanyAssumption
      DEF AttachCompany, CompanyInv, CompanyTypes, Columns, ImportLine
    <3>2. QED BY <3>1
  <2>3. \/ \E u \in Importers : LandImport(u)
        \/ \E o \in Organizations, line \in ImportLine : AttachCompany(o, line)
    BY DEF CompanyNext, BeginImport, DropImport
  <2>4. QED BY <2>1, <2>2, <2>3
<1>2. [][Stands]_companyVars <=> SharedValuesStand
  BY DEF SharedValuesStand
<1> HIDE DEF Stands
<1>3. QED BY <1>1, <1>2, CompanyInvariant, PTL DEF CompanySpec

-----------------------------------------------------------------------------
(* The throttle of logins (LoginThrottle).                                *)

Login == [window : Windows, count : Nat]

ThrottleTypes ==
  /\ window \in Windows /\ contended \subseteq Windows
  /\ counted \in [Windows -> Nat] /\ failed \in [Windows -> Nat]
  /\ DOMAIN login = Workers
  /\ \A k \in Workers : login[k] # NoLogin => login[k] \in Login

(* A login has not counted more than the failures there were.              *)
SnapshotsAreHonest ==
  \A k \in Workers : login[k] # NoLogin => login[k].count <= failed[login[k].window]

(* Where no logins overlapped, one at most is at work, and its snapshot is *)
(* of now.                                                                 *)
LoneSnapshots ==
  \A k \in Workers :
    login[k] # NoLogin /\ login[k].window \notin contended =>
      /\ login[k].count = counted[login[k].window]
      /\ \A j \in Workers :
           login[j] # NoLogin /\ login[j].window = login[k].window => j = k

ThrottleInv ==
  /\ ThrottleTypes /\ SnapshotsAreHonest /\ CountIsHonest
  /\ LoneSnapshots /\ LoneFailuresCount

LEMMA ThrottleInitial == ThrottleInit => ThrottleInv
BY ThrottleAssumption
DEF ThrottleInit, ThrottleInv, ThrottleTypes, SnapshotsAreHonest, CountIsHonest,
    LoneSnapshots, LoneFailuresCount

-----------------------------------------------------------------------------
(* A login begins: if another is at work, the window is contended.         *)
LEMMA BeginLoginKeeps ==
  ASSUME ThrottleInv, NEW k \in Workers, BeginLogin(k)
  PROVE  ThrottleInv'
<1> DEFINE t == [window |-> window, count |-> counted[window]]
<1>1. t \in Login /\ t.window = window /\ t.count = counted[window]
  BY DEF ThrottleInv, ThrottleTypes, Login
<1>2. /\ login' = [login EXCEPT ![k] = t]
      /\ contended' = IF AtWork(window) = {} THEN contended ELSE contended \cup {window}
      /\ UNCHANGED <<window, counted, failed>>
      /\ login[k] = NoLogin
  BY DEF BeginLogin
<1>3. counted[window] <= failed[window]
  BY DEF ThrottleInv, ThrottleTypes, CountIsHonest
<1> HIDE DEF t
<1>4. login'[k] = t /\ \A j \in Workers \ {k} : login'[j] = login[j]
  BY <1>2 DEF ThrottleInv, ThrottleTypes
<1>5. ThrottleTypes'
  BY <1>1, <1>2, <1>4 DEF ThrottleInv, ThrottleTypes
<1>6. SnapshotsAreHonest'
  BY <1>1, <1>2, <1>3, <1>4 DEF ThrottleInv, SnapshotsAreHonest
<1>7. CountIsHonest' /\ LoneFailuresCount'
  BY <1>2 DEF ThrottleInv, CountIsHonest, LoneFailuresCount
<1>8. LoneSnapshots'
  <2> SUFFICES ASSUME NEW j \in Workers, login'[j] # NoLogin,
                      login'[j].window \notin contended',
                      NEW i \in Workers, login'[i] # NoLogin,
                      login'[i].window = login'[j].window
               PROVE  login'[j].count = counted'[login'[j].window] /\ i = j
    BY <1>2 DEF LoneSnapshots
  <2>1. CASE window \in contended'
    <3>1. j # k /\ i # k
      BY <2>1, <1>1, <1>4
    <3>2. /\ login'[j] = login[j] /\ login'[i] = login[i]
          /\ login[j].window \notin contended
      BY <3>1, <1>2, <1>4
    <3>3. QED BY <3>2, <1>2 DEF ThrottleInv, LoneSnapshots
  <2>2. CASE window \notin contended'
    <3>1. AtWork(window) = {} /\ contended' = contended
      BY <2>2, <1>2
    <3>2. \A h \in Workers \ {k} : login[h] # NoLogin => login[h].window # window
      BY <3>1 DEF AtWork
    <3>3. CASE j = k
      BY <3>2, <3>3, <1>1, <1>2, <1>4
    <3>4. CASE j # k
      <4>1. i # k
        BY <3>2, <3>4, <1>1, <1>4
      <4>2. login'[j] = login[j] /\ login'[i] = login[i]
        BY <4>1, <3>4, <1>4
      <4>3. QED BY <4>2, <3>1, <1>2 DEF ThrottleInv, LoneSnapshots
    <3>5. QED BY <3>3, <3>4
  <2>3. QED BY <2>1, <2>2
<1>9. QED BY <1>5, <1>6, <1>7, <1>8 DEF ThrottleInv

-----------------------------------------------------------------------------
(* A login ends, whether it failed, which n says of its window, or not.    *)
LEMMA EndKeepsLone ==
  ASSUME ThrottleInv, NEW k \in Workers, login[k] # NoLogin,
         login' = [login EXCEPT ![k] = NoLogin], contended' = contended,
         \A w \in Windows : w # login[k].window => counted'[w] = counted[w]
  PROVE  LoneSnapshots'
<1> SUFFICES ASSUME NEW j \in Workers, login'[j] # NoLogin,
                    login'[j].window \notin contended',
                    NEW i \in Workers, login'[i] # NoLogin,
                    login'[i].window = login'[j].window
             PROVE  login'[j].count = counted'[login'[j].window] /\ i = j
  BY DEF LoneSnapshots
<1>1. /\ j # k /\ login'[j] = login[j] /\ login[j] \in Login /\ login[j] # NoLogin
      /\ login'[i] = login[i] /\ login[i] # NoLogin
  BY DEF ThrottleInv, ThrottleTypes
<1>2. /\ login[j].count = counted[login[j].window] /\ i = j
      /\ login[k].window = login[j].window => k = j
  BY <1>1 DEF ThrottleInv, LoneSnapshots
<1>3. QED BY <1>1, <1>2 DEF Login

LEMMA FailLoginKeeps ==
  ASSUME ThrottleInv, NEW k \in Workers, FailLogin(k)
  PROVE  ThrottleInv'
<1> DEFINE w == login[k].window
           c == login[k].count
<1>1. /\ w \in Windows /\ c \in Nat /\ c <= failed[w]
      /\ counted[w] \in Nat /\ failed[w] \in Nat /\ counted[w] <= failed[w]
  BY DEF FailLogin, ThrottleInv, ThrottleTypes, SnapshotsAreHonest, CountIsHonest, Login
<1>2. /\ failed' = [failed EXCEPT ![w] = failed[w] + 1]
      /\ counted' = [counted EXCEPT ![w] = CountAfter(login[k])]
      /\ login' = [login EXCEPT ![k] = NoLogin]
      /\ UNCHANGED <<window, contended>> /\ login[k] # NoLogin
  BY DEF FailLogin
<1>3. CountAfter(login[k]) = IF c = 0 /\ counted[w] > 0 THEN counted[w] ELSE c + 1
  BY DEF CountAfter
<1>4. CountAfter(login[k]) \in Nat /\ CountAfter(login[k]) <= failed[w] + 1
  <2> HIDE DEF w, c
  <2>1. QED BY <1>1, <1>3
<1>5. w \notin contended => CountAfter(login[k]) = failed[w] + 1
  <2> SUFFICES ASSUME w \notin contended PROVE CountAfter(login[k]) = failed[w] + 1
    OBVIOUS
  <2>1. c = counted[w] /\ counted[w] = failed[w]
    BY <1>1, <1>2 DEF ThrottleInv, LoneSnapshots, LoneFailuresCount
  <2> HIDE DEF w, c
  <2>2. QED BY <2>1, <1>1, <1>3
<1>6. LoneSnapshots'
  <2>1. \A v \in Windows : v # w => counted'[v] = counted[v]
    BY <1>2 DEF ThrottleInv, ThrottleTypes
  <2>2. QED BY <2>1, <1>2, EndKeepsLone
<1> HIDE DEF w, c
<1>7. /\ counted'[w] = CountAfter(login[k]) /\ failed'[w] = failed[w] + 1
      /\ \A v \in Windows \ {w} : counted'[v] = counted[v] /\ failed'[v] = failed[v]
  BY <1>1, <1>2 DEF ThrottleInv, ThrottleTypes
<1>8. ThrottleTypes'
  BY <1>1, <1>2, <1>4 DEF ThrottleInv, ThrottleTypes
<1>9. CountIsHonest'
  BY <1>4, <1>7 DEF ThrottleInv, CountIsHonest
<1>10. LoneFailuresCount'
  BY <1>2, <1>5, <1>7 DEF ThrottleInv, LoneFailuresCount
<1>11. SnapshotsAreHonest'
  <2> SUFFICES ASSUME NEW j \in Workers, login'[j] # NoLogin
               PROVE  login'[j].count <= failed'[login'[j].window]
    BY DEF SnapshotsAreHonest
  <2>1. login'[j] = login[j] /\ login[j] \in Login /\ login[j] # NoLogin
    BY <1>2 DEF ThrottleInv, ThrottleTypes
  <2>2. login[j].count <= failed[login[j].window]
    BY <2>1 DEF ThrottleInv, SnapshotsAreHonest
  <2>3. login[j].window \in Windows /\ login[j].count \in Nat
    BY <2>1 DEF Login
  <2>4. QED BY <2>1, <2>2, <2>3, <1>1, <1>7 DEF ThrottleInv, ThrottleTypes
<1>12. QED BY <1>6, <1>8, <1>9, <1>10, <1>11 DEF ThrottleInv

LEMMA EndLoginKeeps ==
  ASSUME ThrottleInv, NEW k \in Workers, EndLogin(k)
  PROVE  ThrottleInv'
<1>1. LoneSnapshots'
  BY EndKeepsLone DEF EndLogin
<1>2. QED
  BY <1>1 DEF EndLogin, ThrottleInv, ThrottleTypes, SnapshotsAreHonest, CountIsHonest,
              LoneFailuresCount

LEMMA ThrottleStep == ThrottleInv /\ [ThrottleNext]_throttleVars => ThrottleInv'
<1> SUFFICES ASSUME ThrottleInv, [ThrottleNext]_throttleVars PROVE ThrottleInv'
  OBVIOUS
<1> USE DEF ThrottleInv, ThrottleTypes, SnapshotsAreHonest, CountIsHonest,
            LoneSnapshots, LoneFailuresCount
<1>1. CASE NextWindow
  BY <1>1 DEF NextWindow
<1>2. CASE UNCHANGED throttleVars
  BY <1>2 DEF throttleVars
<1>3. QED
  BY <1>1, <1>2, BeginLoginKeeps, FailLoginKeeps, EndLoginKeeps DEF ThrottleNext

(* What logins at work will count from (record_failure).                   *)
THEOREM ThrottleInvariant == ThrottleSpec => []ThrottleInv
BY ThrottleInitial, ThrottleStep, PTL DEF ThrottleSpec

(* However the logins of a key overlap, its count never runs ahead of its  *)
(* failures: the lock of check never comes early (login_throttle.py).      *)
THEOREM CountIsAlwaysHonest == ThrottleSpec => []CountIsHonest
<1>1. ThrottleInv => CountIsHonest
  BY DEF ThrottleInv
<1>2. QED BY <1>1, ThrottleInvariant, PTL

(* In a window whose logins did not overlap every failure is counted by    *)
(* record_failure: the lock comes exactly at the limit.                    *)
THEOREM LoneFailuresAlwaysCount == ThrottleSpec => []LoneFailuresCount
<1>1. ThrottleInv => LoneFailuresCount
  BY DEF ThrottleInv
<1>2. QED BY <1>1, ThrottleInvariant, PTL

-----------------------------------------------------------------------------
(* Calls that cost credits (PaidCalls).                                   *)

(* Calls of the provider whose transaction is open.                        *)
Unrecorded(C) == {u \in Callers : C[u] # NoCall /\ C[u].answer # "NONE" /\ ~C[u].cached}

Bought(U) == {r \in U : ~r.cached}

(* s, the date of the address, is not older than what was bought, in U,    *)
(* with a date of its own.                                                 *)
Dated(U, s) ==
  \A r \in U : ~r.cached /\ r.answer = "SUCCESS" /\ r.fresh =>
    /\ operation = "EMAIL_FIND" => s >= r.completed
    /\ operation = "EMAIL_VERIFY" =>
         s >= r.completed \/ \E o \in U : o.completed < r.completed /\ o.landed > r.landed

PaidTypes ==
  /\ operation \in PaidOperations /\ clock \in Nat /\ stamped \in Int
  /\ usage \in SUBSET Usage /\ IsFiniteSet(usage)
  /\ calling \in [Callers -> Call \cup {NoCall}]
  /\ attempts \in Nat /\ lost \in Nat

(* Usage rows are numbered as they land.                                   *)
Numbered == \A r \in usage : r.landed < Cardinality(usage)

(* An open call saw dates that agreed; it is stamped with its own instant. *)
CallsAreDated ==
  \A u \in Callers : calling[u] # NoCall =>
    /\ Dated(calling[u].usage, calling[u].stamped)
    /\ operation # "ENRICH" /\ calling[u].answer # "NONE"
         => calling[u].completed = calling[u].now
    /\ calling[u].answer = "NONE" => ~calling[u].cached
    /\ operation = "EMAIL_VERIFY" => calling[u].answer # "NO_RESULTS"

PaidInv ==
  /\ PaidTypes /\ Numbered /\ CallsAreDated /\ Dated(usage, stamped)
  /\ AttemptsAreRecorded /\ KeptAnswersAreReused

LEMMA AttemptsAre ==
  AttemptsAreRecorded <=>
    attempts = lost + Cardinality(Bought(usage)) + Cardinality(Unrecorded(calling))
BY DEF AttemptsAreRecorded, Bought, Unrecorded

LEMMA PaidInitial == PaidInit => PaidInv
<1> SUFFICES ASSUME PaidInit PROVE PaidInv
  OBVIOUS
<1>1. PaidTypes
  BY PaidAssumption, FS_EmptySet DEF PaidInit, PaidTypes
<1>2. Bought(usage) = {} /\ Unrecorded(calling) = {}
  BY DEF PaidInit, Bought, Unrecorded
<1>3. AttemptsAreRecorded
  BY <1>2, AttemptsAre, FS_EmptySet DEF PaidInit
<1>4. QED
  BY <1>1, <1>3 DEF PaidInit, PaidInv, Numbered, CallsAreDated, Dated, KeptAnswersAreReused

-----------------------------------------------------------------------------
(* The transaction of u becomes t, or it is gone, and no row is added.     *)
LEMMA OpenCallKeeps ==
  ASSUME PaidInv, NEW u \in Callers, NEW t \in Call \cup {NoCall},
         calling' = [calling EXCEPT ![u] = t],
         UNCHANGED <<operation, usage, stamped>>, clock' \in Nat,
         t # NoCall =>
           /\ Dated(t.usage, t.stamped)
           /\ operation # "ENRICH" /\ t.answer # "NONE" => t.completed = t.now
           /\ t.answer = "NONE" => ~t.cached
           /\ operation = "EMAIL_VERIFY" => t.answer # "NO_RESULTS",
         attempts' \in Nat, lost' \in Nat,
         AttemptsAreRecorded', KeptAnswersAreReused'
  PROVE  PaidInv'
<1>1. PaidTypes'
  BY DEF PaidInv, PaidTypes
<1>2. \A v \in Callers : calling'[v] = IF v = u THEN t ELSE calling[v]
  BY DEF PaidInv, PaidTypes
<1>3. CallsAreDated'
  BY <1>2 DEF PaidInv, CallsAreDated, Dated
<1>4. Numbered' /\ Dated(usage, stamped)'
  BY DEF PaidInv, Numbered, Dated
<1>5. QED BY <1>1, <1>3, <1>4 DEF PaidInv

(* How many calls are open and not recorded, after the one of u changed.   *)
LEMMA UnrecordedChanges ==
  ASSUME PaidInv, NEW u \in Callers, NEW t, calling' = [calling EXCEPT ![u] = t]
  PROVE  /\ IsFiniteSet(Unrecorded(calling)) /\ Cardinality(Unrecorded(calling)) \in Nat
         /\ Unrecorded(calling') =
              IF t # NoCall /\ t.answer # "NONE" /\ ~t.cached
              THEN Unrecorded(calling) \cup {u} ELSE Unrecorded(calling) \ {u}
         /\ Cardinality(Unrecorded(calling')) =
              IF t # NoCall /\ t.answer # "NONE" /\ ~t.cached
              THEN IF u \in Unrecorded(calling) THEN Cardinality(Unrecorded(calling))
                   ELSE Cardinality(Unrecorded(calling)) + 1
              ELSE IF u \in Unrecorded(calling) THEN Cardinality(Unrecorded(calling)) - 1
                   ELSE Cardinality(Unrecorded(calling))
<1> DEFINE A == Unrecorded(calling)
<1>1. A \in SUBSET Callers
  BY DEF Unrecorded
<1>2. IsFiniteSet(A) /\ Cardinality(A) \in Nat
  BY <1>1, PaidAssumption, FS_Subset, FS_CardinalityType
<1>3. Unrecorded(calling') = IF t # NoCall /\ t.answer # "NONE" /\ ~t.cached
                             THEN A \cup {u} ELSE A \ {u}
  <2>1. \A v \in Callers : calling'[v] = IF v = u THEN t ELSE calling[v]
    BY DEF PaidInv, PaidTypes
  <2>2. QED BY <2>1 DEF Unrecorded
<1> HIDE DEF A
<1>4. /\ Cardinality(A \cup {u}) = IF u \in A THEN Cardinality(A) ELSE Cardinality(A) + 1
      /\ Cardinality(A \ {u}) = IF u \in A THEN Cardinality(A) - 1 ELSE Cardinality(A)
  BY <1>2, FS_AddElement, FS_RemoveElement
<1>5. Cardinality(Unrecorded(calling')) =
        IF t # NoCall /\ t.answer # "NONE" /\ ~t.cached
        THEN IF u \in A THEN Cardinality(A) ELSE Cardinality(A) + 1
        ELSE IF u \in A THEN Cardinality(A) - 1 ELSE Cardinality(A)
  BY <1>3, <1>4
<1>6. QED BY <1>2, <1>3, <1>5 DEF A

LEMMA BeginCallKeeps ==
  ASSUME PaidInv, NEW u \in Callers, NEW force \in BOOLEAN, BeginCall(u, force)
  PROVE  PaidInv'
<1> DEFINE t == [force |-> force, now |-> clock, usage |-> usage, stamped |-> stamped,
                 answer |-> "NONE", completed |-> clock, cached |-> FALSE]
<1>1. t \in Call
  BY DEF PaidInv, PaidTypes, Call
<1>2. /\ t.usage = usage /\ t.stamped = stamped /\ t.answer = "NONE" /\ ~t.cached
      /\ t # NoCall
  BY <1>1, PaidAssumption
<1>3. /\ calling' = [calling EXCEPT ![u] = t] /\ calling[u] = NoCall
      /\ UNCHANGED <<operation, clock, usage, stamped, attempts, lost, repeated>>
  BY DEF BeginCall
<1> HIDE DEF t
<1>4. u \notin Unrecorded(calling) /\ Unrecorded(calling') = Unrecorded(calling)
  BY <1>2, <1>3, UnrecordedChanges DEF Unrecorded
<1>5. AttemptsAreRecorded'
  BY <1>3, <1>4 DEF PaidInv, AttemptsAreRecorded, Unrecorded
<1>6. Dated(t.usage, t.stamped)
  BY <1>2 DEF PaidInv
<1>7. QED
  BY <1>1, <1>2, <1>3, <1>5, <1>6, OpenCallKeeps DEF PaidInv, PaidTypes, KeptAnswersAreReused

(* An answer: reused, or bought, when attempts count it.                   *)
LEMMA AnsweredIs ==
  ASSUME PaidInv, NEW u \in Callers, Asking(u), NEW answer \in Answers,
         NEW cached \in BOOLEAN, Answered(u, answer, cached)
  PROVE  \E t \in Call :
           /\ calling' = [calling EXCEPT ![u] = t]
           /\ t.usage = calling[u].usage /\ t.stamped = calling[u].stamped
           /\ t.answer = answer /\ t.cached = cached /\ t # NoCall
           /\ operation # "ENRICH" => t.completed = t.now
<1> DEFINE c == calling[u]
           t == [c EXCEPT !.answer = answer, !.cached = cached, !.completed = Completed(c)]
<1>1. c \in Call /\ clock \in Nat
  BY DEF PaidInv, PaidTypes, Asking
<1>2. Completed(c) \in Nat /\ (operation # "ENRICH" => Completed(c) = c.now)
  BY <1>1 DEF Completed, Call
<1>3. /\ t \in Call /\ t.usage = c.usage /\ t.stamped = c.stamped /\ t.answer = answer
      /\ t.cached = cached /\ t.completed = Completed(c) /\ t.now = c.now
  BY <1>1, <1>2 DEF Call
<1>4. calling' = [calling EXCEPT ![u] = t]
  BY DEF Answered
<1> HIDE DEF t
<1>5. QED BY <1>2, <1>3, <1>4, PaidAssumption

LEMMA ReuseKeeps ==
  ASSUME PaidInv, NEW u \in Callers, Reuse(u)
  PROVE  PaidInv'
<1>1. /\ Asking(u) /\ Answered(u, "SUCCESS", TRUE)
      /\ UNCHANGED <<operation, clock, usage, stamped, attempts, lost, repeated>>
  BY DEF Reuse
<1>2. PICK t \in Call :
        /\ calling' = [calling EXCEPT ![u] = t]
        /\ t.usage = calling[u].usage /\ t.stamped = calling[u].stamped
        /\ t.answer = "SUCCESS" /\ t.cached /\ t # NoCall
        /\ operation # "ENRICH" => t.completed = t.now
  BY <1>1, AnsweredIs DEF Answers
<1>3. u \notin Unrecorded(calling) /\ Unrecorded(calling') = Unrecorded(calling)
  BY <1>1, <1>2, UnrecordedChanges DEF Unrecorded, Asking
<1>4. AttemptsAreRecorded'
  BY <1>1, <1>3 DEF PaidInv, AttemptsAreRecorded, Unrecorded
<1>5. Dated(t.usage, t.stamped)
  BY <1>1, <1>2 DEF PaidInv, CallsAreDated, Asking
<1>6. QED
  BY <1>1, <1>2, <1>4, <1>5, OpenCallKeeps DEF PaidInv, PaidTypes, KeptAnswersAreReused

(* A call that does not remember has no row that its operation keeps.      *)
LEMMA KeptIsRemembered ==
  ASSUME PaidInv, NEW u \in Callers, calling[u] # NoCall,
         NEW r \in calling[u].usage, Kept(r, calling[u])
  PROVE  Remembered(calling[u])
<1> DEFINE t == calling[u]
<1>1. t \in Call /\ r \in Usage /\ Dated(t.usage, t.stamped) /\ operation \in PaidOperations
  BY DEF PaidInv, PaidTypes, CallsAreDated, Call
<1>2. CASE operation \in {"CONTACT_SEARCH", "ENRICH"}
  BY <1>2 DEF Kept, Remembered
<1>3. CASE operation \in {"EMAIL_FIND", "EMAIL_VERIFY"}
  <2>1. r.answer = "SUCCESS" /\ r.fresh /\ ~r.cached /\ r.completed >= t.now - Window
    BY <1>3 DEF Kept
  <2>2. t.stamped >= r.completed
    BY <1>1, <1>3, <2>1 DEF Dated, Kept
  <2>3. /\ r.completed \in Nat /\ t.stamped \in Int /\ t.now \in Nat /\ Window \in Nat
    BY <1>1, PaidAssumption DEF Usage, Call
  <2>4. t.stamped >= 0 /\ t.stamped >= t.now - Window
    <3> HIDE DEF t
    <3>1. QED BY <2>1, <2>2, <2>3
  <2>5. QED BY <1>3, <2>4 DEF Remembered
<1>4. QED BY <1>1, <1>2, <1>3 DEF PaidOperations

LEMMA CallProviderKeeps ==
  ASSUME PaidInv, NEW u \in Callers, NEW answer \in Answers, CallProvider(u, answer)
  PROVE  PaidInv'
<1>1. /\ Asking(u) /\ Answered(u, answer, FALSE) /\ attempts' = attempts + 1
      /\ UNCHANGED <<operation, clock, usage, stamped, lost>>
      /\ operation = "EMAIL_VERIFY" => answer # "NO_RESULTS"
  BY DEF CallProvider
<1>2. PICK t \in Call :
        /\ calling' = [calling EXCEPT ![u] = t]
        /\ t.usage = calling[u].usage /\ t.stamped = calling[u].stamped
        /\ t.answer = answer /\ t.cached = FALSE /\ t # NoCall
        /\ operation # "ENRICH" => t.completed = t.now
  BY <1>1, AnsweredIs
<1>3. t.answer # "NONE" /\ ~t.cached
  BY <1>2 DEF Answers
<1>4. u \notin Unrecorded(calling)
  BY <1>1 DEF Unrecorded, Asking
<1>5. /\ Cardinality(Unrecorded(calling')) = Cardinality(Unrecorded(calling)) + 1
      /\ Cardinality(Unrecorded(calling)) \in Nat
  BY <1>2, <1>3, <1>4, UnrecordedChanges
<1>6. Bought(usage') = Bought(usage) /\ Cardinality(Bought(usage)) \in Nat
  <2>1. Bought(usage) \in SUBSET usage
    BY DEF Bought
  <2>2. QED BY <1>1, <2>1, FS_Subset, FS_CardinalityType DEF PaidInv, PaidTypes
<1>7. attempts = lost + Cardinality(Bought(usage)) + Cardinality(Unrecorded(calling))
  BY AttemptsAre DEF PaidInv
<1>8. attempts' = lost' + Cardinality(Bought(usage')) + Cardinality(Unrecorded(calling'))
  BY <1>1, <1>5, <1>6, <1>7 DEF PaidInv, PaidTypes
<1>9. AttemptsAreRecorded'
  BY <1>8 DEF AttemptsAreRecorded, Bought, Unrecorded
<1>10. KeptAnswersAreReused'
  BY <1>1, KeptIsRemembered DEF CallProvider, PaidInv, KeptAnswersAreReused, Asking
<1>11. Dated(t.usage, t.stamped)
  BY <1>1, <1>2 DEF PaidInv, CallsAreDated, Asking
<1>12. /\ UNCHANGED <<operation, usage, stamped>> /\ clock' \in Nat
       /\ attempts' \in Nat /\ lost' \in Nat
  BY <1>1 DEF PaidInv, PaidTypes
<1>13. /\ operation # "ENRICH" /\ t.answer # "NONE" => t.completed = t.now
       /\ t.answer = "NONE" => ~t.cached
       /\ operation = "EMAIL_VERIFY" => t.answer # "NO_RESULTS"
  BY <1>1, <1>2, <1>3
<1>14. calling' = [calling EXCEPT ![u] = t] /\ t \in Call \cup {NoCall}
  BY <1>2
<1>15. QED
  BY <1>9, <1>10, <1>11, <1>12, <1>13, <1>14, OpenCallKeeps

LEMMA LoseCallKeeps ==
  ASSUME PaidInv, NEW u \in Callers, LoseCall(u)
  PROVE  PaidInv'
<1>1. /\ calling' = [calling EXCEPT ![u] = NoCall] /\ calling[u] # NoCall
      /\ UNCHANGED <<operation, clock, usage, stamped, attempts, repeated>>
      /\ lost' = IF u \in Unrecorded(calling) THEN lost + 1 ELSE lost
  BY DEF LoseCall, Unrecorded
<1>2. /\ Cardinality(Unrecorded(calling')) =
           IF u \in Unrecorded(calling) THEN Cardinality(Unrecorded(calling)) - 1
           ELSE Cardinality(Unrecorded(calling))
      /\ Cardinality(Unrecorded(calling)) \in Nat
  BY <1>1, UnrecordedChanges
<1>3. Bought(usage') = Bought(usage) /\ Cardinality(Bought(usage)) \in Nat
  <2>1. Bought(usage) \in SUBSET usage
    BY DEF Bought
  <2>2. QED BY <1>1, <2>1, FS_Subset, FS_CardinalityType DEF PaidInv, PaidTypes
<1>4. attempts = lost + Cardinality(Bought(usage)) + Cardinality(Unrecorded(calling))
  BY AttemptsAre DEF PaidInv
<1>5. lost \in Nat /\ lost' \in Nat
  BY <1>1 DEF PaidInv, PaidTypes
<1>6. attempts' = lost' + Cardinality(Bought(usage')) + Cardinality(Unrecorded(calling'))
  BY <1>1, <1>2, <1>3, <1>4, <1>5
<1>7. AttemptsAreRecorded'
  BY <1>6 DEF AttemptsAreRecorded, Bought, Unrecorded
<1>8. /\ UNCHANGED <<operation, usage, stamped>> /\ clock' \in Nat /\ attempts' \in Nat
      /\ KeptAnswersAreReused' /\ NoCall \in Call \cup {NoCall}
  BY <1>1 DEF PaidInv, PaidTypes, KeptAnswersAreReused
<1>9. QED
  BY <1>1, <1>5, <1>7, <1>8, OpenCallKeeps

-----------------------------------------------------------------------------
LEMMA CommitCallKeeps ==
  ASSUME PaidInv, NEW u \in Callers, CommitCall(u)
  PROVE  PaidInv'
<1> DEFINE t == calling[u]
           New(date) == [answer |-> t.answer, cached |-> t.cached,
                         fresh |-> date = t.now /\ date # t.stamped,
                         completed |-> t.completed, landed |-> Cardinality(usage)]
<1>1. PICK date \in Stamps(t) :
        /\ usage' = usage \cup {New(date)}
        /\ stamped' = IF date = t.stamped \/ (operation = "EMAIL_FIND" /\ date < stamped)
                      THEN stamped ELSE date
  BY DEF CommitCall
<1>2. /\ t \in Call /\ t.answer \in Answers /\ t # NoCall
      /\ calling' = [calling EXCEPT ![u] = NoCall]
      /\ UNCHANGED <<operation, clock, attempts, lost, repeated>>
  BY DEF CommitCall, PaidInv, PaidTypes, Call
<1> DEFINE n == New(date)
<1>3. IsFiniteSet(usage) /\ Cardinality(usage) \in Nat
  BY FS_CardinalityType DEF PaidInv, PaidTypes
<1>4. /\ n \in Usage /\ n.landed = Cardinality(usage) /\ n.cached = t.cached
      /\ n.answer = t.answer /\ n.completed = t.completed
      /\ n.fresh <=> date = t.now /\ date # t.stamped
  BY <1>2, <1>3 DEF Usage, Call
<1>5. n \notin usage
  BY <1>3, <1>4 DEF PaidInv, Numbered
<1>6. usage' = usage \cup {n}
  BY <1>1
<1>7. date \in Int /\ stamped \in Int /\ stamped' \in Int
  <2>1. Stamps(t) \subseteq Int
    BY <1>2 DEF Stamps, Call
  <2>2. QED BY <1>1, <2>1 DEF PaidInv, PaidTypes
<1> HIDE DEF n, New
<1>8. /\ IsFiniteSet(usage') /\ Cardinality(usage') = Cardinality(usage) + 1
      /\ usage' \in SUBSET Usage
  BY <1>3, <1>4, <1>5, <1>6, FS_AddElement DEF PaidInv, PaidTypes
<1>9. Numbered'
  <2>1. \A r \in usage : r.landed \in Nat /\ r.landed < Cardinality(usage)
    BY DEF PaidInv, PaidTypes, Numbered, Usage
  <2>2. QED BY <1>3, <1>4, <1>6, <1>8, <2>1 DEF Numbered
<1>10. PaidTypes'
  BY <1>2, <1>7, <1>8 DEF PaidInv, PaidTypes
<1>11. CallsAreDated'
  <2>1. \A v \in Callers : calling'[v] = IF v = u THEN NoCall ELSE calling[v]
    BY <1>2 DEF PaidInv, PaidTypes
  <2>2. QED BY <1>2, <2>1 DEF PaidInv, CallsAreDated, Dated
<1>12. AttemptsAreRecorded'
  <2>1. Bought(usage') = IF t.cached THEN Bought(usage) ELSE Bought(usage) \cup {n}
    BY <1>4, <1>6 DEF Bought
  <2>2. Bought(usage) \in SUBSET usage
    BY DEF Bought
  <2>3. IsFiniteSet(Bought(usage)) /\ Cardinality(Bought(usage)) \in Nat
    BY <1>3, <2>2, FS_Subset, FS_CardinalityType
  <2>4. Cardinality(Bought(usage')) =
          IF t.cached THEN Cardinality(Bought(usage)) ELSE Cardinality(Bought(usage)) + 1
    <3>1. n \notin Bought(usage)
      BY <1>5, <2>2
    <3>2. QED BY <2>1, <2>3, <3>1, FS_AddElement
  <2>5. u \in Unrecorded(calling) <=> ~t.cached
    BY <1>2 DEF Unrecorded, CommitCall
  <2>6. /\ Cardinality(Unrecorded(calling')) =
             IF t.cached THEN Cardinality(Unrecorded(calling))
             ELSE Cardinality(Unrecorded(calling)) - 1
        /\ Cardinality(Unrecorded(calling)) \in Nat
    BY <1>2, <2>5, UnrecordedChanges
  <2>7. attempts = lost + Cardinality(Bought(usage)) + Cardinality(Unrecorded(calling))
    BY AttemptsAre DEF PaidInv
  <2>8. lost \in Nat
    BY DEF PaidInv, PaidTypes
  <2>9. attempts' = lost' + Cardinality(Bought(usage')) + Cardinality(Unrecorded(calling'))
    BY <1>2, <2>3, <2>4, <2>6, <2>7, <2>8
  <2>10. QED BY <2>9 DEF AttemptsAreRecorded, Bought, Unrecorded
<1>13. Dated(usage, stamped)'
  <2> SUFFICES ASSUME NEW r \in usage', ~r.cached, r.answer = "SUCCESS", r.fresh
               PROVE  /\ operation = "EMAIL_FIND" => stamped' >= r.completed
                      /\ operation = "EMAIL_VERIFY" =>
                           \/ stamped' >= r.completed
                           \/ \E o \in usage' :
                                o.completed < r.completed /\ o.landed > r.landed
    BY <1>2 DEF Dated
  <2>1. r.completed \in Nat /\ n.completed \in Nat
    BY <1>4, <1>8 DEF Usage
  <2>2. CASE r = n
    <3>1. date = t.now /\ date # t.stamped /\ t.completed = r.completed /\ t.answer # "NONE"
      BY <1>4, <2>2
    <3>2. CASE operation = "EMAIL_FIND"
      <4>1. date = r.completed
        BY <1>2, <3>1, <3>2 DEF PaidInv, CallsAreDated
      <4>2. QED BY <1>1, <1>7, <3>1, <3>2, <4>1
    <3>3. CASE operation = "EMAIL_VERIFY"
      <4>1. date = r.completed
        BY <1>2, <3>1, <3>3 DEF PaidInv, CallsAreDated
      <4>2. QED BY <1>1, <1>7, <3>1, <3>3, <4>1
    <3>4. QED BY <3>2, <3>3
  <2>3. CASE r # n
    <3>1. /\ r \in usage
          /\ operation = "EMAIL_FIND" => stamped >= r.completed
          /\ operation = "EMAIL_VERIFY" =>
               \/ stamped >= r.completed
               \/ \E o \in usage : o.completed < r.completed /\ o.landed > r.landed
      BY <1>6, <2>3 DEF PaidInv, Dated
    <3>2. CASE operation = "EMAIL_FIND"
      <4>1. stamped' >= stamped
        BY <1>1, <1>7, <3>2
      <4>2. QED BY <1>7, <2>1, <3>1, <3>2, <4>1
    <3>3. CASE operation = "EMAIL_VERIFY" /\ stamped' = stamped
      BY <1>6, <3>1, <3>3
    <3>4. CASE operation = "EMAIL_VERIFY" /\ stamped' # stamped
      <4>1. stamped' = date /\ date # t.stamped
        BY <1>1, <3>4
      <4>2. date = t.now /\ t.answer = "SUCCESS"
        BY <1>1, <3>4, <4>1 DEF Stamps
      <4>3. date = n.completed
        BY <1>2, <1>4, <3>4, <4>2 DEF PaidInv, CallsAreDated
      <4>4. CASE n.completed >= r.completed
        BY <3>4, <4>1, <4>3, <4>4
      <4>5. CASE n.completed < r.completed
        <5>1. n.landed > r.landed
          BY <1>3, <1>4, <3>1 DEF PaidInv, PaidTypes, Numbered, Usage
        <5>2. QED BY <1>6, <3>4, <4>5, <5>1
      <4>6. QED BY <2>1, <4>4, <4>5
    <3>5. QED BY <3>2, <3>3, <3>4
  <2>4. QED BY <2>2, <2>3
<1>14. QED
  BY <1>2, <1>9, <1>10, <1>11, <1>12, <1>13 DEF PaidInv, KeptAnswersAreReused

-----------------------------------------------------------------------------
LEMMA PaidStep == PaidInv /\ [PaidNext]_paidVars => PaidInv'
<1> SUFFICES ASSUME PaidInv, [PaidNext]_paidVars PROVE PaidInv'
  OBVIOUS
<1>1. CASE Tick
  BY <1>1 DEF Tick, PaidInv, PaidTypes, Numbered, CallsAreDated, Dated,
              AttemptsAreRecorded, KeptAnswersAreReused
<1>2. CASE UNCHANGED paidVars
  BY <1>2 DEF paidVars, PaidInv, PaidTypes, Numbered, CallsAreDated, Dated,
              AttemptsAreRecorded, KeptAnswersAreReused
<1>3. QED
  BY <1>1, <1>2, BeginCallKeeps, ReuseKeeps, CallProviderKeeps, CommitCallKeeps,
     LoseCallKeeps DEF PaidNext

(* What an open call has seen, and where its row will land.                *)
THEOREM PaidInvariant == PaidSpec => []PaidInv
BY PaidInitial, PaidStep, PTL DEF PaidSpec

-----------------------------------------------------------------------------
(* The personas of a product (Personas).                                  *)

PersonaTypes ==
  /\ personas \in PersonaTable
  /\ replacement \in [Editors -> Replacement \cup {NoReplacement}]

(* A request: distinct names, and every row written as its list wants it:  *)
(* deleted, parked under its own name, or named.                           *)
Orderly(r) ==
  /\ \A i, j \in DOMAIN r.asked : r.asked[i] = r.asked[j] => i = j
  /\ \A i \in PersonaIds :
       \/ r.own[i] = Unwritten
       \/ i \in Stored(r.base) \ DOMAIN r.asked /\ r.own[i] = NoPersona
       \/ i \in Stored(r.base) \cap DOMAIN r.asked /\ r.own[i] = i
       \/ i \in DOMAIN r.asked /\ r.own[i] = r.asked[i]

NewRows(r) == DOMAIN r.asked \ Stored(r.base)

(* The new rows of a request are nobody else's.                            *)
NewAreOwn ==
  \A u \in Replacing :
    /\ NewRows(replacement[u]) \cap Stored(personas) = {}
    /\ \A v \in Replacing : v # u =>
         NewRows(replacement[u]) \cap DOMAIN replacement[v].asked = {}

PersonaInv ==
  /\ PersonaTypes /\ NewAreOwn
  /\ \A u \in Replacing : Orderly(replacement[u])
  /\ RenamesNeverCollide /\ ListIsWhatWasAsked

LEMMA ReplacementIs ==
  ASSUME PersonaTypes, NEW u \in Replacing
  PROVE  /\ u \in Editors /\ replacement[u] \in Replacement
         /\ DOMAIN replacement[u].asked \subseteq PersonaIds
         /\ \A i \in DOMAIN replacement[u].asked : replacement[u].asked[i] \in PersonaNames
         /\ replacement[u].base \in PersonaTable
         /\ replacement[u].own
              \in [PersonaIds -> PersonaNames \cup PersonaIds \cup {NoPersona, Unwritten}]
<1>1. u \in Editors /\ replacement[u] \in Replacement
  BY DEF PersonaTypes, Replacing
<1>2. PICK S \in SUBSET PersonaIds : replacement[u].asked \in [S -> PersonaNames]
  BY <1>1 DEF Replacement
<1>3. QED BY <1>1, <1>2 DEF Replacement

LEMMA PersonaInitial == PersonaInit => PersonaInv
<1> SUFFICES ASSUME PersonaInit PROVE PersonaInv
  OBVIOUS
<1>1. Replacing = {}
  BY DEF PersonaInit, Replacing
<1>2. PersonaTypes /\ RenamesNeverCollide
  BY DEF PersonaInit, PersonaTypes, RenamesNeverCollide
<1>3. ListIsWhatWasAsked
  <2>1. landed.late = {} /\ landed.names = NamesIn(personas, Stored(personas))
    BY DEF PersonaInit
  <2>2. Stored(personas) \ {} = Stored(personas)
    OBVIOUS
  <2>3. QED BY <2>1, <2>2 DEF ListIsWhatWasAsked
<1>4. QED BY <1>1, <1>2, <1>3 DEF PersonaInv, NewAreOwn

(* The rows a request is matched with: rows it has read, or new ones, one  *)
(* for each of its distinct names.                                         *)
LEMMA AskedIs ==
  ASSUME NEW items \in PersonaLists, NEW rows \in Matchings(items)
  PROVE  /\ AskedOf(items, rows) \in UNION {[S -> PersonaNames] : S \in SUBSET PersonaIds}
         /\ DOMAIN AskedOf(items, rows) \subseteq Stored(personas) \cup FreshRows
         /\ \A i, j \in DOMAIN AskedOf(items, rows) :
              AskedOf(items, rows)[i] = AskedOf(items, rows)[j] => i = j
<1> DEFINE S == {rows[n] : n \in DOMAIN rows}
           asked == AskedOf(items, rows)
<1>1. /\ DOMAIN rows = DOMAIN items
      /\ \A n \in DOMAIN items : items[n].name \in PersonaNames /\ rows[n] \in PersonaIds
      /\ \A m, n \in DOMAIN items : items[m].name = items[n].name => m = n
  BY DEF PersonaLists, PersonaItem, Matchings
<1>2. \A n \in DOMAIN items : rows[n] \in FreshRows \/ rows[n] \in MatchedRow(items, n)
  BY DEF Matchings
<1>3. \A n \in DOMAIN items : MatchedRow(items, n) \subseteq Stored(personas)
  BY DEF MatchedRow, CandidateRow
<1>4. \A i \in S : \E n \in DOMAIN items : rows[n] = i /\ asked[i] = items[n].name
  <2> SUFFICES ASSUME NEW i \in S
               PROVE  \E n \in DOMAIN items : rows[n] = i /\ asked[i] = items[n].name
    OBVIOUS
  <2> DEFINE k == CHOOSE n \in DOMAIN rows : rows[n] = i
  <2>1. k \in DOMAIN rows /\ rows[k] = i
    OBVIOUS
  <2>2. asked[i] = items[k].name
    BY DEF AskedOf
  <2>3. QED BY <1>1, <2>1, <2>2
<1>5. DOMAIN asked = S /\ S \subseteq PersonaIds /\ asked \in [S -> PersonaNames]
  <2>1. S \subseteq PersonaIds
    BY <1>1
  <2>2. \A i \in S : asked[i] \in PersonaNames
    BY <1>1, <1>4
  <2>3. QED BY <2>1, <2>2 DEF AskedOf
<1>6. \A i, j \in S : asked[i] = asked[j] => i = j
  BY <1>1, <1>4
<1>7. S \subseteq Stored(personas) \cup FreshRows
  BY <1>1, <1>2, <1>3
<1> HIDE DEF S, asked
<1>8. asked \in UNION {[T -> PersonaNames] : T \in SUBSET PersonaIds}
  BY <1>5
<1>9. QED BY <1>5, <1>6, <1>7, <1>8 DEF asked

LEMMA BeginReplaceKeeps ==
  ASSUME PersonaInv, NEW u \in Editors, NEW items \in PersonaLists,
         NEW rows \in Matchings(items), BeginReplace(u, items, rows)
  PROVE  PersonaInv'
<1> DEFINE r == [base |-> personas, asked |-> AskedOf(items, rows),
                 own |-> [i \in PersonaIds |-> Unwritten]]
<1>1. /\ replacement' = [replacement EXCEPT ![u] = r] /\ u \notin Replacing
      /\ UNCHANGED <<personas, landed, refused>>
  BY DEF BeginReplace, MayBegin
<1>2. r \in Replacement /\ Orderly(r)
  <2>1. r \in Replacement
    BY AskedIs DEF PersonaInv, PersonaTypes, Replacement
  <2>2. \A i \in PersonaIds : r.own[i] = Unwritten
    OBVIOUS
  <2>3. \A i, j \in DOMAIN r.asked : r.asked[i] = r.asked[j] => i = j
    BY AskedIs
  <2>4. QED BY <2>1, <2>2, <2>3 DEF Orderly
<1>3. DOMAIN r.asked \subseteq Stored(personas) \cup FreshRows /\ r.base = personas
  BY AskedIs
<1> HIDE DEF r
<1>4. PersonaTypes'
  BY <1>1, <1>2 DEF PersonaInv, PersonaTypes
<1>5. /\ replacement'[u] = r
      /\ \A v \in Editors \ {u} : replacement'[v] = replacement[v]
      /\ Replacing' \subseteq Replacing \cup {u}
  BY <1>1 DEF PersonaInv, PersonaTypes, Replacing
<1>6. \A v \in Replacing' : Orderly(replacement'[v])
  BY <1>2, <1>5 DEF PersonaInv, Replacing
<1>7. NewRows(r) \subseteq FreshRows
  BY <1>3 DEF NewRows
<1>8. NewAreOwn'
  <2> SUFFICES ASSUME NEW v \in Replacing'
               PROVE  /\ NewRows(replacement'[v]) \cap Stored(personas) = {}
                      /\ \A w \in Replacing' : w # v =>
                           NewRows(replacement'[v]) \cap DOMAIN replacement'[w].asked = {}
    BY <1>1 DEF NewAreOwn
  <2>1. CASE v = u
    <3>1. FreshRows \cap Stored(personas) = {}
      BY DEF FreshRows
    <3>2. \A w \in Replacing : FreshRows \cap DOMAIN replacement[w].asked = {}
      BY DEF FreshRows
    <3>3. QED BY <1>5, <1>7, <2>1, <3>1, <3>2 DEF Replacing
  <2>2. CASE v # u
    <3>1. v \in Replacing /\ replacement'[v] = replacement[v]
      BY <1>5, <2>2 DEF Replacing
    <3>2. NewRows(replacement[v]) \cap Stored(personas) = {}
      BY <3>1 DEF PersonaInv, NewAreOwn
    <3>3. FreshRows \cap NewRows(replacement[v]) = {}
      BY <3>1 DEF FreshRows, NewRows
    <3>4. NewRows(replacement[v]) \cap DOMAIN r.asked = {}
      BY <1>3, <3>2, <3>3
    <3>5. \A w \in Replacing : w # v =>
            NewRows(replacement[v]) \cap DOMAIN replacement[w].asked = {}
      BY <3>1 DEF PersonaInv, NewAreOwn
    <3>6. QED BY <1>5, <3>1, <3>2, <3>4, <3>5 DEF Replacing
  <2>3. QED BY <2>1, <2>2
<1>9. QED
  BY <1>1, <1>4, <1>6, <1>8
  DEF PersonaInv, RenamesNeverCollide, ListIsWhatWasAsked, Stored, NamesIn

(* A request that ends leaves the table alone.                             *)
LEMMA RolledBackKeeps ==
  ASSUME PersonaInv, NEW u \in Replacing, RolledBack(u), refused' = FALSE
  PROVE  PersonaInv'
<1>1. /\ replacement' = [replacement EXCEPT ![u] = NoReplacement]
      /\ UNCHANGED <<personas, landed>>
  BY DEF RolledBack
<1>2. PersonaTypes'
  BY <1>1 DEF PersonaInv, PersonaTypes
<1>3. \A v \in Replacing' : v \in Replacing /\ replacement'[v] = replacement[v]
  BY <1>1 DEF PersonaInv, PersonaTypes, Replacing
<1>4. NewAreOwn'
  BY <1>1, <1>3 DEF PersonaInv, NewAreOwn
<1>5. QED
  BY <1>1, <1>2, <1>3, <1>4
  DEF PersonaInv, RenamesNeverCollide, ListIsWhatWasAsked, Stored, NamesIn

(* A statement writes one row of its own request.                          *)
LEMMA WroteKeeps ==
  ASSUME PersonaInv, NEW u \in Replacing, NEW i \in PersonaIds,
         NEW name \in PersonaNames \cup PersonaIds \cup {NoPersona}, Wrote(u, i, name),
         \/ i \in ToDelete(replacement[u]) /\ name = NoPersona
         \/ i \in ToPark(replacement[u]) /\ name = i
         \/ i \in ToName(replacement[u]) /\ name = replacement[u].asked[i]
  PROVE  PersonaInv'
<1> DEFINE r == replacement[u]
           x == [r EXCEPT !.own = [r.own EXCEPT ![i] = name]]
<1>1. /\ replacement' = [replacement EXCEPT ![u] = x]
      /\ UNCHANGED <<personas, landed, refused>>
  BY DEF Wrote
<1>2. u \in Editors /\ r \in Replacement
  BY ReplacementIs DEF PersonaInv
<1>3. /\ x \in Replacement /\ x.base = r.base /\ x.asked = r.asked
      /\ \A j \in PersonaIds : x.own[j] = IF j = i THEN name ELSE r.own[j]
  <2>1. r.own \in [PersonaIds -> PersonaNames \cup PersonaIds \cup {NoPersona, Unwritten}]
    BY <1>2 DEF Replacement
  <2>2. [r.own EXCEPT ![i] = name]
          \in [PersonaIds -> PersonaNames \cup PersonaIds \cup {NoPersona, Unwritten}]
    BY <2>1
  <2>3. x.own = [r.own EXCEPT ![i] = name]
    BY <1>2 DEF Replacement
  <2>4. x \in Replacement /\ x.base = r.base /\ x.asked = r.asked
    BY <1>2, <2>2 DEF Replacement
  <2>5. QED BY <2>1, <2>3, <2>4
<1>4. Orderly(r)
  BY DEF PersonaInv
<1>5. Orderly(x)
  BY <1>3, <1>4 DEF Orderly, ToDelete, ToPark, ToName
<1> HIDE DEF x
<1>6. PersonaTypes'
  BY <1>1, <1>2, <1>3 DEF PersonaInv, PersonaTypes
<1>7. /\ replacement'[u] = x
      /\ \A v \in Editors \ {u} : replacement'[v] = replacement[v]
      /\ \A v \in Replacing' : v \in Replacing
  BY <1>1, <1>2 DEF PersonaInv, PersonaTypes, Replacing
<1>8. \A v \in Replacing' :
        /\ Orderly(replacement'[v])
        /\ NewRows(replacement'[v]) = NewRows(replacement[v])
        /\ DOMAIN replacement'[v].asked = DOMAIN replacement[v].asked
  <2> SUFFICES ASSUME NEW v \in Replacing'
               PROVE  /\ Orderly(replacement'[v])
                      /\ NewRows(replacement'[v]) = NewRows(replacement[v])
                      /\ DOMAIN replacement'[v].asked = DOMAIN replacement[v].asked
    OBVIOUS
  <2>1. CASE v = u
    BY <1>3, <1>5, <1>7, <2>1 DEF NewRows
  <2>2. CASE v # u
    <3>1. v \in Replacing /\ replacement'[v] = replacement[v]
      BY <1>7, <2>2 DEF Replacing
    <3>2. QED BY <3>1 DEF PersonaInv
  <2>3. QED BY <2>1, <2>2
<1>9. NewAreOwn'
  BY <1>1, <1>7, <1>8 DEF PersonaInv, NewAreOwn
<1>10. QED
  BY <1>1, <1>6, <1>8, <1>9
  DEF PersonaInv, RenamesNeverCollide, ListIsWhatWasAsked, Stored, NamesIn

(* While the table is the one the request has read, the rows it reads are  *)
(* there and no name is taken: rows not parked are named already.          *)
LEMMA UnracedNameIsFree ==
  ASSUME PersonaInv, NEW u \in Replacing, NEW i \in PersonaIds,
         replacement[u].base = personas,
         NEW name \in PersonaNames \cup PersonaIds,
         \/ name = i
         \/ /\ ToDelete(replacement[u]) = {} /\ ToPark(replacement[u]) = {}
            /\ i \in DOMAIN replacement[u].asked /\ name = replacement[u].asked[i]
  PROVE  ~NameTaken(u, i, name) /\ ~RowGone(u, i)
<1> DEFINE r == replacement[u]
<1>1. Orderly(r) /\ r \in Replacement /\ r.base = personas
      /\ \A j \in DOMAIN r.asked : r.asked[j] \in PersonaNames
  BY ReplacementIs DEF PersonaInv
<1>2. \A j \in PersonaIds : Met(u)[j] = IF r.own[j] = Unwritten THEN personas[j] ELSE r.own[j]
  BY DEF Met
<1>3. \A j \in PersonaIds : personas[j] \in PersonaNames \cup {NoPersona}
  BY DEF PersonaInv, PersonaTypes, PersonaTable
<1>4. ASSUME NEW j \in PersonaIds, j # i PROVE Met(u)[j] # name
  <2>1. CASE r.own[j] = Unwritten
    <3>1. Met(u)[j] = personas[j]
      BY <1>2, <2>1
    <3>2. CASE name = i
      BY <1>3, <3>1, <3>2, PersonaAssumption
    <3>3. CASE /\ ToDelete(r) = {} /\ ToPark(r) = {}
               /\ i \in DOMAIN r.asked /\ name = r.asked[i]
      <4>1. j \notin Stored(r.base)
        BY <2>1, <3>3 DEF ToDelete, ToPark
      <4>2. personas[j] = NoPersona
        BY <1>1, <4>1 DEF Stored
      <4>3. QED BY <1>1, <3>1, <3>3, <4>2, PersonaAssumption
    <3>4. QED BY <3>2, <3>3
  <2>2. CASE r.own[j] # Unwritten
    <3>1. Met(u)[j] = r.own[j]
      BY <1>2, <2>2
    <3>2. \/ r.own[j] = NoPersona \/ r.own[j] = j
          \/ j \in DOMAIN r.asked /\ r.own[j] = r.asked[j]
      BY <1>1, <2>2 DEF Orderly
    <3>3. CASE name = i
      BY <1>1, <1>4, <3>1, <3>2, <3>3, PersonaAssumption
    <3>4. CASE i \in DOMAIN r.asked /\ name = r.asked[i]
      BY <1>1, <1>4, <3>1, <3>2, <3>4, PersonaAssumption DEF Orderly
    <3>5. QED BY <3>3, <3>4
  <2>3. QED BY <2>1, <2>2
<1>5. ~RowGone(u, i)
  BY <1>1 DEF RowGone, Stored
<1>6. QED BY <1>4, <1>5 DEF NameTaken

LEMMA PutKeeps ==
  ASSUME PersonaInv, NEW u \in Replacing, NEW i \in PersonaIds,
         NEW name \in PersonaNames \cup PersonaIds, Put(u, i, name),
         \/ i \in ToPark(replacement[u]) /\ name = i
         \/ /\ ToDelete(replacement[u]) = {} /\ ToPark(replacement[u]) = {}
            /\ i \in ToName(replacement[u]) /\ name = replacement[u].asked[i]
  PROVE  PersonaInv'
<1>1. CASE NameTaken(u, i, name) \/ RowGone(u, i)
  <2>1. RolledBack(u) /\ refused' = (refused \/ replacement[u].base = personas)
    BY <1>1 DEF Put
  <2>2. replacement[u].base # personas
    BY <1>1, UnracedNameIsFree DEF ToName
  <2>3. ~refused
    BY DEF PersonaInv, RenamesNeverCollide
  <2>4. refused' = FALSE
    BY <2>1, <2>2, <2>3
  <2>5. QED BY <2>1, <2>4, RolledBackKeeps
<1>2. CASE ~(NameTaken(u, i, name) \/ RowGone(u, i))
  <2>1. Wrote(u, i, name)
    BY <1>2 DEF Put
  <2>2. QED BY <2>1, WroteKeeps
<1>3. QED BY <1>1, <1>2

LEMMA CommitReplaceKeeps ==
  ASSUME PersonaInv, NEW u \in Replacing, CommitReplace(u)
  PROVE  PersonaInv'
<1> DEFINE r == replacement[u]
           S == DOMAIN r.asked
           old == Stored(personas)
<1>1. /\ ToDelete(r) = {} /\ ToPark(r) = {} /\ ToName(r) = {}
      /\ personas' = Met(u) /\ refused' = refused
      /\ landed' = [names |-> {r.asked[i] : i \in S}, late |-> old \ Stored(r.base)]
      /\ replacement' = [replacement EXCEPT ![u] = NoReplacement]
  BY DEF CommitReplace
<1>2. /\ Orderly(r) /\ u \in Editors /\ S \subseteq PersonaIds
      /\ \A i \in S : r.asked[i] \in PersonaNames
  BY ReplacementIs DEF PersonaInv
<1>3. \A i \in PersonaIds :
        personas'[i] = IF r.own[i] = Unwritten THEN personas[i] ELSE r.own[i]
  BY <1>1 DEF Met
<1>4. \A i \in S : r.own[i] = r.asked[i]
  BY <1>1 DEF ToName
<1>5. \A i \in S : r.own[i] # Unwritten /\ r.asked[i] # NoPersona
  BY <1>2, <1>4, PersonaAssumption
<1>6. \A i \in PersonaIds \ S : r.own[i] \in {Unwritten, NoPersona}
  BY <1>2 DEF Orderly
<1>7. \A i \in Stored(r.base) \ S : r.own[i] = NoPersona
  <2>1. \A i \in Stored(r.base) \ S : i \in PersonaIds \ S /\ r.own[i] # Unwritten
    BY <1>1 DEF ToDelete, Stored
  <2>2. QED BY <1>6, <2>1
<1>8. personas' \in PersonaTable
  <2>1. \A i \in PersonaIds : personas[i] \in PersonaNames \cup {NoPersona}
    BY DEF PersonaInv, PersonaTypes, PersonaTable
  <2>2. \A i \in PersonaIds : Met(u)[i] \in PersonaNames \cup {NoPersona}
    BY <1>1, <1>2, <1>3, <1>4, <1>6, <2>1
  <2>3. Met(u) \in [PersonaIds -> PersonaNames \cup {NoPersona}]
    BY <2>2 DEF Met
  <2>4. QED BY <1>1, <2>3 DEF PersonaTable
<1>9. Stored(personas') \subseteq old \cup S
  BY <1>3, <1>6 DEF Stored
<1>10. PersonaTypes'
  BY <1>1, <1>8 DEF PersonaInv, PersonaTypes
<1>11. \A v \in Replacing' : v # u /\ v \in Replacing /\ replacement'[v] = replacement[v]
  BY <1>1, <1>2 DEF PersonaInv, PersonaTypes, Replacing
<1>12. NewAreOwn'
  <2>1. \A v \in Replacing' : /\ NewRows(replacement[v]) \cap old = {}
                              /\ NewRows(replacement[v]) \cap S = {}
    BY <1>11 DEF PersonaInv, NewAreOwn
  <2>2. \A v, w \in Replacing' : w # v =>
          NewRows(replacement[v]) \cap DOMAIN replacement[w].asked = {}
    BY <1>11 DEF PersonaInv, NewAreOwn
  <2>3. \A v \in Replacing' : NewRows(replacement[v]) \cap Stored(personas') = {}
    BY <1>9, <2>1
  <2>4. QED BY <1>11, <2>2, <2>3 DEF NewAreOwn, Stored
<1>13. Stored(personas') \ (old \ Stored(r.base)) = S
  <2>1. \A i \in S : i \in Stored(personas')
    BY <1>2, <1>3, <1>4, <1>5 DEF Stored
  <2>2. S \cap (old \ Stored(r.base)) = {}
    BY DEF PersonaInv, NewAreOwn, NewRows
  <2>3. ASSUME NEW i \in Stored(personas'), i \notin old \ Stored(r.base), i \notin S PROVE FALSE
    <3>1. i \in PersonaIds /\ personas'[i] # NoPersona /\ i \in old
      BY <1>9, <2>3 DEF Stored
    <3>2. r.own[i] = NoPersona
      BY <1>7, <2>3, <3>1
    <3>3. QED BY <1>3, <3>1, <3>2, PersonaAssumption
  <2>4. QED BY <2>1, <2>2, <2>3
<1>14. \A i \in S : personas'[i] = r.asked[i]
  BY <1>2, <1>3, <1>4, <1>5
<1>15. ListIsWhatWasAsked'
  <2>1. landed'.late = old \ Stored(r.base) /\ landed'.names = {r.asked[i] : i \in S}
    BY <1>1
  <2>2. NamesIn(personas', S) = {r.asked[i] : i \in S}
    BY <1>14 DEF NamesIn
  <2>3. NamesIn(personas', Stored(personas') \ landed'.late) = landed'.names
    BY <1>13, <2>1, <2>2
  <2>4. QED BY <2>3 DEF ListIsWhatWasAsked, NamesIn, Stored
<1>16. \A v \in Replacing' : Orderly(replacement'[v])
  BY <1>11 DEF PersonaInv
<1>17. QED
  BY <1>1, <1>10, <1>12, <1>15, <1>16 DEF PersonaInv, RenamesNeverCollide

LEMMA PersonaStep == PersonaInv /\ [PersonaNext]_personaVars => PersonaInv'
<1> SUFFICES ASSUME PersonaInv, [PersonaNext]_personaVars PROVE PersonaInv'
  OBVIOUS
<1>1. CASE UNCHANGED personaVars
  BY <1>1
  DEF personaVars, PersonaInv, PersonaTypes, NewAreOwn, Replacing, RenamesNeverCollide,
      ListIsWhatWasAsked, NamesIn, Stored, Orderly, NewRows
<1>2. ASSUME NEW u \in Editors, NEW i \in PersonaIds,
             DeletePersona(u, i) \/ ParkPersona(u, i) \/ NamePersona(u, i)
      PROVE  PersonaInv'
  <2>1. u \in Replacing
    BY <1>2 DEF DeletePersona, ParkPersona, NamePersona
  <2>2. CASE DeletePersona(u, i)
    BY <2>1, <2>2, WroteKeeps DEF DeletePersona
  <2>3. CASE ParkPersona(u, i)
    BY <2>1, <2>3, PutKeeps DEF ParkPersona
  <2>4. CASE NamePersona(u, i)
    <3>1. replacement[u].asked[i] \in PersonaNames
      BY <2>1, <2>4, ReplacementIs DEF PersonaInv, NamePersona, ToName
    <3>2. QED BY <2>1, <2>4, <3>1, PutKeeps DEF NamePersona
  <2>5. QED BY <1>2, <2>2, <2>3, <2>4
<1>3. ASSUME NEW u \in Editors, CommitReplace(u) \/ DropReplace(u) PROVE PersonaInv'
  <2>1. u \in Replacing
    BY <1>3 DEF CommitReplace, DropReplace
  <2>2. CASE CommitReplace(u)
    BY <2>1, <2>2, CommitReplaceKeeps
  <2>3. CASE DropReplace(u)
    <3>1. RolledBack(u) /\ refused' = FALSE
      BY <2>3 DEF DropReplace, PersonaInv, RenamesNeverCollide
    <3>2. QED BY <2>1, <3>1, RolledBackKeeps
  <2>4. QED BY <1>3, <2>2, <2>3
<1>4. QED BY <1>1, <1>2, <1>3, BeginReplaceKeeps DEF PersonaNext

(* How far each open request has come, and that new rows are nobody else's.*)
THEOREM PersonaInvariant == PersonaSpec => []PersonaInv
BY PersonaInitial, PersonaStep, PTL DEF PersonaSpec

(* However requests overlap, one is refused only when another has changed  *)
(* the table it read, and the last to land leaves its list, and besides it *)
(* only rows inserted since it read the table.                             *)
THEOREM PersonasBecomeTheList == PersonaSpec => [](RenamesNeverCollide /\ ListIsWhatWasAsked)
<1>1. PersonaInv => RenamesNeverCollide /\ ListIsWhatWasAsked
  BY DEF PersonaInv
<1>2. QED BY <1>1, PersonaInvariant, PTL

-----------------------------------------------------------------------------
(* The evidence about one person (DecisionMakerScoring).                  *)

Employments ==
  {"FORMER", "CONFLICTING", "CURRENT_CONFIRMED", "CURRENT_LIKELY", "CURRENT_UNCERTAIN"}

(* What a dossier is made of.                                              *)
LEMMA DossierIs ==
  ASSUME NEW d \in Dossier
  PROVE  /\ d.evidence \in SUBSET Items /\ IsFiniteSet(d.evidence)
         /\ d.mails \in SUBSET Results
         /\ d.role \in {"HIGH", "MEDIUM", "LOW", "NONE"}
         /\ d.review \in {"NONE", "APPROVED", "EXCLUDED"}
         /\ Sources(d) \in Nat /\ Employment(d) \in Employments
         /\ BestMail(d) \in {"VALID", "UNVERIFIED", "INVALID", "NONE"}
<1>1. d.evidence \in SUBSET Items
  BY DEF Dossier, kSubset
<1>2. IsFiniteSet(d.evidence)
  BY <1>1, DossierAssumption, FS_Subset
<1>3. IsFiniteSet({<<e.source, e.url>> : e \in d.evidence})
  <2> DEFINE f == [e \in d.evidence |-> <<e.source, e.url>>]
  <2>1. DOMAIN f = d.evidence /\ \A e \in d.evidence : f[e] = <<e.source, e.url>>
    OBVIOUS
  <2>2. {<<e.source, e.url>> : e \in d.evidence} = {f[e] : e \in DOMAIN f}
    OBVIOUS
  <2>3. f = [e \in DOMAIN f |-> f[e]]
    OBVIOUS
  <2> HIDE DEF f
  <2>4. QED BY <1>2, <2>1, <2>2, <2>3, ImageOfFinite
<1>4. Sources(d) \in Nat
  BY <1>3, FS_CardinalityType DEF Sources
<1>5. Employment(d) \in Employments
  BY DEF Employment, Employments
<1>6. BestMail(d) \in {"VALID", "UNVERIFIED", "INVALID", "NONE"}
  BY DEF BestMail
<1>7. QED BY <1>1, <1>2, <1>4, <1>5, <1>6 DEF Dossier

(* The suitability of a person, as a table of its five inputs.             *)
Grades == {"LOW", "INSUFFICIENT_EVIDENCE", "MEDIUM", "HIGH"}

LEMMA PointsAre ==
  ASSUME NEW d \in Dossier
  PROVE  Points(d) \in 0 .. 100
<1>1. RolePoints[d.role] \in 0 .. 40
  BY DossierIs DEF RolePoints
<1>2. EmploymentPoints[Employment(d)] \in 0 .. 30
  BY DossierIs DEF EmploymentPoints, Employments
<1>3. MailPoints[BestMail(d)] \in 0 .. 15
  BY DossierIs DEF MailPoints
<1> DEFINE few == IF Sources(d) > 3 THEN 3 ELSE Sources(d)
           a == RolePoints[d.role]
           b == EmploymentPoints[Employment(d)]
           c == MailPoints[BestMail(d)]
<1>4. few \in 0 .. 3
  BY DossierIs
<1>5. Points(d) = a + b + 5 * few + c
  BY DEF Points
<1> HIDE DEF few, a, b, c
<1>6. a \in 0 .. 40 /\ b \in 0 .. 30 /\ c \in 0 .. 15 
  BY <1>1, <1>2, <1>3 DEF a, b, c
<1>7. QED BY <1>4, <1>5, <1>6

LEMMA SuitabilityIs ==
  ASSUME NEW d \in Dossier
  PROVE  /\ SuitabilityOf(d) \in Grades
         /\ SuitabilityOf(d) \notin {"LOW", "INSUFFICIENT_EVIDENCE"} =>
              /\ d.role \in {"HIGH", "MEDIUM"} /\ Employment(d) \notin {"FORMER", "CONFLICTING"}
              /\ Employment(d) = "CURRENT_UNCERTAIN" => Sources(d) >= 2
<1>1. Points(d) \in Int /\ Sources(d) \in Nat /\ Employment(d) \in Employments
      /\ d.role \in {"HIGH", "MEDIUM", "LOW", "NONE"}
  BY DossierIs, PointsAre
<1>2. CASE d.role = "NONE" \/ Employment(d) = "FORMER"
  BY <1>2 DEF SuitabilityOf, Grades
<1>3. CASE d.role # "NONE" /\ Employment(d) # "FORMER" /\
           \/ Employment(d) = "CONFLICTING"
           \/ Employment(d) = "CURRENT_UNCERTAIN" /\ Sources(d) < 2
  BY <1>3 DEF SuitabilityOf, Grades
<1>4. CASE ~ (d.role = "NONE" \/ Employment(d) = "FORMER") /\
           ~ \/ Employment(d) = "CONFLICTING"
             \/ Employment(d) = "CURRENT_UNCERTAIN" /\ Sources(d) < 2
  BY <1>1, <1>4 DEF SuitabilityOf, Grades
<1>5. QED BY <1>2, <1>3, <1>4
LEMMA ReadyNeeds ==
  ASSUME NEW d \in Dossier, ContactStatus(d) = "READY_FOR_DRAFT"
  PROVE  /\ d.review # "EXCLUDED" /\ BestMail(d) = "VALID"
         /\ d.review = "APPROVED" \/
              /\ d.role \in {"HIGH", "MEDIUM"} /\ Employment(d) # "FORMER"
              /\ SuitabilityOf(d) \notin {"LOW", "INSUFFICIENT_EVIDENCE"}
BY DossierIs DEF ContactStatus

(* Someone who is likely to be employed is known to a provider, someone    *)
(* who is confirmed is on a website that was read lately.                  *)
LEMMA EmploymentNeeds ==
  ASSUME NEW d \in Dossier
  PROVE  /\ Employment(d) = "CURRENT_LIKELY" => Provider(d) # {}
         /\ Employment(d) = "CURRENT_CONFIRMED" => \E e \in Official(d) : e.recent
BY DEF Employment, StillListed

LEMMA ReadyIsTargetableOf ==
  ASSUME NEW d \in Dossier, ContactStatus(d) = "READY_FOR_DRAFT"
  PROVE  /\ "VALID" \in d.mails /\ Aligned(d) /\ ~Blocked(d)
         /\ \/ d.review = "APPROVED"
            \/ /\ Employment(d) \notin {"FORMER", "CONFLICTING"}
               /\ \/ Sources(d) >= 2
                  \/ Provider(d) # {} \/ \E e \in Official(d) : e.recent
<1>1. "VALID" \in d.mails
  BY ReadyNeeds DEF BestMail
<1>2. CASE d.review = "APPROVED"
  BY <1>1, <1>2 DEF Aligned, Blocked
<1>3. CASE d.review # "APPROVED"
  <2>1. /\ d.review # "EXCLUDED" /\ d.role \in {"HIGH", "MEDIUM"}
        /\ SuitabilityOf(d) \notin {"LOW", "INSUFFICIENT_EVIDENCE"}
    BY <1>3, ReadyNeeds
  <2>2. /\ Employment(d) \in {"CURRENT_CONFIRMED", "CURRENT_LIKELY", "CURRENT_UNCERTAIN"}
        /\ Employment(d) = "CURRENT_UNCERTAIN" => Sources(d) >= 2
    BY <2>1, SuitabilityIs, DossierIs DEF Employments
  <2>3. QED BY <1>1, <2>1, <2>2, EmploymentNeeds DEF Aligned, Blocked
<1>4. QED BY <1>2, <1>3

-----------------------------------------------------------------------------
(* What a verified mailbox changes, when nothing else does.                *)
Verifies(d, e) ==
  /\ e.evidence = d.evidence /\ e.role = d.role /\ e.review = d.review
  /\ "VALID" \notin d.mails /\ "VALID" \in e.mails

LEMMA VerifiedMailKeepsEmployment ==
  ASSUME NEW d \in Dossier, NEW e \in Dossier, Verifies(d, e)
  PROVE  /\ Employment(e) = "FORMER" => Employment(d) = "FORMER"
         /\ Employment(e) = "CONFLICTING" => Employment(d) = "CONFLICTING"
         /\ Employment(e) = "CURRENT_UNCERTAIN" =>
              Employment(d) \in {"FORMER", "CURRENT_UNCERTAIN"}
<1>1. /\ Website(e) = Website(d) /\ Official(e) = Official(d) /\ Provider(e) = Provider(d)
      /\ e.evidence = d.evidence
  BY DEF Verifies, Website, Official, Provider
<1>2. /\ Delisted(e) <=> Delisted(d)
      /\ TitlesConflict(e) <=> TitlesConflict(d)
      /\ Gone(e) <=> Gone(d)
      /\ StillListed(e) <=> StillListed(d)
  BY <1>1 DEF Delisted, TitlesConflict, Gone, StillListed
<1>3. ~Rejected(e) /\ "VALID" \in e.mails /\ "VALID" \notin d.mails
  BY DEF Verifies, Rejected
<1>4. CASE \E i \in d.evidence : i.title = "FORMER"
  BY <1>1, <1>4 DEF Employment
<1>5. CASE ~(\E i \in d.evidence : i.title = "FORMER") /\ TitlesConflict(d)
  BY <1>1, <1>2, <1>5 DEF Employment
<1>6. CASE /\ ~(\E i \in d.evidence : i.title = "FORMER") /\ ~TitlesConflict(d)
           /\ \E i \in Official(d) : i.recent
  BY <1>1, <1>2, <1>6 DEF Employment
<1>7. CASE /\ ~(\E i \in d.evidence : i.title = "FORMER") /\ ~TitlesConflict(d)
           /\ ~(\E i \in Official(d) : i.recent)
  <2>1. Employment(e) = IF StillListed(d) \/ Provider(d) # {} THEN "CURRENT_LIKELY"
                        ELSE "CURRENT_UNCERTAIN"
    BY <1>1, <1>2, <1>3, <1>7 DEF Employment
  <2>2. Employment(d) \in {"FORMER", "CURRENT_UNCERTAIN"} \/ StillListed(d)
    BY <1>3, <1>7 DEF Employment
  <2>3. QED BY <2>1, <2>2
<1>8. QED BY <1>4, <1>5, <1>6, <1>7

(* With a verified mailbox whoever has a role that matches is good enough, *)
(* but for those whose employment is in doubt.                             *)
LEMMA VerifiedMailSuffices ==
  ASSUME NEW e \in Dossier, "VALID" \in e.mails, e.role \in {"HIGH", "MEDIUM"},
         Employment(e) \notin {"FORMER", "CONFLICTING"},
         Employment(e) = "CURRENT_UNCERTAIN" => ~(Sources(e) < 2)
  PROVE  SuitabilityOf(e) \in {"HIGH", "MEDIUM"}
<1> DEFINE few == IF Sources(e) > 3 THEN 3 ELSE Sources(e)
           r == RolePoints[e.role]
           a == EmploymentPoints[Employment(e)]
<1>1. /\ Employment(e) \in {"CURRENT_CONFIRMED", "CURRENT_LIKELY", "CURRENT_UNCERTAIN"}
      /\ Sources(e) \in Nat
  BY DossierIs DEF Employments
<1>2. r \in Nat /\ r >= 25
  BY DEF RolePoints
<1>3. a \in Nat /\ (a >= 20 \/ (a >= 8 /\ Sources(e) >= 2))
  BY <1>1 DEF EmploymentPoints
<1>4. few \in Nat /\ (Sources(e) >= 2 => few >= 2)
  BY <1>1
<1>5. MailPoints[BestMail(e)] = 15
  BY DEF BestMail, MailPoints
<1>6. Points(e) = r + a + 5 * few + 15
  BY <1>5 DEF Points
<1>7. Points(e) \in Int /\ Points(e) >= 45
  <2> HIDE DEF r, a, few
  <2>1. QED BY <1>2, <1>3, <1>4, <1>6
<1>8. QED BY <1>1, <1>7 DEF SuitabilityOf

LEMMA VerifiedMailKeepsStatus ==
  ASSUME NEW d \in Dossier, NEW e \in Dossier, Verifies(d, e)
  PROVE  StatusRank[ContactStatus(e)] >= StatusRank[ContactStatus(d)]
<1>1. /\ BestMail(e) = "VALID" /\ BestMail(d) \in {"UNVERIFIED", "INVALID", "NONE"}
      /\ "VALID" \in e.mails /\ e.role = d.role /\ e.review = d.review
      /\ Sources(e) = Sources(d)
  BY DEF BestMail, Verifies, Sources
<1>2. StatusRank[ContactStatus(d)] \in 0 .. 5
  BY DEF ContactStatus, StatusRank
<1>3. CASE d.review = "EXCLUDED"
  BY <1>1, <1>3 DEF ContactStatus, StatusRank
<1>4. CASE ContactStatus(e) = "READY_FOR_DRAFT"
  BY <1>2, <1>4 DEF StatusRank
<1>5. CASE d.review = "APPROVED"
  <2>1. ContactStatus(e) = "READY_FOR_DRAFT"
    BY <1>1, <1>5 DEF ContactStatus
  <2>2. QED BY <1>4, <2>1
<1>6. CASE d.review = "NONE"
  <2>1. CASE d.role \in {"NONE", "LOW"} \/ Employment(e) = "FORMER"
    <3>1. d.role \in {"NONE", "LOW"} \/ Employment(d) = "FORMER"
      BY <2>1, VerifiedMailKeepsEmployment
    <3>2. ContactStatus(d) = "NOT_RELEVANT" /\ ContactStatus(e) = "NOT_RELEVANT"
      BY <1>1, <1>6, <2>1, <3>1 DEF ContactStatus
    <3>3. QED BY <3>2 DEF StatusRank
  <2>2. CASE /\ d.role \notin {"NONE", "LOW"}
             /\ \/ Employment(e) = "CONFLICTING"
                \/ Employment(e) = "CURRENT_UNCERTAIN" /\ Sources(e) < 2
    <3>1. SuitabilityOf(e) = "INSUFFICIENT_EVIDENCE"
      BY <1>1, <2>2 DEF SuitabilityOf
    <3>2. ContactStatus(e) = "INSUFFICIENT_EVIDENCE"
      BY <1>1, <1>6, <2>2, <3>1 DEF ContactStatus
    <3>3. CASE Employment(d) = "FORMER"
      <4>1. ContactStatus(d) = "NOT_RELEVANT"
        BY <1>6, <3>3 DEF ContactStatus
      <4>2. QED BY <3>2, <4>1 DEF StatusRank
    <3>4. CASE Employment(d) # "FORMER"
      <4>1. \/ Employment(d) = "CONFLICTING"
            \/ Employment(d) = "CURRENT_UNCERTAIN" /\ Sources(d) < 2
        BY <1>1, <2>2, <3>4, VerifiedMailKeepsEmployment
      <4>2. SuitabilityOf(d) = "INSUFFICIENT_EVIDENCE"
        BY <2>2, <4>1 DEF SuitabilityOf
      <4>3. ContactStatus(d) = "INSUFFICIENT_EVIDENCE"
        BY <1>6, <2>2, <3>4, <4>2 DEF ContactStatus
      <4>4. QED BY <3>2, <4>3 DEF StatusRank
    <3>5. QED BY <3>3, <3>4
  <2>3. CASE /\ d.role \notin {"NONE", "LOW"}
             /\ Employment(e) \notin {"FORMER", "CONFLICTING"}
             /\ ~(Employment(e) = "CURRENT_UNCERTAIN" /\ Sources(e) < 2)
    <3>1. e.role \in {"HIGH", "MEDIUM"}
      BY <1>1, <2>3, DossierIs
    <3>2. SuitabilityOf(e) \in {"HIGH", "MEDIUM"}
      BY <1>1, <2>3, <3>1, VerifiedMailSuffices
    <3>3. ContactStatus(e) = "READY_FOR_DRAFT"
      BY <1>1, <1>6, <2>3, <3>1, <3>2 DEF ContactStatus
    <3>4. QED BY <1>4, <3>3
  <2>4. QED BY <2>1, <2>2, <2>3
<1>7. d.review \in {"NONE", "APPROVED", "EXCLUDED"}
  BY DossierIs
<1>8. QED BY <1>3, <1>5, <1>6, <1>7

-----------------------------------------------------------------------------
LEMMA DossierStep ==
  ASSUME dossier \in Dossier, [DossierNext]_dossier
  PROVE  /\ dossier' \in Dossier
         /\ dossier' = dossier \/
              /\ dossier'.evidence = dossier.evidence /\ dossier'.role = dossier.role
              /\ dossier'.review = dossier.review
<1>1. ASSUME NEW mails \in SUBSET Results, LearnMail(mails)
      PROVE  /\ dossier' \in Dossier
             /\ dossier'.evidence = dossier.evidence /\ dossier'.role = dossier.role
             /\ dossier'.review = dossier.review
  <2>1. dossier' = [dossier EXCEPT !.mails = mails]
    BY <1>1 DEF LearnMail
  <2>2. QED BY <2>1 DEF Dossier
<1>2. QED BY <1>1 DEF DossierNext

(* A dossier stays one, and its score is never out of range.               *)
THEOREM DossierTypes == DossierSpec => []DossierTypeOK
<1>1. DossierInit => dossier \in Dossier
  BY DEF DossierInit
<1>2. dossier \in Dossier /\ [DossierNext]_dossier => (dossier \in Dossier)'
  BY DossierStep
<1>3. dossier \in Dossier => DossierTypeOK
  BY PointsAre DEF DossierTypeOK
<1>4. QED BY <1>1, <1>2, <1>3, PTL DEF DossierSpec

(* Whoever is READY_FOR_DRAFT passes the gates of drafting and sending     *)
(* (contact_status and targeting_block_reason).                            *)
THEOREM ReadyIsAlwaysTargetable == DossierSpec => []ReadyIsTargetable
<1>1. DossierTypeOK => ReadyIsTargetable
  BY ReadyIsTargetableOf DEF DossierTypeOK, ReadyIsTargetable
<1>2. QED BY <1>1, DossierTypes, PTL

(* When an address turns out to be valid, no rule on employment, grade or  *)
(* status puts the person lower.                                           *)
THEOREM VerifiedMailHelps == DossierSpec => VerifiedMailNeverHurts
<1> DEFINE Helps == /\ "VALID" \notin dossier.mails /\ "VALID" \in dossier'.mails
                    => StatusRank[ContactStatus(dossier')] >=
                         StatusRank[ContactStatus(dossier)]
<1>1. DossierTypeOK /\ [DossierNext]_dossier => [Helps]_dossier
  <2> SUFFICES ASSUME DossierTypeOK, [DossierNext]_dossier, dossier' # dossier,
                      "VALID" \notin dossier.mails, "VALID" \in dossier'.mails
               PROVE  StatusRank[ContactStatus(dossier')] >=
                        StatusRank[ContactStatus(dossier)]
    OBVIOUS
  <2>1. dossier \in Dossier /\ dossier' \in Dossier /\ Verifies(dossier, dossier')
    BY DossierStep DEF DossierTypeOK, Verifies
  <2>2. QED BY <2>1, VerifiedMailKeepsStatus
<1>2. [][Helps]_dossier <=> VerifiedMailNeverHurts
  BY DEF VerifiedMailNeverHurts
<1>3. QED BY <1>1, <1>2, DossierTypes, PTL DEF DossierSpec

-----------------------------------------------------------------------------
(* The people to contact (DecisionMakers).                                *)

Table == [Rows -> Candidate \cup {NoRow}]

(* x has the rows of t, of the same people, and no stamp fewer.            *)
SameRows(t, x) ==
  /\ In(x) = In(t)
  /\ \A r \in In(t) : /\ x[r].person = t[r].person /\ x[r].ref = t[r].ref
                      /\ t[r].tried => x[r].tried

SameReviews(t, x) == \A r \in In(t) : x[r].review = t[r].review

(* Every status and rank of t is what its other columns amount to.         *)
Agrees(t) ==
  \A r \in In(t) : /\ t[r].status # "NONE" => t[r].status = StatusOf(t[r])
                   /\ t[r].rank = RankOf(t, r)

LEMMA RowIs ==
  ASSUME NEW t \in Table
  PROVE  /\ \A r \in Rows : r \in In(t) <=> t[r] # NoRow
         /\ \A r \in In(t) : r \in Rows /\ t[r] \in Candidate
         /\ \A r \in Rows : t[r] \in Candidate => r \in In(t)
         /\ In(t) \subseteq Rows /\ IsFiniteSet(In(t))
<1>1. In(t) \subseteq Rows /\ IsFiniteSet(In(t))
  BY CandidateAssumption, FS_Subset DEF In
<1>2. QED BY <1>1, CandidateAssumption DEF In, Table

LEMMA StatusIs ==
  ASSUME NEW c \in Candidate
  PROVE  StatusOf(c) \in Rankable \cup {"NOT_RELEVANT", "EXCLUDED"}
BY DEF StatusOf, Rankable, StatusOrder

LEMMA RankIs ==
  ASSUME NEW t \in Table, NEW r \in In(t)
  PROVE  RankOf(t, r) \in 0 .. Limit
<1> DEFINE better == {s \in In(t) :
             /\ t[s].status \in Rankable
             /\ \/ Merit(t[s]) < Merit(t[r])
                \/ Merit(t[s]) = Merit(t[r]) /\ s < r}
<1>1. Cardinality(better) \in Nat
  BY RowIs, FS_Subset, FS_CardinalityType
<1>2. RankOf(t, r) = IF t[r].status \notin Rankable THEN 0
                     ELSE IF Cardinality(better) < Limit THEN 1 + Cardinality(better) ELSE 0
  BY DEF RankOf
<1> HIDE DEF better
<1>3. QED BY <1>1, <1>2, CandidateAssumption

(* A rank is told by the other columns.                                    *)
LEMMA RankAgrees ==
  ASSUME NEW t, NEW x, In(x) = In(t),
         \A r \in In(t) : /\ x[r].review = t[r].review /\ x[r].case = t[r].case
                          /\ x[r].mail = t[r].mail /\ x[r].status = t[r].status,
         NEW r \in In(t)
  PROVE  RankOf(x, r) = RankOf(t, r)
<1>1. \A s \in In(t) : Merit(x[s]) = Merit(t[s])
  BY DEF Merit, Suffices
<1>2. {s \in In(x) : /\ x[s].status \in Rankable
                     /\ \/ Merit(x[s]) < Merit(x[r])
                        \/ Merit(x[s]) = Merit(x[r]) /\ s < r}
      = {s \in In(t) : /\ t[s].status \in Rankable
                       /\ \/ Merit(t[s]) < Merit(t[r])
                          \/ Merit(t[s]) = Merit(t[r]) /\ s < r}
  BY <1>1
<1>3. QED BY <1>2 DEF RankOf

LEMMA EvaluatedIs ==
  ASSUME NEW t \in Table
  PROVE  /\ Evaluated(t) \in Table /\ Agrees(Evaluated(t))
         /\ SameRows(t, Evaluated(t)) /\ SameReviews(t, Evaluated(t))
<1> DEFINE z == [r \in Rows |-> IF t[r] = NoRow \/ t[r].status = "NONE" THEN t[r]
                                ELSE [t[r] EXCEPT !.status = StatusOf(t[r])]]
           e == Evaluated(t)
<1>1. /\ z \in Table /\ In(z) = In(t)
      /\ \A r \in In(t) : 
           /\ \A f \in {"person", "ref", "review", "case", "mail", "tried"} : z[r][f] = t[r][f]
           /\ z[r].status = IF t[r].status = "NONE" THEN "NONE" ELSE StatusOf(t[r])
  <2>1. \A r \in Rows : t[r] = NoRow => z[r] = NoRow
    OBVIOUS
  <2>2. ASSUME NEW r \in In(t)
        PROVE  /\ z[r] \in Candidate
               /\ \A f \in {"person", "ref", "review", "case", "mail", "tried"} :
                    z[r][f] = t[r][f]
               /\ z[r].status = IF t[r].status = "NONE" THEN "NONE" ELSE StatusOf(t[r])
    <3>1. r \in Rows /\ t[r] \in Candidate /\ t[r] # NoRow
      BY RowIs
    <3>2. StatusOf(t[r]) \in Rankable \cup {"NOT_RELEVANT", "EXCLUDED"}
      BY <3>1, StatusIs
    <3>3. CASE t[r].status = "NONE"
      BY <3>1, <3>3
    <3>4. CASE t[r].status # "NONE"
      <4>1. z[r] = [t[r] EXCEPT !.status = StatusOf(t[r])]
        BY <3>1, <3>4
      <4>2. QED BY <3>1, <3>2, <3>4, <4>1 DEF Candidate
    <3>5. QED BY <3>3, <3>4
  <2>3. \A r \in Rows : r \in In(t) <=> t[r] # NoRow
    BY RowIs
  <2>4. z \in Table
    BY <2>1, <2>2, <2>3 DEF Table
  <2> HIDE DEF z
  <2>5. In(z) = In(t)
    <3>1. \A r \in Rows : z[r] # NoRow <=> r \in In(t)
      BY <2>1, <2>2, <2>3, CandidateAssumption
    <3>2. QED BY <3>1 DEF In
  <2>6. QED BY <2>2, <2>4, <2>5
<1>2. e = [r \in Rows |-> IF z[r] = NoRow THEN NoRow
                          ELSE [z[r] EXCEPT !.rank = RankOf(z, r)]]
  BY DEF Evaluated, Ranked
<1> HIDE DEF z, e
<1>3. /\ e \in Table /\ In(e) = In(t)
      /\ \A r \in In(t) : 
           /\ \A f \in {"person", "ref", "review", "case", "mail", "tried", "status"} :
                e[r][f] = z[r][f]
           /\ e[r].rank = RankOf(z, r)
  <2>1. \A r \in Rows : z[r] = NoRow => e[r] = NoRow
    BY <1>2
  <2>2. ASSUME NEW r \in In(z)
        PROVE  /\ e[r] \in Candidate /\ e[r].rank = RankOf(z, r)
               /\ \A f \in {"person", "ref", "review", "case", "mail", "tried", "status"} :
                    e[r][f] = z[r][f]
    <3>1. r \in Rows /\ z[r] \in Candidate /\ z[r] # NoRow
      BY <1>1, RowIs
    <3>2. RankOf(z, r) \in 0 .. Limit
      BY <1>1, RankIs
    <3>3. e[r] = [z[r] EXCEPT !.rank = RankOf(z, r)]
      BY <1>2, <3>1
    <3>4. QED BY <3>1, <3>2, <3>3 DEF Candidate
  <2>3. \A r \in Rows : r \in In(z) <=> z[r] # NoRow
    BY <1>1, RowIs
  <2>4. e \in Table
    BY <1>2, <2>1, <2>2, <2>3 DEF Table
  <2>5. In(e) = In(z)
    <3>1. \A r \in Rows : e[r] # NoRow <=> r \in In(z)
      BY <2>1, <2>2, <2>3, CandidateAssumption
    <3>2. QED BY <3>1 DEF In
  <2>6. QED BY <1>1, <2>2, <2>4, <2>5
<1>4. Agrees(e)
  <2> SUFFICES ASSUME NEW r \in In(e)
               PROVE  /\ e[r].status # "NONE" => e[r].status = StatusOf(e[r])
                      /\ e[r].rank = RankOf(e, r)
    BY DEF Agrees
  <2>1. StatusOf(e[r]) = StatusOf(t[r])
    BY <1>1, <1>3 DEF StatusOf, Suffices
  <2>2. RankOf(e, r) = RankOf(z, r)
    BY <1>1, <1>3, RankAgrees
  <2>3. QED BY <1>1, <1>3, <2>1, <2>2
<1>5. SameRows(t, e) /\ SameReviews(t, e)
  BY <1>1, <1>3 DEF SameRows, SameReviews
<1>6. QED BY <1>3, <1>4, <1>5 DEF e

-----------------------------------------------------------------------------
(* What a request writes of a row: now has the committed columns.          *)
LEMMA RowWrittenIs ==
  ASSUME NEW base \in Candidate, NEW view \in Candidate, NEW now \in Candidate
  PROVE  LET row == RowWritten(base, view, now) IN
         /\ row \in Candidate /\ row.person = now.person
         /\ view.review = base.review => row.review = now.review
         /\ now = base /\ view.person = base.person /\ view.ref = base.ref => row = view
<1> DEFINE row == RowWritten(base, view, now)
           fields == {"person", "ref", "review", "case", "mail", "tried", "status", "rank"}
<1>1. /\ DOMAIN row = DOMAIN now
      /\ row.person = now.person /\ row.ref = now.ref
      /\ row.review = IF view.review = base.review THEN now.review ELSE view.review
      /\ row.case = IF view.case = base.case THEN now.case ELSE view.case
      /\ row.mail = IF view.mail = base.mail THEN now.mail ELSE view.mail
      /\ row.tried = IF Components(view) = Components(base) THEN now.tried ELSE view.tried
      /\ row.status = IF view.status = base.status THEN now.status ELSE view.status
      /\ row.rank = IF view.rank = base.rank THEN now.rank ELSE view.rank
  BY DEF RowWritten, Column, Candidate
<1>2. row \in Candidate
  <2> DEFINE v == Column(base.review, view.review, now.review)
             c == Column(base.case, view.case, now.case)
             m == Column(base.mail, view.mail, now.mail)
             d == IF Components(view) = Components(base) THEN now.tried ELSE view.tried
             s == Column(base.status, view.status, now.status)
             k == Column(base.rank, view.rank, now.rank)
  <2>1. row = [now EXCEPT !.review = v, !.case = c, !.mail = m, !.tried = d, !.status = s,
                          !.rank = k]
    BY DEF RowWritten
  <2>2. /\ v \in {"NONE", "APPROVED", "EXCLUDED"} /\ c \in Cases /\ m \in Mails
        /\ d \in BOOLEAN /\ s \in Rankable \cup {"NONE", "NOT_RELEVANT", "EXCLUDED"}
        /\ k \in 0 .. Limit
    BY DEF Column, Candidate
  <2> HIDE DEF row, v, c, m, d, s, k
  <2>3. QED BY <2>1, <2>2 DEF Candidate
<1> HIDE DEF row
<1>3. ASSUME now = base, view.person = base.person, view.ref = base.ref PROVE row = view
  <2>1. Components(view) = Components(base) => view.tried = base.tried
    BY DEF Components
  <2>2. \A f \in fields : row[f] = view[f]
    BY <1>1, <1>3, <2>1
  <2>3. QED BY <1>2, <2>2 DEF Candidate
<1>4. QED BY <1>1, <1>2, <1>3 DEF row

-----------------------------------------------------------------------------
(* What a request may make of the table b of its snapshot while now is     *)
(* committed: it keeps rows, and adds people whom b does not have, or whom *)
(* neither their name nor a reference tells from those it has.             *)
Unique(t) ==
  \A r, s \in In(t) :
    /\ t[r].person = t[s].person
    /\ t[r].person \in Keyed \/ (t[r].ref /\ t[s].ref)
    => r = s

Rowed(b, t, now) ==
  /\ In(b) \subseteq In(t)
  /\ \A r \in In(b) : /\ t[r].person = b[r].person /\ t[r].ref = b[r].ref
                      /\ b[r].tried => t[r].tried
  /\ \A r \in In(t) \ In(b) : now[r] = NoRow
  /\ Unique(b) => Unique(t)

Grown(b, t, now) == Rowed(b, t, now) /\ SameReviews(b, t)

LEMMA GrownSame ==
  ASSUME NEW b, NEW t, NEW now, Grown(b, t, now), NEW x, SameRows(t, x), SameReviews(t, x)
  PROVE  Grown(b, x, now)
BY DEF Grown, Rowed, SameRows, SameReviews, Unique

LEMMA RowedSame ==
  ASSUME NEW b, NEW t, NEW now, Rowed(b, t, now), NEW x, SameRows(t, x)
  PROVE  Rowed(b, x, now)
BY DEF Rowed, SameRows, Unique

LEMMA SameAgain ==
  ASSUME NEW b, NEW t, SameRows(b, t), NEW x, SameRows(t, x)
  PROVE  /\ SameRows(b, x)
         /\ SameReviews(b, t) /\ SameReviews(t, x) => SameReviews(b, x)
BY DEF SameRows, SameReviews

LEMMA ResolvedIs ==
  ASSUME NEW t \in Table, NEW S, NEW x \in Resolved(t, S)
  PROVE  x \in Table /\ SameRows(t, x) /\ SameReviews(t, x)
<1> DEFINE targets == {r \in In(t) : r \in S \/ t[r].status = "NONE"}
<1>1. PICK case \in [targets -> Cases] :
        x = [r \in Rows |-> IF r \in targets
                            THEN [t[r] EXCEPT !.case = case[r], !.status = "NOT_RELEVANT"]
                            ELSE t[r]]
  BY DEF Resolved
<1>2. targets \subseteq In(t)
  OBVIOUS
<1> HIDE DEF targets
<1>3. ASSUME NEW r \in In(t)
      PROVE  /\ x[r] \in Candidate /\ x[r].person = t[r].person /\ x[r].ref = t[r].ref
             /\ x[r].tried = t[r].tried /\ x[r].review = t[r].review
  <2>1. r \in Rows /\ t[r] \in Candidate
    BY RowIs
  <2>2. CASE r \in targets
    <3>1. case[r] \in Cases
      BY <2>2
    <3>2. x[r] = [t[r] EXCEPT !.case = case[r], !.status = "NOT_RELEVANT"]
      BY <1>1, <2>1, <2>2
    <3>3. QED BY <2>1, <3>1, <3>2 DEF Candidate
  <2>3. CASE r \notin targets
    BY <1>1, <2>1, <2>3
  <2>4. QED BY <2>2, <2>3
<1>4. \A r \in Rows : r \notin In(t) => x[r] = NoRow
  BY <1>1, <1>2, RowIs
<1>5. x \in Table
  BY <1>1, <1>3, <1>4 DEF Table
<1>6. In(x) = In(t)
  BY <1>3, <1>4, <1>5, RowIs
<1>7. QED BY <1>3, <1>5, <1>6 DEF SameRows, SameReviews

LEMMA LowestIs ==
  ASSUME NEW S, S \subseteq Rows, S # {}
  PROVE  Lowest(S) \in S
<1>1. S \in SUBSET Nat
  BY CandidateAssumption
<1>2. \E m \in S : \A x \in S : m <= x
  BY <1>1, LeastExists
<1>3. QED BY <1>2 DEF Lowest

(* A request so far: its table, and the rows it has observed.              *)
Findings(b) ==
  {x \in [table : Table, seen : SUBSET Rows] : Grown(b, x.table, contacts)}

(* An observed row is one that was there, or a new one: of a person whose  *)
(* key, and whose reference, no row has.                                   *)
LEMMA ReportedIs ==
  ASSUME contacts \in Table, NEW b \in Table, NEW x \in Findings(b), NEW r \in Rows,
         NEW row \in Candidate, NEW mailed \in BOOLEAN,
         \/ r \in In(x.table) /\ row = x.table[r]
         \/ /\ x.table[r] = NoRow /\ contacts[r] = NoRow
            /\ \A s \in In(x.table) : x.table[s].person = row.person =>
                 row.person \notin Keyed /\ ~(x.table[s].ref /\ row.ref),
         NEW y \in RowReported(x, r, row, mailed)
  PROVE  y \in Findings(b)
<1> DEFINE t == x.table
           z == y.table
<1>1. t \in Table /\ x.seen \subseteq Rows /\ Grown(b, t, contacts)
  BY DEF Findings
<1>2. PICK m \in Mails : y = [table |-> [t EXCEPT ![r] = [row EXCEPT !.mail = m]],
                             seen |-> x.seen \cup {r}]
  <2>1. row.mail \in Mails /\ "VALID" \in Mails /\ "UNKNOWN" \in Mails
    BY DEF Candidate, Mails
  <2>2. QED BY <2>1 DEF RowReported
<1> DEFINE put == [row EXCEPT !.mail = m]
<1>3. /\ put \in Candidate /\ put.person = row.person /\ put.ref = row.ref
      /\ put.review = row.review /\ put.tried = row.tried
  BY DEF Candidate
<1> DEFINE now == x.seen \cup {r}
<1>4. z = [t EXCEPT ![r] = put] /\ y = [table |-> z, seen |-> now]
  BY <1>2
<1>0. now \subseteq Rows
  BY <1>1
<1> HIDE DEF t, z, put, now
<1>5. z \in Table /\ \A s \in Rows : z[s] = IF s = r THEN put ELSE t[s]
  BY <1>1, <1>3, <1>4 DEF Table
<1>6. In(z) = In(t) \cup {r}
  BY <1>1, <1>3, <1>5, RowIs, CandidateAssumption DEF In
<1>7. \/ r \in In(t) /\ row = t[r]
      \/ /\ r \notin In(t) /\ contacts[r] = NoRow
         /\ \A s \in In(t) : t[s].person = row.person =>
              row.person \notin Keyed /\ ~(t[s].ref /\ row.ref)
  BY <1>1, RowIs DEF t
<1>8. \A s \in In(t) : /\ z[s].person = t[s].person /\ z[s].ref = t[s].ref
                       /\ z[s].review = t[s].review /\ z[s].tried = t[s].tried
  BY <1>1, <1>3, <1>5, <1>7, RowIs
<1>9. Unique(t) => Unique(z)
  <2>1. CASE r \in In(t) /\ row = t[r]
    <3>1. In(z) = In(t)
      BY <1>6, <2>1
    <3>2. QED BY <1>8, <3>1 DEF Unique
  <2>2. CASE /\ r \notin In(t)
             /\ \A s \in In(t) : t[s].person = row.person =>
                  row.person \notin Keyed /\ ~(t[s].ref /\ row.ref)
    <3>1. z[r].person = row.person /\ z[r].ref = row.ref
      BY <1>3, <1>5
    <3>2. \A s \in In(z) : s = r \/ s \in In(t)
      BY <1>6
    <3> HIDE DEF Unique
    <3>3. ASSUME Unique(t), NEW v \in In(z), NEW w \in In(z), z[v].person = z[w].person,
                 z[v].person \in Keyed \/ (z[v].ref /\ z[w].ref)
          PROVE  v = w
      <4>1. CASE v = r /\ w = r
        BY <4>1
      <4>2. CASE v = r /\ w \in In(t)
        BY <1>8, <2>2, <3>1, <3>3, <4>2
      <4>3. CASE v \in In(t) /\ w = r
        BY <1>8, <2>2, <3>1, <3>3, <4>3
      <4>4. CASE v \in In(t) /\ w \in In(t)
        BY <1>8, <3>3, <4>4 DEF Unique
      <4>5. QED BY <3>2, <4>1, <4>2, <4>3, <4>4
    <3>4. QED BY <3>3 DEF Unique
  <2>3. QED BY <1>7, <2>1, <2>2
<1>10. Grown(b, z, contacts)
  <2>1. \A s \in In(z) \ In(b) : contacts[s] = NoRow
    BY <1>1, <1>6, <1>7 DEF Grown, Rowed
  <2>2. QED BY <1>1, <1>6, <1>8, <1>9, <2>1 DEF Grown, Rowed, SameReviews
<1>11. y \in [table : Table, seen : SUBSET Rows]
  BY <1>0, <1>4, <1>5
<1>12. QED BY <1>10, <1>11 DEF Findings, z

LEMMA MergedIs ==
  ASSUME contacts \in Table, NEW b \in Table, NEW x \in Findings(b),
         NEW person \in People, NEW provider \in BOOLEAN,
         NEW y \in Merged(x, person, provider)
  PROVE  y \in Findings(b)
<1> DEFINE t == x.table
<1>1. t \in Table
  BY DEF Findings
<1>2. PICK mailed \in BOOLEAN : y \in MergedWith(x, person, provider, mailed)
  <2>1. {FALSE, provider} \subseteq BOOLEAN
    OBVIOUS
  <2>2. QED BY <2>1 DEF Merged
<1>3. PICK r \in Existing(t, person, provider, mailed) :
        y \in IF r = 0 THEN Inserted(x, person, provider, mailed)
              ELSE RowReported(x, r, t[r], mailed)
  BY <1>2 DEF MergedWith
<1>4. \A s : s \in RowsOf(t, person) <=> s \in In(t) /\ t[s].person = person
  BY DEF RowsOf
<1>5. r \in In(t) \/ r = 0
  BY <1>3, <1>4 DEF Existing
<1>6. 0 \notin In(t)
  BY <1>1, RowIs, CandidateAssumption
<1>7. CASE r # 0
  <2>1. r \in Rows /\ t[r] \in Candidate /\ r \in In(t)
    BY <1>1, <1>5, <1>7, RowIs
  <2>2. y \in RowReported(x, r, t[r], mailed)
    BY <1>3, <1>7
  <2>3. QED BY <2>1, <2>2, ReportedIs
<1>8. CASE r = 0
  <2>1. /\ person \in Keyed => RowsOf(t, person) = {}
        /\ \A s \in RowsOf(t, person) : ~(provider /\ t[s].ref)
    BY <1>3, <1>4, <1>6, <1>8 DEF Existing
  <2>2. PICK ref \in {FALSE, provider} :
          /\ FreeRows(t) # {}
          /\ y \in RowReported(x, Lowest(FreeRows(t)), NewRow(person, ref), mailed)
    <3>1. y \in Inserted(x, person, provider, mailed)
      BY <1>3, <1>8
    <3>2. FreeRows(t) # {}
      BY <3>1 DEF Inserted
    <3>3. QED BY <3>1, <3>2 DEF Inserted
  <2> DEFINE free == Lowest(FreeRows(t))
             new == NewRow(person, ref)
  <2>3. free \in FreeRows(t)
    <3>1. FreeRows(t) \subseteq Rows
      BY DEF FreeRows
    <3>2. QED BY <2>2, <3>1, LowestIs
  <2>4. free \in Rows /\ t[free] = NoRow /\ contacts[free] = NoRow
    BY <2>3 DEF FreeRows
  <2>5. new \in Candidate /\ new.person = person /\ new.ref = ref
    <3>1. 0 \in 0 .. Limit
      BY CandidateAssumption
    <3>2. {FALSE, provider} \subseteq BOOLEAN
      OBVIOUS
    <3>3. ref \in BOOLEAN
      BY <3>2
    <3>4. QED BY <3>1, <3>3, CandidateAssumption DEF NewRow, Candidate, Mails
  <2>6. \A s \in In(t) : t[s].person = person => person \notin Keyed /\ ~(t[s].ref /\ ref)
    BY <1>4, <2>1
  <2>7. y \in RowReported(x, free, new, mailed)
    BY <2>2
  <2> HIDE DEF free, new
  <2>8. QED BY <2>4, <2>5, <2>6, <2>7, ReportedIs
<1>9. QED BY <1>7, <1>8

-----------------------------------------------------------------------------
Mailbag == [table : Table, left : Int, asked : SUBSET Rows, told : SUBSET Rows]

(* What email operations on t may come to: who was answered has a stamp,   *)
(* and who was asked about, unforced, had none.                            *)
Mailings(t, force) ==
  {x \in Mailbag :
     /\ SameRows(t, x.table) /\ SameReviews(t, x.table)
     /\ \A r \in x.asked : r \in In(t) /\ (force \/ ~t[r].tried)
     /\ \A r \in x.told : r \in In(t) /\ x.table[r].tried}

LEMMA MailingIs ==
  ASSUME NEW t \in Table, NEW force
  PROVE  Mailing(t) \in Mailings(t, force)
<1>1. EmailBudget \in Int
  BY CandidateAssumption
<1>2. QED BY <1>1 DEF Mailing, Mailings, Mailbag, SameRows, SameReviews

(* One row of a table gets another stamp or address.                       *)
RowMailed(t, r, stamp, m) == [t EXCEPT ![r] = [t[r] EXCEPT !.tried = stamp, !.mail = m]]

LEMMA OneRowMailed ==
  ASSUME NEW t \in Table, NEW r \in In(t), NEW stamp \in BOOLEAN, t[r].tried = TRUE => stamp = TRUE,
         NEW m \in Mails, NEW x, x = RowMailed(t, r, stamp, m)
  PROVE  /\ x \in Table /\ SameRows(t, x) /\ SameReviews(t, x)
         /\ stamp = TRUE => x[r].tried
<1> DEFINE put == [t[r] EXCEPT !.tried = stamp, !.mail = m]
<1>1. r \in Rows /\ t[r] \in Candidate
  BY RowIs
<1>2. /\ put \in Candidate /\ put.person = t[r].person /\ put.ref = t[r].ref
      /\ put.review = t[r].review /\ put.tried = stamp
  BY <1>1 DEF Candidate
<1> HIDE DEF put
<1>3. x \in Table /\ \A s \in Rows : x[s] = IF s = r THEN put ELSE t[s]
  BY <1>1, <1>2 DEF Table, put, RowMailed
<1>4. In(x) = In(t)
  BY <1>1, <1>2, <1>3, RowIs, CandidateAssumption DEF In
<1>5. \A s \in In(t) : /\ x[s].person = t[s].person /\ x[s].ref = t[s].ref
                       /\ x[s].review = t[s].review /\ (t[s].tried => x[s].tried)
  BY <1>2, <1>3, RowIs
<1>6. QED BY <1>1, <1>2, <1>3, <1>4, <1>5, RowIs DEF SameRows, SameReviews

LEMMA FoundIs ==
  ASSUME NEW t \in Table, NEW force \in BOOLEAN, NEW x \in Mailings(t, force), NEW r \in In(t),
         force \/ ~x.table[r].tried, NEW y \in Found(x, r)
  PROVE  y \in Mailings(t, force)
<1>1. /\ x \in Mailbag /\ SameRows(t, x.table) /\ SameReviews(t, x.table)
      /\ \A s \in x.asked : s \in In(t) /\ (force \/ ~t[s].tried)
      /\ \A s \in x.told : s \in In(t) /\ x.table[s].tried
  BY DEF Mailings
<1>2. /\ x.table \in Table /\ r \in In(x.table) /\ r \in Rows
      /\ x.table[r] \in Candidate /\ x.left - 1 \in Int
      /\ x.asked \cup {r} \in SUBSET Rows /\ x.told \cup {r} \in SUBSET Rows
      /\ \A s \in x.asked \cup {r} : s \in In(t) /\ (force \/ ~t[s].tried)
  BY <1>1, RowIs DEF Mailbag, SameRows
<1> DEFINE spent == [x EXCEPT !.left = @ - 1, !.asked = @ \cup {r}]
<1>3. /\ spent \in Mailbag /\ spent.table = x.table /\ spent.told = x.told
      /\ spent.asked = x.asked \cup {r}
  BY <1>1, <1>2 DEF Mailbag
<1>4. CASE y = spent
  <2> HIDE DEF spent
  <2>1. QED BY <1>1, <1>2, <1>3, <1>4 DEF Mailings
<1>5. CASE \E m \in Mails :
        y = [spent EXCEPT !.told = @ \cup {r}, !.table[r].tried = TRUE,
                          !.table[r].mail = m]
  <2>1. PICK m \in Mails :
          y = [spent EXCEPT !.told = @ \cup {r}, !.table[r].tried = TRUE,
                            !.table[r].mail = m]
    BY <1>5
  <2> DEFINE put == [x.table EXCEPT ![r] = [x.table[r] EXCEPT !.tried = TRUE, !.mail = m]]
  <2> HIDE DEF spent
  <2>2. y = [spent EXCEPT !.told = spent.told \cup {r}, !.table = put]
    BY <1>2, <1>3, <2>1 DEF Table
  <2>3. /\ put \in Table /\ SameRows(x.table, put) /\ SameReviews(x.table, put)
        /\ put[r].tried
    <3> DEFINE tab == x.table
    <3>1. tab \in Table /\ r \in In(tab) /\ m \in Mails /\ (tab[r].tried = TRUE => TRUE = TRUE)
      BY <1>2, <2>1
    <3>2. put = RowMailed(tab, r, TRUE, m)
      BY DEF RowMailed
    <3>3. TRUE \in BOOLEAN
      OBVIOUS
    <3> HIDE DEF tab, put
    <3>4. /\ put \in Table /\ SameRows(tab, put) /\ SameReviews(tab, put)
          /\ put[r].tried
      BY <3>1, <3>2, <3>3, OneRowMailed
    <3>5. QED BY <3>4 DEF tab
  <2> HIDE DEF put
  <2>4. /\ y \in Mailbag /\ y.table = put /\ y.told = x.told \cup {r}
        /\ y.asked = x.asked \cup {r}
    BY <1>2, <1>3, <2>2, <2>3 DEF Mailbag
  <2>5. SameRows(t, put) /\ SameReviews(t, put)
    BY <1>1, <2>3, SameAgain
  <2>6. \A s \in y.told : s \in In(t) /\ put[s].tried
    BY <1>1, <1>2, <2>3, <2>4 DEF SameRows
  <2>7. QED BY <1>2, <2>4, <2>5, <2>6 DEF Mailings
<1>6. y = spent \/ \E m \in Mails :
        y = [spent EXCEPT !.told = @ \cup {r}, !.table[r].tried = TRUE,
                          !.table[r].mail = m]
  <2>1. {x.table[r].mail, "UNKNOWN", "VALID"} \subseteq Mails
    BY <1>2 DEF Candidate, Mails
  <2>2. QED BY <2>1 DEF Found
<1>7. QED BY <1>4, <1>5, <1>6

LEMMA VerifiedIs ==
  ASSUME NEW t \in Table, NEW force, NEW x \in Mailings(t, force), NEW r \in In(t),
         NEW y \in Verified(x, r)
  PROVE  y \in Mailings(t, force)
<1>1. /\ x \in Mailbag /\ SameRows(t, x.table) /\ SameReviews(t, x.table)
      /\ \A s \in x.asked : s \in In(t) /\ (force \/ ~t[s].tried)
      /\ \A s \in x.told : s \in In(t) /\ x.table[s].tried
  BY DEF Mailings
<1>2. /\ x.table \in Table /\ r \in In(x.table) /\ r \in Rows
      /\ x.table[r] \in Candidate /\ x.left - 1 \in Int
  BY <1>1, RowIs DEF Mailbag, SameRows
<1>3. PICK m \in Mails : y = [x EXCEPT !.left = @ - 1, !.table[r].mail = m]
  <2>1. {"UNVERIFIABLE", "INVALID", "VALID", x.table[r].mail} \subseteq Mails
    BY <1>2 DEF Candidate, Mails
  <2>2. QED BY <2>1 DEF Verified
<1> DEFINE stamp == x.table[r].tried
           put == [x.table EXCEPT ![r] = [x.table[r] EXCEPT !.tried = stamp, !.mail = m]]
<1>4. [x.table[r] EXCEPT !.tried = stamp, !.mail = m] = [x.table[r] EXCEPT !.mail = m]
  BY <1>2 DEF Candidate
<1>5. y = [x EXCEPT !.left = x.left - 1, !.table = put]
  BY <1>2, <1>3, <1>4 DEF Table, Mailbag
<1>6. stamp \in BOOLEAN /\ (x.table[r].tried = TRUE => stamp = TRUE)
  BY <1>2 DEF Candidate
<1>7. /\ put \in Table /\ SameRows(x.table, put) /\ SameReviews(x.table, put)
     
  <2> DEFINE tab == x.table
  <2>1. tab \in Table /\ r \in In(tab) /\ m \in Mails /\ (tab[r].tried = TRUE => stamp = TRUE)
    BY <1>2, <1>3
  <2>2. put = RowMailed(tab, r, stamp, m)
    BY DEF RowMailed
  <2> HIDE DEF tab, put, stamp
  <2>3. /\ put \in Table /\ SameRows(tab, put) /\ SameReviews(tab, put)
       
    BY <1>6, <2>1, <2>2, OneRowMailed
  <2>4. QED BY <2>3 DEF tab
<1> HIDE DEF put
<1>8. /\ y \in Mailbag /\ y.table = put /\ y.told = x.told /\ y.asked = x.asked
  BY <1>1, <1>2, <1>5, <1>7 DEF Mailbag
<1>9. SameRows(t, put) /\ SameReviews(t, put)
  BY <1>1, <1>7, SameAgain
<1>10. \A s \in y.told : s \in In(t) /\ put[s].tried
  BY <1>1, <1>7, <1>8 DEF SameRows
<1>11. QED BY <1>1, <1>8, <1>9, <1>10 DEF Mailings

LEMMA MailedIs ==
  ASSUME NEW t \in Table, NEW force \in BOOLEAN, NEW x \in Mailings(t, force), NEW r \in In(t),
         NEW y \in Mailed(x, r, force)
  PROVE  y \in Mailings(t, force)
<1>1. PICK z : /\ z = x \/ (z \in Found(x, r) /\ (force \/ ~x.table[r].tried))
               /\ y = z \/ y \in Verified(z, r)
  BY DEF Mailed
<1>2. z \in Mailings(t, force)
  BY <1>1, FoundIs
<1>3. QED BY <1>1, <1>2, VerifiedIs

-----------------------------------------------------------------------------
LEMMA MeritIs ==
  ASSUME NEW c, c.status \in Rankable
  PROVE  Merit(c) \in Nat
BY DEF Merit, Rankable, StatusOrder

(* The ranks of those who have one are the numbers from 1 on.              *)
LEMMA RanksRun ==
  ASSUME NEW t \in Table, Agrees(t), NEW ranked, ranked = {r \in In(t) : t[r].rank # 0},
         NEW i \in 1 .. Cardinality(ranked)
  PROVE  \E r \in ranked : t[r].rank = i
<1> DEFINE S == {r \in In(t) : t[r].status \in Rankable}
           Before(x, y) == \/ Merit(t[x]) < Merit(t[y])
                           \/ Merit(t[x]) = Merit(t[y]) /\ x < y
           R == {e \in S \X S : Before(e[1], e[2])}
           n == Cardinality(S)
           better(r) == {s \in S : <<s, r>> \in R}
<1>1. IsFiniteSet(S) /\ S \subseteq In(t) /\ S \subseteq Nat /\ n \in Nat
  <2>1. S \subseteq In(t)
    OBVIOUS
  <2>2. IsFiniteSet(S) /\ S \subseteq Rows
    BY <2>1, RowIs, FS_Subset
  <2>3. QED BY <2>1, <2>2, CandidateAssumption, FS_CardinalityType
<1>2. \A r \in S : Merit(t[r]) \in Nat
  BY MeritIs
<1>3. \A x, y \in S : <<x, y>> \in R <=> Before(x, y)
  OBVIOUS
<1>4. Orders(R, S)
  <2> HIDE DEF S, R
  <2>1. QED BY <1>1, <1>2, <1>3 DEF Orders
<1>5. PICK f \in [1 .. n -> S] : \A a, b \in 1 .. n : a < b => <<f[a], f[b]>> \in R
  <2> HIDE DEF S, R
  <2>1. QED BY <1>1, <1>4, SequenceExists
<1>6. \A r \in S : t[r].rank = IF Cardinality(better(r)) < Limit
                               THEN 1 + Cardinality(better(r)) ELSE 0
  <2> SUFFICES ASSUME NEW r \in S
               PROVE  t[r].rank = IF Cardinality(better(r)) < Limit
                                  THEN 1 + Cardinality(better(r)) ELSE 0
    OBVIOUS
  <2>1. better(r) = {s \in In(t) :
                       /\ t[s].status \in Rankable
                       /\ \/ Merit(t[s]) < Merit(t[r])
                          \/ Merit(t[s]) = Merit(t[r]) /\ s < r}
    BY <1>3
  <2>2. r \in In(t) /\ t[r].status \in Rankable /\ t[r].rank = RankOf(t, r)
    BY DEF Agrees
  <2> HIDE DEF better
  <2>3. QED BY <2>1, <2>2 DEF RankOf
<1>7. \A r \in In(t) \ S : t[r].rank = 0
  BY DEF Agrees, RankOf
<1> HIDE DEF S, R
<1>8. \A a, b \in 1 .. n : f[a] = f[b] => a = b
  <2> SUFFICES ASSUME NEW a \in 1 .. n, NEW b \in 1 .. n, f[a] = f[b], a # b PROVE FALSE
    OBVIOUS
  <2>1. a < b \/ b < a
    BY <1>1
  <2>2. f[a] \in S /\ <<f[a], f[a]>> \in R
    BY <1>5, <2>1
  <2>3. QED BY <1>4, <2>2 DEF Orders
<1>9. \A s \in S : \E a \in 1 .. n : f[a] = s
  <2> DEFINE T == {f[a] : a \in DOMAIN f}
  <2>1. IsFiniteSet(1 .. n) /\ Cardinality(1 .. n) = n /\ DOMAIN f = 1 .. n
    BY <1>1, <1>5, FS_Interval
  <2>2. f = [a \in DOMAIN f |-> f[a]] /\ \A a, b \in DOMAIN f : f[a] = f[b] => a = b
    BY <1>5, <1>8
  <2>3. Cardinality(T) = n
    <3>1. T = {f[a] : a \in DOMAIN f}
      OBVIOUS
    <3> HIDE DEF T
    <3>2. QED BY <2>1, <2>2, <3>1, ImageOfFinite
  <2>4. T \subseteq S
    BY <1>5
  <2>5. T = S
    <3> HIDE DEF T
    <3>1. QED BY <1>1, <2>3, <2>4, FS_Subset
  <2>6. QED BY <1>5, <2>5
<1>10. ASSUME NEW j \in 1 .. n
       PROVE  t[f[j]].rank = IF j - 1 < Limit THEN j ELSE 0
  <2> DEFINE g == [a \in 1 .. j - 1 |-> f[a]]
  <2>1. \A a \in 1 .. j - 1 : a \in 1 .. n /\ a < j
    BY <1>1
  <2>2. ASSUME NEW s \in S PROVE <<s, f[j]>> \in R <=> \E a \in 1 .. j - 1 : s = f[a]
    <3>1. PICK a \in 1 .. n : f[a] = s
      BY <1>9
    <3>2. ASSUME <<s, f[j]>> \in R PROVE a \in 1 .. j - 1
      <4>1. ~(j < a) /\ j # a
        BY <1>4, <1>5, <3>1, <3>2 DEF Orders
      <4>2. QED BY <1>1, <4>1
    <3>3. QED BY <1>5, <2>1, <3>1, <3>2
  <2>3. better(f[j]) = {g[a] : a \in DOMAIN g}
    <3>1. \A a \in 1 .. j - 1 : f[a] \in S
      BY <1>5, <2>1
    <3>2. QED BY <2>2, <3>1
  <2>4. DOMAIN g = 1 .. j - 1 /\ IsFiniteSet(DOMAIN g) /\ Cardinality(DOMAIN g) = j - 1
    <3>1. j - 1 \in Nat
      BY <1>1
    <3>2. IsFiniteSet(1 .. j - 1) /\ Cardinality(1 .. j - 1) = j - 1
      BY <3>1, FS_Interval
    <3>3. QED BY <3>2
  <2>5. /\ g = [a \in DOMAIN g |-> g[a]]
        /\ \A a, b \in DOMAIN g : g[a] = g[b] => a = b
    BY <1>8, <2>1
  <2> HIDE DEF g, better
  <2>6. Cardinality(better(f[j])) = j - 1
    BY <2>3, <2>4, <2>5, ImageOfFinite
  <2>7. f[j] \in S /\ j \in Nat
    BY <1>1, <1>5
  <2>8. QED BY <1>6, <2>6, <2>7, CandidateAssumption
<1>11. PICK k \in Nat : k = IF n < Limit THEN n ELSE Limit
  BY <1>1, CandidateAssumption
<1>12. /\ k <= n /\ k <= Limit
       /\ \A j \in 1 .. n : (j <= k => t[f[j]].rank = j) /\ (t[f[j]].rank # 0 => j <= k)
  BY <1>1, <1>10, <1>11, CandidateAssumption
<1>13. Cardinality(ranked) <= k
  <2> DEFINE g == [a \in 1 .. k |-> f[a]]
  <2>1. ranked = {g[a] : a \in DOMAIN g}
    <3>1. ASSUME NEW r \in ranked PROVE \E a \in 1 .. k : r = f[a]
      <4>1. r \in S
        BY <1>7
      <4>2. PICK a \in 1 .. n : f[a] = r
        BY <1>9, <4>1
      <4>3. QED BY <1>1, <1>11, <1>12, <4>2
    <3>2. ASSUME NEW a \in 1 .. k PROVE f[a] \in ranked
      <4>1. a \in 1 .. n /\ a <= k
        BY <1>1, <1>11, <1>12
      <4>2. f[a] \in S /\ t[f[a]].rank # 0
        BY <1>5, <1>12, <4>1
      <4>3. QED BY <1>1, <4>2
    <3>3. QED BY <3>1, <3>2
  <2>2. IsFiniteSet(DOMAIN g) /\ Cardinality(DOMAIN g) = k
    <3>1. k \in Nat
      BY <1>11
    <3>2. IsFiniteSet(1 .. k) /\ Cardinality(1 .. k) = k
      BY <3>1, FS_Interval
    <3>3. QED BY <3>2
  <2>3. g = [a \in DOMAIN g |-> g[a]]
    OBVIOUS
  <2> HIDE DEF g
  <2>4. QED BY <2>1, <2>2, <2>3, ImageOfFinite
<1>14. i \in 1 .. n /\ i <= k
  <2>1. Cardinality(ranked) \in Nat
    <3>1. ranked \subseteq In(t)
      OBVIOUS
    <3>2. QED BY <3>1, RowIs, FS_Subset, FS_CardinalityType
  <2>2. QED BY <1>1, <1>11, <1>12, <1>13, <2>1
<1>15. f[i] \in S /\ t[f[i]].rank = i /\ i # 0
  BY <1>5, <1>12, <1>14
<1>16. QED BY <1>1, <1>15

-----------------------------------------------------------------------------
(* What the phase makes of its possible results when it comes to row r.    *)
MailedAll(X, r, force) == UNION {Mailed(x, r, force) : x \in X}

(* What a request makes of what it has found when it merges a person.      *)
MergedAll(X, person, provider) == UNION {Merged(x, person, provider) : x \in X}

(* Every result of the email phase is one of Mailings.                     *)
LEMMA EmailPhaseIs ==
  ASSUME NEW t \in Table, Agrees(t), NEW force \in BOOLEAN
  PROVE  EmailPhase(t, force) \subseteq Mailings(t, force)
<1> DEFINE ranked == {r \in In(t) : t[r].rank # 0}
           N == 1 .. Cardinality(ranked)
           order == [i \in N |-> CHOOSE r \in ranked : t[r].rank = i]
           B == Mailings(t, force)
           Raw(f) ==
             f = [s \in SUBSET DOMAIN order |->
                    IF s = {} THEN {Mailing(t)}
                    ELSE MailedAll(f[s \ {Max(s)}], order[Max(s)], force)]
           it == CHOOSE f : Raw(f)
<1>1. EmailPhase(t, force) = it[DOMAIN order]
  BY DEF EmailPhase, FoldLeft, MapThenFoldSet, MailedAll
<1>2. DOMAIN order = N /\ N \subseteq Nat /\ IsFiniteSet(N)
  <2>1. Cardinality(ranked) \in Nat
    <3>1. ranked \subseteq In(t)
      OBVIOUS
    <3>2. QED BY <3>1, RowIs, FS_Subset, FS_CardinalityType
  <2> HIDE DEF ranked
  <2>2. QED BY <2>1, FS_Interval
<1>3. \A i \in N : order[i] \in In(t)
  <2> SUFFICES ASSUME NEW i \in N PROVE order[i] \in In(t)
    OBVIOUS
  <2>1. \E r \in ranked : t[r].rank = i
    BY RanksRun
  <2>2. order[i] \in ranked
    BY <2>1
  <2>3. QED BY <2>2
<1> HIDE DEF order, N
<1>4. \A s \in SUBSET N : s # {} => Max(s) \in s /\ Max(s) \in N
  <2>1. \A s \in SUBSET N : IsFiniteSet(s) /\ s \in SUBSET Nat
    BY <1>2, FS_Subset
  <2>2. QED BY <2>1, MaxIsLast
<1>5. \A i \in N : \A X \in SUBSET B : MailedAll(X, order[i], force) \in SUBSET B
  BY <1>3, MailedIs DEF MailedAll
<1>6. {Mailing(t)} \in SUBSET B
  BY MailingIs
<1>7. \E f : Raw(f)
  <2> DEFINE c == [s \in SUBSET N |-> Max(s)]
             g == [i \in N |-> [X \in SUBSET B |->
                                  MailedAll(X, order[i], force)]]
             v == {Mailing(t)}
             Q == [s \in SUBSET N |-> SUBSET B]
  <2>1. Picks(c, N) /\ \A s \in SUBSET N : c[s] = Max(s)
    BY <1>4 DEF Picks
  <2>2. \A i \in N : \A X \in SUBSET B :
          g[i][X] = MailedAll(X, order[i], force) /\ g[i][X] \in SUBSET B
    BY <1>5
  <2>3. v \in Q[{}] /\ \A s \in SUBSET N : Q[s] = SUBSET B
    BY <1>6
  <2> HIDE DEF c, g, v, B, Q
  <2>4. PICK f : Folds(f, c, g, v, N)
    BY <1>2, <2>1, FoldsExists
  <2>5. \A s \in SUBSET N : s # {} =>
          c[s] \in N /\ c[s] = Max(s) /\ s \ {c[s]} \in SUBSET N
    BY <2>1 DEF Picks
  <2>6. \A s \in SUBSET N : f[s] \in Q[s]
    <3>1. \A s \in SUBSET N : s # {} => \A w \in Q[s \ {c[s]}] : g[c[s]][w] \in Q[s]
      <4> SUFFICES ASSUME NEW s \in SUBSET N, s # {}, NEW w \in Q[s \ {c[s]}]
                   PROVE  g[c[s]][w] \in Q[s]
        OBVIOUS
      <4>1. c[s] \in N /\ s \ {c[s]} \in SUBSET N
        BY <2>5
      <4>2. w \in SUBSET B /\ Q[s] = SUBSET B
        BY <2>3, <4>1
      <4>3. QED BY <2>2, <4>1, <4>2
    <3>2. Picks(c, N) /\ v \in Q[{}]
      BY <2>1, <2>3
    <3>3. IsFiniteSet(N)
      BY <1>2
    <3>4. QED BY <2>4, <3>1, <3>2, <3>3, FoldKeeps
  <2>7. \A s \in SUBSET N : s # {} =>
          g[c[s]][f[s \ {c[s]}]]
            = MailedAll(f[s \ {Max(s)}], order[Max(s)], force)
    <3> SUFFICES ASSUME NEW s \in SUBSET N, s # {}
                 PROVE  g[c[s]][f[s \ {c[s]}]]
                          = MailedAll(f[s \ {Max(s)}], order[Max(s)], force)
      OBVIOUS
    <3>1. c[s] \in N /\ c[s] = Max(s) /\ f[s \ {c[s]}] \in SUBSET B
      BY <2>3, <2>5, <2>6
    <3>2. QED BY <2>2, <3>1
  <2>8. f = [s \in SUBSET N |->
               IF s = {} THEN {Mailing(t)}
               ELSE MailedAll(f[s \ {Max(s)}], order[Max(s)], force)]
    BY <2>4, <2>7 DEF Folds, v
  <2>9. QED BY <1>2, <2>8
<1>8. Raw(it)
  <2> HIDE DEF Raw
  <2>1. QED BY <1>7
<1> HIDE DEF it, B
<1> DEFINE R == {s \in SUBSET N : it[s] \in SUBSET B}
<1>9. ASSUME NEW s \in SUBSET N, \A x \in s : s \ {x} \in R PROVE s \in R
  <2>1. CASE s = {}
    BY <1>2, <1>6, <1>8, <2>1
  <2>2. CASE s # {}
    <3>1. it[s] = MailedAll(it[s \ {Max(s)}], order[Max(s)], force)
      BY <1>2, <1>8, <2>2
    <3>2. Max(s) \in N /\ it[s \ {Max(s)}] \in SUBSET B
      BY <1>4, <1>9, <2>2
    <3>3. it[s] \in SUBSET B
      BY <1>5, <3>1, <3>2
    <3>4. QED BY <3>3
  <2>3. QED BY <2>1, <2>2
<1>10. \A s \in SUBSET N : s \in R
  <2> HIDE DEF R
  <2>1. QED BY <1>2, <1>9, SmallerInduction
<1>11. QED BY <1>1, <1>2, <1>10 DEF B

(* Whatever a request observes, its table is grown from the snapshot.      *)
LEMMA ObservedIs ==
  ASSUME contacts \in Table, NEW b \in Table, NEW X \in SUBSET Findings(b),
         NEW people \in SUBSET People, NEW provider \in BOOLEAN
  PROVE  Observed(X, people, provider) \in SUBSET Findings(b)
<1> DEFINE B == Findings(b)
           Raw(f) ==
             f = [s \in SUBSET people |->
                    IF s = {} THEN X
                    ELSE MergedAll(f[s \ {Taken(s)}], Taken(s), provider)]
           it == CHOOSE f : Raw(f)
<1>1. Observed(X, people, provider) = it[people]
  BY DEF Observed, FoldSet, MapThenFoldSet, Taken, MergedAll
<1>2. IsFiniteSet(people)
  BY CandidateAssumption, FS_Subset
<1>3. \A s \in SUBSET people : s # {} => Taken(s) \in s /\ Taken(s) \in people
  BY TakenIsElement
<1>4. \A e \in people : \A T \in SUBSET B :
        MergedAll(T, e, provider) \in SUBSET B
  <2> SUFFICES ASSUME NEW e \in people, NEW x \in B, NEW y \in Merged(x, e, provider)
               PROVE  y \in B
    BY DEF MergedAll
  <2>1. e \in People
    OBVIOUS
  <2>2. QED BY <2>1, MergedIs
<1>5. X \in SUBSET B
  OBVIOUS
<1>6. \E f : Raw(f)
  <2> DEFINE c == [s \in SUBSET people |-> Taken(s)]
             g == [e \in people |-> [T \in SUBSET B |->
                                      MergedAll(T, e, provider)]]
             v == X
             Q == [s \in SUBSET people |-> SUBSET B]
  <2>1. Picks(c, people) /\ \A s \in SUBSET people : c[s] = Taken(s)
    BY <1>3 DEF Picks
  <2>2. \A e \in people : \A T \in SUBSET B :
          /\ g[e][T] = MergedAll(T, e, provider)
          /\ g[e][T] \in SUBSET B
    BY <1>4
  <2>3. v \in Q[{}] /\ \A s \in SUBSET people : Q[s] = SUBSET B
    BY <1>5
  <2> HIDE DEF c, g, v, B, Q
  <2>4. PICK f : Folds(f, c, g, v, people)
    BY <1>2, <2>1, FoldsExists
  <2>5. \A s \in SUBSET people : s # {} =>
          c[s] \in people /\ c[s] = Taken(s) /\ s \ {c[s]} \in SUBSET people
    BY <2>1 DEF Picks
  <2>6. \A s \in SUBSET people : f[s] \in Q[s]
    <3>1. \A s \in SUBSET people : s # {} => \A w \in Q[s \ {c[s]}] : g[c[s]][w] \in Q[s]
      <4> SUFFICES ASSUME NEW s \in SUBSET people, s # {}, NEW w \in Q[s \ {c[s]}]
                   PROVE  g[c[s]][w] \in Q[s]
        OBVIOUS
      <4>1. c[s] \in people /\ s \ {c[s]} \in SUBSET people
        BY <2>5
      <4>2. w \in SUBSET B /\ Q[s] = SUBSET B
        BY <2>3, <4>1
      <4>3. QED BY <2>2, <4>1, <4>2
    <3>2. Picks(c, people) /\ v \in Q[{}]
      BY <2>1, <2>3
    <3>3. QED BY <1>2, <2>4, <3>1, <3>2, FoldKeeps
  <2>7. \A s \in SUBSET people : s # {} =>
          g[c[s]][f[s \ {c[s]}]]
            = MergedAll(f[s \ {Taken(s)}], Taken(s), provider)
    <3> SUFFICES ASSUME NEW s \in SUBSET people, s # {}
                 PROVE  g[c[s]][f[s \ {c[s]}]]
                          = MergedAll(f[s \ {Taken(s)}], Taken(s), provider)
      OBVIOUS
    <3>1. c[s] \in people /\ c[s] = Taken(s) /\ s \ {c[s]} \in SUBSET people
      BY <2>5
    <3>2. f[s \ {c[s]}] \in SUBSET B
      <4>1. f[s \ {c[s]}] \in Q[s \ {c[s]}] /\ Q[s \ {c[s]}] = SUBSET B
        BY <2>3, <2>6, <3>1
      <4>2. QED BY <4>1
    <3>3. QED BY <2>2, <3>1, <3>2
  <2>8. f = [s \in SUBSET people |->
               IF s = {} THEN X
               ELSE MergedAll(f[s \ {Taken(s)}], Taken(s), provider)]
    BY <2>4, <2>7 DEF Folds, v
  <2>9. QED BY <2>8
<1>7. Raw(it)
  <2> HIDE DEF Raw
  <2>1. QED BY <1>6
<1> HIDE DEF it, B
<1> DEFINE R == {s \in SUBSET people : it[s] \in SUBSET B}
<1>8. ASSUME NEW s \in SUBSET people, \A e \in s : s \ {e} \in R PROVE s \in R
  <2>1. CASE s = {}
    BY <1>5, <1>7, <2>1
  <2>2. CASE s # {}
    <3>1. it[s] = MergedAll(it[s \ {Taken(s)}], Taken(s), provider)
      BY <1>7, <2>2
    <3>2. Taken(s) \in people /\ it[s \ {Taken(s)}] \in SUBSET B
      BY <1>3, <1>8, <2>2
    <3>3. it[s] \in SUBSET B
      BY <1>4, <3>1, <3>2
    <3>4. QED BY <3>3
  <2>3. QED BY <2>1, <2>2
<1>9. \A s \in SUBSET people : s \in R
  <2> HIDE DEF R
  <2>1. QED BY <1>2, <1>8, SmallerInduction
<1>10. QED BY <1>1, <1>9 DEF B

-----------------------------------------------------------------------------
ContactTypes ==
  /\ contacts \in Table /\ DOMAIN request = Users /\ landings \in 0 .. MaxLandings
  /\ agreed \in BOOLEAN /\ raced \in BOOLEAN /\ askedAgain \in BOOLEAN
  /\ answered \subseteq Rows

(* No row is ever deleted: a snapshot's rows are there.                    *)
SnapshotsKept ==
  \A u \in Users : request[u] # NoRequest =>
    request[u] \in Table /\ In(request[u]) \subseteq In(contacts)

(* Before the first race a person known by key or reference has one row,   *)
(* and an answer its stamp.                                                *)
NothingLost ==
  ~raced => /\ Unique(contacts)
            /\ \A r \in answered : r \in In(contacts) /\ contacts[r].tried = TRUE

ContactInv ==
  ContactTypes /\ SnapshotsKept /\ StatusesAgree /\ NothingLost /\ LookupsAreRemembered

LEMMA ContactInitial == ContactInit => ContactInv
<1> SUFFICES ASSUME ContactInit PROVE ContactInv
  OBVIOUS
<1>1. In(contacts) = {} /\ contacts \in Table
  BY DEF ContactInit, In, Table
<1>2. 0 \in 0 .. MaxLandings
  BY CandidateAssumption
<1>3. QED
  BY <1>1, <1>2 DEF ContactInit, ContactInv, ContactTypes, SnapshotsKept, StatusesAgree,
                NothingLost, LookupsAreRemembered, Unique

(* What landing makes of the table: view, if no one else has landed.       *)
LEMMA LandedIs ==
  ASSUME ContactInv, NEW u \in Users, Working(u), NEW view \in Table, Land(u, view),
         NEW base, base = request[u], Rowed(base, view, contacts)
  PROVE  /\ contacts' \in Table /\ In(contacts) \subseteq In(contacts')
         /\ SameReviews(base, view) =>
              \A r \in In(contacts) : contacts'[r].review = contacts[r].review
         /\ base = contacts => contacts' = view
<1>1. /\ contacts \in Table /\ base \in Table /\ In(base) \subseteq In(contacts)
      /\ contacts' = [r \in Rows |->
           IF view[r] = NoRow THEN contacts[r]
           ELSE IF base[r] = NoRow THEN view[r]
           ELSE RowWritten(base[r], view[r], contacts[r])]
  BY DEF Land, Working, ContactInv, ContactTypes, SnapshotsKept
<1>2. /\ \A r \in Rows : /\ r \in In(view) <=> view[r] # NoRow
                         /\ r \in In(base) <=> base[r] # NoRow
                         /\ r \in In(contacts) <=> contacts[r] # NoRow
      /\ In(view) \subseteq Rows /\ In(contacts) \subseteq Rows /\ In(base) \subseteq Rows
  BY <1>1, RowIs
<1>3. /\ In(base) \subseteq In(view)
      /\ \A r \in In(base) : view[r].person = base[r].person /\ view[r].ref = base[r].ref
      /\ \A r \in In(view) \ In(base) : contacts[r] = NoRow
  BY DEF Rowed
<1>4. ASSUME NEW r \in Rows
      PROVE  /\ contacts'[r] \in Candidate \cup {NoRow}
             /\ contacts[r] # NoRow => contacts'[r] \in Candidate
             /\ contacts[r] # NoRow /\ (r \in In(base) => view[r].review = base[r].review)
                  => contacts'[r].review = contacts[r].review
             /\ base = contacts => contacts'[r] = view[r]
  <2>1. CASE view[r] = NoRow
    <3>1. contacts'[r] = contacts[r] /\ r \notin In(base)
      BY <1>1, <1>2, <1>3, <2>1
    <3>2. QED BY <1>1, <1>2, <2>1, <3>1, RowIs
  <2>2. CASE view[r] # NoRow /\ base[r] = NoRow
    <3>1. contacts'[r] = view[r] /\ contacts[r] = NoRow /\ view[r] \in Candidate
      BY <1>1, <1>2, <1>3, <2>2, RowIs
    <3>2. QED BY <3>1
  <2>3. CASE view[r] # NoRow /\ base[r] # NoRow
    <3> DEFINE old == base[r]
               new == view[r]
               now == contacts[r]
    <3>1. /\ old \in Candidate /\ new \in Candidate /\ now \in Candidate
          /\ new.person = old.person /\ new.ref = old.ref /\ r \in In(base)
      BY <1>1, <1>2, <1>3, <2>3, RowIs
    <3>2. contacts'[r] = RowWritten(old, new, now)
      BY <1>1, <2>3
    <3>3. base = contacts => now = old
      OBVIOUS
    <3> HIDE DEF old, new, now
    <3>4. /\ RowWritten(old, new, now) \in Candidate
          /\ new.review = old.review => RowWritten(old, new, now).review = now.review
          /\ now = old => RowWritten(old, new, now) = new
      BY <3>1, RowWrittenIs
    <3>5. QED BY <3>1, <3>2, <3>3, <3>4 DEF old, new, now
  <2>4. QED BY <2>1, <2>2, <2>3
<1>5. contacts' \in Table
  <2>1. contacts' = [r \in Rows |-> contacts'[r]]
    BY <1>1
  <2>2. QED BY <1>4, <2>1 DEF Table
<1>6. In(contacts) \subseteq In(contacts')
  BY <1>2, <1>4, <1>5, RowIs
<1>7. SameReviews(base, view) =>
        \A r \in In(contacts) : contacts'[r].review = contacts[r].review
  BY <1>2, <1>4 DEF SameReviews
<1>8. base = contacts => contacts' = view
  BY <1>4, <1>5 DEF Table
<1>9. QED BY <1>5, <1>6, <1>7, <1>8

LEMMA LandKeeps ==
  ASSUME ContactInv, NEW u \in Users, Working(u), NEW view \in Table, Land(u, view),
         NEW base, base = request[u], Rowed(base, view, contacts), Agrees(view),
         answered' \subseteq Rows, askedAgain' \in BOOLEAN,
         base = contacts /\ ~raced =>
           /\ \A r \in answered' : r \in In(view) /\ view[r].tried = TRUE
           /\ askedAgain' => askedAgain
  PROVE  ContactInv'
<1>1. /\ contacts' \in Table /\ In(contacts) \subseteq In(contacts')
      /\ base = contacts => contacts' = view
  BY LandedIs
<1>2. /\ request' = [request EXCEPT ![u] = NoRequest] /\ landings' = landings + 1
      /\ agreed' = (base = contacts) /\ raced' = (raced \/ base # contacts)
      /\ landings < MaxLandings
  BY DEF Land, Working
<1>3. agreed' \in BOOLEAN /\ raced' \in BOOLEAN
  <2>1. CASE base = contacts
    <3>1. agreed' = TRUE /\ (raced' = raced)
      BY <1>2, <2>1 DEF ContactInv, ContactTypes
    <3>2. QED BY <3>1 DEF ContactInv, ContactTypes
  <2>2. CASE base # contacts
    <3>1. agreed' = FALSE /\ raced' = TRUE
      BY <1>2, <2>2
    <3>2. QED BY <3>1
  <2>3. QED BY <2>1, <2>2
<1>4. ContactTypes'
  BY <1>1, <1>2, <1>3, CandidateAssumption DEF ContactInv, ContactTypes
<1>5. SnapshotsKept'
  <2>1. \A v \in Users : request'[v] # NoRequest => request'[v] = request[v] \/ v = u
    BY <1>2 DEF ContactInv, ContactTypes
  <2>2. request'[u] = NoRequest
    BY <1>2 DEF ContactInv, ContactTypes
  <2>3. QED BY <1>1, <2>1, <2>2 DEF ContactInv, SnapshotsKept
<1>6. StatusesAgree'
  <2>1. agreed' => contacts' = view
    BY <1>1, <1>2
  <2>2. agreed' => Agrees(contacts')
    BY <2>1
  <2>3. QED BY <2>2 DEF Agrees, StatusesAgree
<1>7. ~raced' => ~raced /\ base = contacts /\ contacts' = view
  BY <1>1, <1>2
<1>8. NothingLost'
  <2> SUFFICES ASSUME ~raced'
               PROVE  /\ Unique(contacts')
                      /\ \A r \in answered' : r \in In(contacts') /\ contacts'[r].tried = TRUE
    BY DEF NothingLost, Unique
  <2>1. ~raced /\ base = contacts /\ contacts' = view
    BY <1>7
  <2>2. Unique(base)
    BY <2>1 DEF ContactInv, NothingLost
  <2>3. Unique(view)
    BY <2>2 DEF Rowed
  <2>4. QED BY <2>1, <2>3
<1>9. LookupsAreRemembered'
  BY <1>7 DEF ContactInv, LookupsAreRemembered
<1>10. QED BY <1>4, <1>5, <1>6, <1>8, <1>9 DEF ContactInv

-----------------------------------------------------------------------------
ReviewsKept == \A r \in In(contacts) : contacts'[r].review = contacts[r].review

LEMMA DiscoverKeeps ==
  ASSUME ContactInv, NEW u \in Users, NEW web \in SUBSET People, NEW provider \in SUBSET People,
         NEW force \in BOOLEAN, DiscoverPeople(u, web, provider, force)
  PROVE  ContactInv' /\ ReviewsKept
<1> DEFINE base == request[u]
           people == web \cup provider
<1>1. /\ base \in Table /\ contacts \in Table /\ Working(u) /\ people \in SUBSET People
      /\ answered \subseteq Rows /\ askedAgain \in BOOLEAN
  BY DEF DiscoverPeople, Working, ContactInv, ContactTypes, SnapshotsKept
<1>2. PICK merged \in Observed(Observed({[table |-> request[u], seen |-> {}]}, web, FALSE),
                               provider, TRUE) :
        \E resolved \in Resolved(merged.table,
                                 IF force THEN In(merged.table) ELSE merged.seen) :
          \/ /\ provider = {} /\ \E view \in {Evaluated(resolved)} : Land(u, view)
             /\ UNCHANGED <<answered, askedAgain>>
          \/ \E x \in UNION {EmailPhase(t, force) : t \in {Evaluated(resolved)}} :
               /\ \E view \in {Evaluated(x.table)} : Land(u, view)
               /\ answered' = IF force THEN answered ELSE answered \cup x.told
               /\ askedAgain' = (askedAgain \/ (~force /\ x.asked \cap answered # {}))
  BY DEF DiscoverPeople
<1>3. PICK resolved \in Resolved(merged.table,
                                IF force THEN In(merged.table) ELSE merged.seen) :
        \/ /\ provider = {} /\ \E view \in {Evaluated(resolved)} : Land(u, view)
           /\ UNCHANGED <<answered, askedAgain>>
        \/ \E x \in UNION {EmailPhase(t, force) : t \in {Evaluated(resolved)}} :
             /\ \E view \in {Evaluated(x.table)} : Land(u, view)
             /\ answered' = IF force THEN answered ELSE answered \cup x.told
             /\ askedAgain' = (askedAgain \/ (~force /\ x.asked \cap answered # {}))
  BY <1>2
<1>4. merged.table \in Table /\ Grown(base, merged.table, contacts)
  <2> DEFINE first == {[table |-> base, seen |-> {}]}
             shown == Observed(first, web, FALSE)
  <2>1. first \in SUBSET Findings(base)
    <3>1. Grown(base, base, contacts)
      BY DEF Grown, Rowed, SameReviews
    <3>2. QED BY <1>1, <3>1 DEF Findings
  <2>2. web \in SUBSET People /\ provider \in SUBSET People
    OBVIOUS
  <2>3. shown \in SUBSET Findings(base)
    <3> HIDE DEF first, base
    <3>1. QED BY <1>1, <2>1, <2>2, ObservedIs
  <2>4. merged \in Observed(shown, provider, TRUE)
    BY <1>2
  <2> HIDE DEF shown, base
  <2>5. merged \in Findings(base)
    BY <1>1, <2>2, <2>3, <2>4, ObservedIs
  <2>6. QED BY <2>5 DEF Findings
<1>5. resolved \in Table /\ Grown(base, resolved, contacts)
  <2>1. /\ resolved \in Table /\ SameRows(merged.table, resolved)
        /\ SameReviews(merged.table, resolved)
    BY <1>4, ResolvedIs
  <2>2. QED BY <1>4, <2>1, GrownSame
<1> DEFINE e == Evaluated(resolved)
<1>6. e \in Table /\ Agrees(e) /\ Grown(base, e, contacts)
  BY <1>5, EvaluatedIs, GrownSame
<1> HIDE DEF people, e
<1>7. \A r \in answered : base = contacts /\ ~raced => r \in In(base) /\ base[r].tried = TRUE
  BY DEF ContactInv, NothingLost
<1>8. CASE Land(u, e) /\ UNCHANGED <<answered, askedAgain>>
  <2>1. Rowed(base, e, contacts) /\ SameReviews(base, e)
    BY <1>6 DEF Grown
  <2>2. \A r \in In(base) : base[r].tried = TRUE => r \in In(e) /\ e[r].tried = TRUE
    <3>1. \A r \in In(e) : e[r].tried \in BOOLEAN
      BY <1>6, RowIs DEF Candidate
    <3>2. QED BY <2>1, <3>1 DEF Rowed
  <2>3. /\ answered' \subseteq Rows /\ askedAgain' \in BOOLEAN
        /\ base = contacts /\ ~raced =>
             /\ \A r \in answered' : r \in In(e) /\ e[r].tried = TRUE
             /\ askedAgain' => askedAgain
    BY <1>1, <1>7, <1>8, <2>2
  <2> HIDE DEF base
  <2>4. ContactInv'
    BY <1>1, <1>6, <1>8, <2>1, <2>3, LandKeeps DEF base
  <2>5. ReviewsKept
    BY <1>1, <1>6, <1>8, <2>1, LandedIs DEF ReviewsKept, base
  <2>6. QED BY <2>4, <2>5
<1>9. ASSUME NEW x \in EmailPhase(e, force), Land(u, Evaluated(x.table)),
             answered' = IF force THEN answered ELSE answered \cup x.told,
             askedAgain' = (askedAgain \/ (~force /\ x.asked \cap answered # {}))
      PROVE  ContactInv' /\ ReviewsKept
  <2> DEFINE view == Evaluated(x.table)
  <2>1. /\ x \in Mailbag /\ SameRows(e, x.table) /\ SameReviews(e, x.table)
        /\ \A r \in x.asked : r \in In(e) /\ (force \/ ~e[r].tried)
        /\ \A r \in x.told : r \in In(e) /\ x.table[r].tried
    BY <1>6, EmailPhaseIs DEF Mailings
  <2>2. x.table \in Table /\ x.told \subseteq Rows
    BY <2>1 DEF Mailbag
  <2>3. /\ view \in Table /\ Agrees(view)
        /\ SameRows(x.table, view) /\ SameReviews(x.table, view)
    BY <2>2, EvaluatedIs
  <2> HIDE DEF view
  <2>4. Rowed(base, view, contacts) /\ SameReviews(base, view)
    <3>1. Grown(base, x.table, contacts)
      BY <1>6, <2>1, GrownSame
    <3>2. Grown(base, view, contacts)
      BY <2>3, <3>1, GrownSame
    <3>3. QED BY <3>2 DEF Grown
  <2>5. \A r \in In(base) :
          base[r].tried = TRUE => /\ r \in In(view) /\ view[r].tried = TRUE
                                  /\ r \in In(e) /\ e[r].tried = TRUE
    <3>1. /\ \A r \in In(view) : view[r].tried \in BOOLEAN
          /\ \A r \in In(e) : e[r].tried \in BOOLEAN
      BY <1>6, <2>3, RowIs DEF Candidate
    <3>2. QED BY <1>6, <2>4, <3>1 DEF Grown, Rowed
  <2>6. \A r \in x.told : r \in In(view) /\ view[r].tried = TRUE
    <3>1. \A r \in In(view) : view[r].tried \in BOOLEAN
      BY <2>3, RowIs DEF Candidate
    <3>2. QED BY <2>1, <2>3, <3>1 DEF SameRows
  <2>7. answered' \subseteq Rows
    BY <1>1, <1>9, <2>2
  <2>8. askedAgain' \in BOOLEAN
    <3>1. CASE ~force /\ x.asked \cap answered # {}
      <4>1. askedAgain' = TRUE
        BY <1>9, <3>1
      <4>2. QED BY <4>1
    <3>2. CASE ~(~force /\ x.asked \cap answered # {})
      <4>1. askedAgain' = askedAgain
        BY <1>1, <1>9, <3>2
      <4>2. QED BY <1>1, <4>1
    <3>3. QED BY <3>1, <3>2
  <2>9. ASSUME base = contacts /\ ~raced
        PROVE  /\ \A r \in answered' : r \in In(view) /\ view[r].tried = TRUE
               /\ askedAgain' => askedAgain
    <3>1. \A r \in answered : r \in In(base) /\ base[r].tried = TRUE
      BY <1>7, <2>9
    <3>2. \A r \in answered' : r \in answered \/ r \in x.told
      BY <1>9
    <3>3. \A r \in answered' : r \in In(view) /\ view[r].tried = TRUE
      BY <2>5, <2>6, <3>1, <3>2
    <3>4. ~force => x.asked \cap answered = {}
      <4>1. \A r \in answered : e[r].tried
        BY <2>5, <3>1
      <4>2. ~force => \A r \in x.asked : ~e[r].tried
        BY <2>1
      <4>3. QED BY <4>1, <4>2
    <3>5. askedAgain' => askedAgain
      BY <1>9, <3>4
    <3>6. QED BY <3>3, <3>5
  <2>10. Land(u, view)
    BY <1>9 DEF view
  <2> HIDE DEF base
  <2>11. ContactInv'
    BY <1>1, <2>3, <2>4, <2>7, <2>8, <2>9, <2>10, LandKeeps DEF base
  <2>12. ReviewsKept
    BY <1>1, <2>3, <2>4, <2>10, LandedIs DEF ReviewsKept, base
  <2>13. QED BY <2>11, <2>12
<1>10. QED BY <1>3, <1>8, <1>9 DEF e

(* A request of a user about row r: after what it has made of the table it *)
(* evaluates everyone.                                                     *)
LEMMA ReevaluatedKeeps ==
  ASSUME ContactInv, NEW u \in Users, Working(u), NEW t \in Table, SameRows(request[u], t),
         NEW r, NEW view \in Reevaluated(t, r), Land(u, view), UNCHANGED <<answered, askedAgain>>
  PROVE  /\ ContactInv'
         /\ SameReviews(request[u], t) => ReviewsKept
<1> DEFINE base == request[u]
<1>1. /\ base \in Table /\ contacts \in Table /\ answered \subseteq Rows
      /\ askedAgain \in BOOLEAN
  BY DEF Working, ContactInv, ContactTypes, SnapshotsKept
<1>2. PICK x : (x = t \/ x \in Resolved(t, {r})) /\ view = Evaluated(x)
  BY DEF Reevaluated
<1>3. x \in Table /\ SameRows(t, x) /\ SameReviews(t, x)
  <2>1. CASE x = t
    BY <2>1 DEF SameRows, SameReviews
  <2>2. CASE x \in Resolved(t, {r})
    BY <2>2, ResolvedIs
  <2>3. QED BY <1>2, <2>1, <2>2
<1>4. /\ view \in Table /\ Agrees(view)
      /\ SameRows(x, view) /\ SameReviews(x, view)
  BY <1>2, <1>3, EvaluatedIs
<1>5. SameRows(base, view) /\ (SameReviews(base, t) => SameReviews(base, view))
  <2>1. SameRows(base, x) /\ (SameReviews(base, t) => SameReviews(base, x))
    BY <1>3, SameAgain
  <2>2. QED BY <1>4, <2>1, SameAgain
<1>6. Rowed(base, view, contacts)
  <2>1. Rowed(base, base, contacts)
    BY DEF Rowed
  <2>2. QED BY <1>5, <2>1, RowedSame
<1>7. answered' \subseteq Rows /\ askedAgain' \in BOOLEAN
  BY <1>1
<1>8. base = contacts /\ ~raced =>
        /\ \A s \in answered' : s \in In(view) /\ view[s].tried = TRUE
        /\ askedAgain' => askedAgain
  <2>1. \A s \in answered : base = contacts /\ ~raced => s \in In(base) /\ base[s].tried = TRUE
    BY DEF ContactInv, NothingLost
  <2>2. \A s \in In(view) : view[s].tried \in BOOLEAN
    BY <1>4, RowIs DEF Candidate
  <2>3. QED BY <1>5, <2>1, <2>2 DEF SameRows
<1> HIDE DEF base
<1>9. ContactInv'
  BY <1>4, <1>6, <1>7, <1>8, LandKeeps DEF base
<1>10. SameReviews(base, t) => ReviewsKept
  BY <1>4, <1>5, <1>6, LandedIs DEF ReviewsKept, base
<1>11. QED BY <1>9, <1>10 DEF base

LEMMA ReviewKeeps ==
  ASSUME ContactInv, NEW u \in Users, NEW r \in Rows, NEW verdict \in {"NONE", "APPROVED", "EXCLUDED"},
         ReviewContact(u, r, verdict)
  PROVE  ContactInv'
<1> DEFINE base == request[u]
           put == [base[r] EXCEPT !.review = verdict]
           t == [base EXCEPT ![r].review = verdict]
<1>1. base \in Table /\ r \in In(base) /\ Working(u)
  BY DEF ReviewContact, Working, ContactInv, SnapshotsKept
<1>2. PICK view \in Reevaluated(t, r) : Land(u, view) /\ UNCHANGED <<answered, askedAgain>>
  BY DEF ReviewContact
<1>3. base[r] \in Candidate
  BY <1>1, RowIs
<1>4. put \in Candidate /\ put.person = base[r].person /\ put.ref = base[r].ref
      /\ put.tried = base[r].tried
  BY <1>3 DEF Candidate
<1>5. t = [base EXCEPT ![r] = put]
  OBVIOUS
<1> HIDE DEF base, put, t
<1>6. t \in Table /\ \A s \in Rows : t[s] = IF s = r THEN put ELSE base[s]
  BY <1>1, <1>4, <1>5 DEF Table
<1>7. In(t) = In(base)
  BY <1>1, <1>4, <1>6, RowIs, CandidateAssumption DEF In
<1>8. SameRows(base, t)
  <2>1. In(base) \subseteq Rows
    BY <1>1, RowIs
  <2>2. QED BY <1>4, <1>6, <1>7, <2>1 DEF SameRows
<1>9. QED BY <1>1, <1>2, <1>6, <1>8, ReevaluatedKeeps DEF base

LEMMA MailKeeps ==
  ASSUME ContactInv, NEW u \in Users, NEW r \in Rows, MailContact(u, r)
  PROVE  ContactInv' /\ ReviewsKept
<1> DEFINE t == request[u]
<1>1. t \in Table /\ r \in In(t) /\ Working(u)
  BY DEF MailContact, Working, ContactInv, SnapshotsKept
<1>2. PICK x : /\ x \in Found(Mailing(t), r) \/ x \in Verified(Mailing(t), r)
               /\ \E view \in Reevaluated(x.table, r) : Land(u, view)
               /\ UNCHANGED <<answered, askedAgain>>
  BY DEF MailContact
<1>3. x \in Mailings(t, TRUE)
  <2> HIDE DEF t
  <2>1. Mailing(t) \in Mailings(t, TRUE)
    BY <1>1, MailingIs
  <2>2. QED BY <1>1, <1>2, <2>1, FoundIs, VerifiedIs
<1>4. x.table \in Table /\ SameRows(t, x.table) /\ SameReviews(t, x.table)
  BY <1>3 DEF Mailings, Mailbag
<1>5. PICK view \in Reevaluated(x.table, r) : Land(u, view)
  BY <1>2
<1>6. QED BY <1>1, <1>2, <1>4, <1>5, ReevaluatedKeeps

(* A step that lands no request changes at most an address.                *)
LEMMA MailOutsideKeeps ==
  ASSUME ContactInv, NEW r \in Rows, NEW m \in Mails, MailOutside(r, m)
  PROVE  ContactInv' /\ ReviewsKept
<1> DEFINE put == [contacts[r] EXCEPT !.mail = m]
<1>1. /\ contacts \in Table /\ r \in In(contacts) /\ contacts[r] \in Candidate
      /\ contacts' = [contacts EXCEPT ![r] = put]
      /\ In(contacts) \subseteq Rows
  <2>1. contacts \in Table /\ r \in In(contacts)
    BY DEF MailOutside, ContactInv, ContactTypes
  <2>2. QED BY <2>1, RowIs DEF MailOutside
<1>2. /\ put \in Candidate /\ put.person = contacts[r].person
      /\ put.tried = contacts[r].tried /\ put.review = contacts[r].review
      /\ put.ref = contacts[r].ref
  BY <1>1 DEF Candidate
<1> HIDE DEF put
<1>3. contacts' \in Table /\ \A s \in Rows : contacts'[s] = IF s = r THEN put ELSE contacts[s]
  BY <1>1, <1>2 DEF Table
<1>4. In(contacts') = In(contacts)
  BY <1>1, <1>2, <1>3, RowIs, CandidateAssumption DEF In
<1>5. \A s \in In(contacts) : /\ contacts'[s].person = contacts[s].person
                              /\ contacts'[s].tried = contacts[s].tried
                              /\ contacts'[s].review = contacts[s].review
                              /\ contacts'[s].ref = contacts[s].ref
  BY <1>1, <1>2, <1>3
<1>6. /\ landings < MaxLandings /\ landings' = landings + 1 /\ agreed' = FALSE
      /\ UNCHANGED <<request, raced, answered, askedAgain>>
  BY DEF MailOutside
<1>7. ContactTypes'
  <2>1. landings' \in 0 .. MaxLandings
    BY <1>6, CandidateAssumption DEF ContactInv, ContactTypes
  <2>2. /\ DOMAIN request' = Users /\ raced' \in BOOLEAN /\ askedAgain' \in BOOLEAN
        /\ answered' \subseteq Rows
    BY <1>6 DEF ContactInv, ContactTypes
  <2>3. agreed' \in BOOLEAN
    BY <1>6
  <2>4. QED BY <1>3, <2>1, <2>2, <2>3 DEF ContactTypes
<1>8. SnapshotsKept'
  BY <1>4, <1>6 DEF ContactInv, SnapshotsKept
<1>9. NothingLost'
  <2>1. Unique(contacts) => Unique(contacts')
    BY <1>4, <1>5 DEF Unique
  <2>2. QED BY <1>4, <1>5, <1>6, <2>1 DEF ContactInv, NothingLost, Unique
<1>10. StatusesAgree' /\ LookupsAreRemembered'
  BY <1>6 DEF ContactInv, StatusesAgree, LookupsAreRemembered
<1>11. QED BY <1>5, <1>7, <1>8, <1>9, <1>10 DEF ContactInv, ReviewsKept

LEMMA OpenKeeps ==
  ASSUME ContactInv, NEW u \in Users, BeginRequest(u) \/ DropRequest(u)
  PROVE  ContactInv' /\ ReviewsKept
<1>1. UNCHANGED <<contacts, landings, agreed, raced, answered, askedAgain>>
  BY DEF BeginRequest, DropRequest
<1>2. PICK t \in {contacts, NoRequest} : request' = [request EXCEPT ![u] = t]
  BY DEF BeginRequest, DropRequest
<1>3. /\ DOMAIN request' = Users
      /\ \A v \in Users : request'[v] = IF v = u THEN t ELSE request[v]
  BY <1>2 DEF ContactInv, ContactTypes
<1>4. ContactTypes' /\ SnapshotsKept'
  BY <1>1, <1>3 DEF ContactInv, ContactTypes, SnapshotsKept
<1>5. StatusesAgree' /\ NothingLost' /\ LookupsAreRemembered'
  BY <1>1 DEF ContactInv, StatusesAgree, NothingLost, LookupsAreRemembered
<1>6. QED BY <1>1, <1>4, <1>5 DEF ContactInv, ReviewsKept

LEMMA ContactStep ==
  ContactInv /\ [ContactNext]_contactVars => ContactInv' /\ (SomeReview \/ ReviewsKept)
<1> SUFFICES ASSUME ContactInv, [ContactNext]_contactVars
             PROVE  ContactInv' /\ (SomeReview \/ ReviewsKept)
  OBVIOUS
<1>1. CASE UNCHANGED contactVars
  BY <1>1 DEF contactVars, ContactInv, ContactTypes, SnapshotsKept, StatusesAgree,
              NothingLost, LookupsAreRemembered, ReviewsKept
<1>2. CASE SomeReview
  BY <1>2, ReviewKeeps DEF SomeReview
<1>3. QED
  BY <1>1, <1>2, OpenKeeps, DiscoverKeeps, MailKeeps, MailOutsideKeeps DEF ContactNext

(* The inductive invariant of requests on a company's people.              *)
THEOREM ContactInvariant == ContactSpec => []ContactInv
<1>1. ContactInv /\ [ContactNext]_contactVars => ContactInv'
  BY ContactStep
<1>2. QED BY <1>1, ContactInitial, PTL DEF ContactSpec

(* Whatever races have left behind, a request that met no other leaves     *)
(* every status and rank as the other columns have it.                     *)
THEOREM StatusesAlwaysAgree == ContactSpec => [](ContactTypeOK /\ StatusesAgree)
<1>1. ContactInv => ContactTypeOK /\ StatusesAgree
  BY DEF ContactInv, ContactTypes, ContactTypeOK, Table
<1>2. QED BY <1>1, ContactInvariant, PTL

(* Twins of a person known by key or reference, and a second payment for   *)
(* an answered lookup of a row, need a race.                               *)
THEOREM OnlyRacesEverLose == ContactSpec => []OnlyRacesLose
<1>1. ContactInv => OnlyRacesLose
  BY DEF ContactInv, NothingLost, Unique, OnlyRacesLose, TwinsNeedARace
<1>2. QED BY <1>1, ContactInvariant, PTL

(* A user's verdict on a person is only changed by a user's review.        *)
THEOREM ReviewAlwaysStands == ContactSpec => ReviewStands
<1> DEFINE Stands ==
      (\E r \in In(contacts) : contacts'[r].review # contacts[r].review) => SomeReview
<1>1. ContactInv /\ [ContactNext]_contactVars => [Stands]_contactVars
  BY ContactStep DEF ReviewsKept
<1>2. [][Stands]_contactVars <=> ReviewStands
  BY DEF ReviewStands
<1> HIDE DEF Stands
<1>3. QED BY <1>1, <1>2, ContactInvariant, PTL DEF ContactSpec

-----------------------------------------------------------------------------
(* The registers together (MCRegisters), as TLC explores them: a behaviour *)
(* of MCSpec is one of each register.                                      *)

LEMMA RegistersAreApart ==
  MCSpec => /\ EngagementSpec /\ FactSpec /\ CompanySpec /\ ThrottleSpec
            /\ PaidSpec /\ PersonaSpec /\ DossierSpec
<1>1. MCInit => /\ EngagementInit /\ FactInit /\ CompanyInit /\ ThrottleInit
                /\ PaidInit /\ PersonaInit
  BY DEF MCInit
<1>2. MCInit => DossierInit
  <2>1. {} \in kSubset(0, Items) /\ 0 \in 0 .. MaxEvidence
    BY FS_EmptySet, DossierAssumption DEF kSubset
  <2>2. {} \in UNION {kSubset(n, Items) : n \in 0 .. MaxEvidence}
    BY <2>1
  <2>3. MCNobody \in Dossier
    BY <2>2 DEF MCNobody, Dossier
  <2>4. QED BY <2>3 DEF MCInit, DossierInit
<1>3. [MCNext]_registerVars =>
        /\ [EngagementNext]_engagementVars /\ [FactNext]_factVars
        /\ [CompanyNext]_companyVars /\ [ThrottleNext]_throttleVars
        /\ [PaidNext]_paidVars /\ [PersonaNext]_personaVars /\ [DossierNext]_dossier
  <2>1. CASE UNCHANGED registerVars
    BY <2>1 DEF registerVars
  <2>2. CASE MCNext
    BY <2>2 DEF MCNext
  <2>3. QED BY <2>1, <2>2
<1>4. QED
  BY <1>1, <1>2, <1>3, PTL
  DEF MCSpec, EngagementSpec, FactSpec, CompanySpec, ThrottleSpec, PaidSpec, PersonaSpec,
      DossierSpec

(* People met before are in rows of their own, evaluated.                  *)
LEMMA KnownAre ==
  ASSUME NEW two \in BOOLEAN, NEW t \in MCTables(two)
  PROVE  t \in Table /\ Agrees(t) /\ Unique(t)
<1>1. PICK case \in {"OPEN", "STRONG"}, tried \in BOOLEAN, mail \in {"NONE", "VALID"} :
        t = MCMet(two, case, tried, mail)
  BY DEF MCTables
<1> DEFINE a == MCKnown(p, TRUE, case, "NONE", tried)
           b == MCKnown(q, FALSE, "STRONG", mail, FALSE)
           s == [r \in Rows |-> IF r = 1 THEN a ELSE IF two THEN b ELSE NoRow]
<1>2. a \in Candidate /\ b \in Candidate /\ a.person = p /\ b.person = q
  <2>1. 0 \in 0 .. Limit
    BY CandidateAssumption
  <2>2. QED BY <2>1, MCRegistersAssumption DEF MCKnown, Candidate, Mails, Rankable, StatusOrder
<1>3. t = Evaluated(s)
  BY <1>1 DEF MCMet
<1> HIDE DEF a, b
<1>4. s \in Table
  BY <1>2 DEF Table
<1>5. Unique(s)
  <2>1. NoRow # b
    BY <1>2, CandidateAssumption
  <2>2. \A r \in In(s) : /\ r = 1 \/ r = 2
                         /\ s[r].person = IF r = 1 THEN p ELSE q
    BY <1>2, <2>1, MCRegistersAssumption DEF In
  <2>3. QED BY <2>2, MCRegistersAssumption DEF Unique
<1> HIDE DEF s
<1>6. t \in Table /\ Agrees(t) /\ SameRows(s, t)
  BY <1>3, <1>4, EvaluatedIs
<1>7. Unique(t)
  BY <1>5, <1>6 DEF SameRows, Unique
<1>8. QED BY <1>6, <1>7

LEMMA PeopleInitial == MCPeopleInit => ContactInv
<1> SUFFICES ASSUME MCPeopleInit PROVE ContactInv
  OBVIOUS
<1>1. [r \in Rows |-> NoRow] \in Table /\ In([r \in Rows |-> NoRow]) = {}
  BY DEF Table, In
<1>2. contacts \in Table /\ Agrees(contacts) /\ Unique(contacts)
  <2>1. CASE contacts = [r \in Rows |-> NoRow]
    BY <1>1, <2>1 DEF Agrees, Unique
  <2>2. CASE contacts \in MCTables(focus = "pair")
    <3>1. (focus = "pair") \in BOOLEAN
      OBVIOUS
    <3>2. QED BY <2>2, <3>1, KnownAre
  <2>3. QED BY <2>1, <2>2 DEF MCPeopleInit
<1>3. answered = {r \in In(contacts) : contacts[r].tried} /\ In(contacts) \subseteq Rows
  BY <1>2, RowIs DEF MCPeopleInit
<1>4. \A r \in answered : r \in In(contacts) /\ contacts[r].tried = TRUE
  <2>1. \A r \in In(contacts) : contacts[r].tried \in BOOLEAN
    BY <1>2, RowIs DEF Candidate
  <2>2. QED BY <1>3, <2>1
<1>5. 0 \in 0 .. MaxLandings
  BY CandidateAssumption
<1>6. ContactTypes /\ SnapshotsKept /\ LookupsAreRemembered
  BY <1>2, <1>3, <1>5
  DEF MCPeopleInit, ContactTypes, SnapshotsKept, LookupsAreRemembered
<1>7. StatusesAgree
  BY <1>2 DEF Agrees, StatusesAgree
<1>8. NothingLost
  BY <1>2, <1>4 DEF NothingLost
<1>9. QED BY <1>6, <1>7, <1>8 DEF ContactInv

LEMMA PeopleStep ==
  ContactInv /\ [MCNext]_registerVars => ContactInv' /\ [SomeReview \/ ReviewsKept]_contactVars
<1> SUFFICES ASSUME ContactInv, [MCNext]_registerVars
             PROVE  ContactInv' /\ [SomeReview \/ ReviewsKept]_contactVars
  OBVIOUS
<1>1. CASE UNCHANGED contactVars
  <2>1. ContactInv'
    BY <1>1, ContactStep
  <2>2. QED BY <1>1, <2>1
<1>2. CASE ContactNext
  BY <1>2, ContactStep
<1>3. ASSUME focus = "person", MCPeople PROVE ContactInv' /\ (SomeReview \/ ReviewsKept)
  <2>1. 1 \in Rows /\ p \in People
    BY MCRegistersAssumption
  <2>2. CASE SomeReview
    BY <2>2, ContactStep DEF ContactNext
  <2>3. ASSUME NEW u \in Users, BeginRequest(u) \/ DropRequest(u)
        PROVE  ContactInv' /\ ReviewsKept
    BY <2>3, OpenKeeps
  <2>4. ASSUME NEW u \in Users, MailContact(u, 1) PROVE ContactInv' /\ ReviewsKept
    BY <2>1, <2>4, MailKeeps
  <2>5. ASSUME NEW u \in Users, NEW web \in {{}, {p}}, NEW provider \in {{}, {p}},
               NEW force \in BOOLEAN, DiscoverPeople(u, web, provider, force)
        PROVE  ContactInv' /\ ReviewsKept
    <3>1. web \in SUBSET People /\ provider \in SUBSET People
      BY <2>1
    <3>2. QED BY <2>5, <3>1, DiscoverKeeps
  <2>6. ASSUME NEW m \in Mails, MailOutside(1, m) PROVE ContactInv' /\ ReviewsKept
    BY <2>1, <2>6, MailOutsideKeeps
  <2>7. QED BY <1>3, <2>2, <2>3, <2>4, <2>5, <2>6 DEF MCPeople
<1>4. UNCHANGED contactVars \/ ContactNext \/ (focus = "person" /\ MCPeople)
  <2>1. CASE UNCHANGED registerVars
    BY <2>1 DEF registerVars
  <2>2. CASE MCNext
    BY <2>2 DEF MCNext, MCPeople
  <2>3. QED BY <2>1, <2>2
<1>5. QED BY <1>1, <1>2, <1>3, <1>4, ContactStep

(* The inductive invariant of requests on people met before.               *)
THEOREM PeopleInvariant == MCSpec => []ContactInv
<1>1. MCInit => ContactInv
  BY PeopleInitial DEF MCInit
<1>2. ContactInv /\ [MCNext]_registerVars => ContactInv'
  BY PeopleStep
<1>3. QED BY <1>1, <1>2, PTL DEF MCSpec

(* The types of every register.                                            *)
THEOREM RegisterTypes == MCSpec => []RegistersTypeOK
<1>1. ContactInv => ContactTypeOK
  BY DEF ContactInv, ContactTypes, ContactTypeOK, Table
<1>2. EngagementTypeOK /\ ContactTypeOK /\ DossierTypeOK => RegistersTypeOK
  BY DEF RegistersTypeOK
<1>3. QED
  BY <1>1, <1>2, PeopleInvariant, RegistersAreApart, EngagementTypeCorrect, DossierTypes, PTL

(* Verdicts on mails, people and facts stand, and shared values.           *)
THEOREM RecordsAlwaysStand == MCSpec => RecordsStand
<1> DEFINE Stands ==
      (\E r \in In(contacts) : contacts'[r].review # contacts[r].review) => SomeReview
<1>1. ContactInv /\ [MCNext]_registerVars => [Stands]_contactVars
  BY PeopleStep DEF ReviewsKept
<1>2. [][Stands]_contactVars <=> ReviewStands
  BY DEF ReviewStands
<1>3. RecordsStand <=>
        VerdictStands /\ ReviewStands /\ ReviewedSelectionStands /\ SharedValuesStand
  BY DEF RecordsStand
<1> HIDE DEF Stands
<1>4. MCSpec => ReviewStands
  BY <1>1, <1>2, PeopleInvariant, PTL DEF MCSpec
<1>5. QED
  BY <1>3, <1>4, RegistersAreApart, VerdictsStand, ReviewedSelectionAlwaysStands,
     SharedValuesAlwaysStand, PTL

(* A replacement of personas is refused only when another changed the      *)
(* table it read, and leaves its list beside what was inserted since; and  *)
(* an import reports what it has done.                                     *)
THEOREM RequestsAreAlwaysHonest == MCSpec => []RequestsAreHonest
<1>1. RenamesNeverCollide /\ ListIsWhatWasAsked /\ ReportIsTrue => RequestsAreHonest
  BY DEF RequestsAreHonest
<1>2. QED
  BY <1>1, RegistersAreApart, PersonasBecomeTheList, ReportIsAlwaysTrue, PTL

(* Calls and failed logins are counted, answers kept, once.                *)
THEOREM CountersAreAlwaysHonest == MCSpec => []CountersAreHonest
<1>1. AttemptsAreRecorded /\ KeptAnswersAreReused /\ CountIsHonest /\ LoneFailuresCount
        => CountersAreHonest
  BY DEF CountersAreHonest
<1>2. PaidInv => AttemptsAreRecorded /\ KeptAnswersAreReused
  BY DEF PaidInv
<1>3. QED
  BY <1>1, <1>2, RegistersAreApart, PaidInvariant, CountIsAlwaysHonest,
     LoneFailuresAlwaysCount, PTL
=============================================================================
