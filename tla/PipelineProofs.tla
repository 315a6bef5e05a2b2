---------------------------- MODULE PipelineProofs ----------------------------
(***************************************************************************)
(* Theorems about Pipeline for any attempts, users, batch size and values: *)
(* the stage events account for every stage, whoever raced to write them,  *)
(* and the ledgers implement PipelineStages, one decision at a time.       *)
(*                                                                         *)
(* The argument: an open transaction numbers its event by the events of    *)
(* its snapshot.  If that number is still free at the commit, nothing was  *)
(* added since, so the stage is still the one the decision was made from.  *)
(***************************************************************************)
EXTENDS Pipeline, FiniteSetTheorems, SequenceTheorems, TLAPS

Count(a) == Cardinality(EventsOf(a))

(* The stage that an event enters may follow the one it leaves.            *)
Legal(e) ==
  IF e.from = NoStage THEN e.to \in {"CONTACTED", "RESPONDED"}
  ELSE ValidTransition(e.from, e.to)

(* What the synchronization may write of its own accord.                   *)
Observed(e) ==
  e.source = "SYSTEM" =>
    /\ e.from \in {NoStage, "CONTACTED"}
    /\ e.to = "RESPONDED" => e.attempt \in replied
    /\ e.to = "CONTACTED" => e.from = NoStage
    /\ e.to \in {"CONTACTED", "RESPONDED"}

(* The events of an attempt are numbered from 1 and lead to its stage.     *)
Chained(a) ==
  /\ IsFiniteSet(EventsOf(a))
  /\ \A e \in EventsOf(a) : e.sequence <= Count(a)
  /\ \A n \in 1 .. Count(a) : \E e \in EventsOf(a) : e.sequence = n
  /\ \A e, f \in EventsOf(a) : e.sequence = f.sequence => e = f
  /\ \A e \in EventsOf(a) :
       /\ e.sequence = 1 => e.from = NoStage
       /\ \A f \in EventsOf(a) : f.sequence = e.sequence + 1 => f.from = e.to
       /\ e.sequence = Count(a) => stage[a] = e.to
  /\ Count(a) = 0 => stage[a] = NoStage

(* An event that is about to be written: numbered by its snapshot, and     *)
(* leaving the stage of the snapshot, which is of now if no event came in. *)
Decided(e) ==
  /\ e.sequence <= Count(e.attempt) + 1
  /\ e.sequence = Count(e.attempt) + 1 => e.from = stage[e.attempt]
  /\ Legal(e)
  /\ Observed(e)

WorkDecided ==
  \A p \in Actors : work[p] # NoWork =>
    /\ \A e \in work[p].events : Decided(e)
    /\ \A e, f \in work[p].events : e.attempt = f.attempt => e = f

PipelineInv ==
  /\ PipelineTypeOK
  /\ \A a \in Attempts : Chained(a)
  /\ \A e \in ledger : Legal(e) /\ Observed(e)
  /\ WorkDecided

-----------------------------------------------------------------------------
LEMMA CountIsNat ==
  ASSUME NEW a \in Attempts, Chained(a)
  PROVE  Count(a) \in Nat
BY FS_CardinalityType DEF Chained, Count

LEMMA PipelineInitial == Init => PipelineInv
<1> SUFFICES ASSUME Init PROVE PipelineInv
  OBVIOUS
<1>1. \A a \in Attempts : EventsOf(a) = {} /\ Count(a) = 0 /\ IsFiniteSet(EventsOf(a))
  BY FS_EmptySet DEF Init, EventsOf, Count
<1>2. \A a \in Attempts : Chained(a)
  BY <1>1 DEF Init, Chained
<1>3. NoDetails \in Columns
  BY DEF NoDetails, Columns
<1>4. PipelineTypeOK
  BY <1>3 DEF Init, PipelineTypeOK
<1>5. QED BY <1>2, <1>4 DEF Init, PipelineInv, WorkDecided

(* An event built from the snapshot is decided in it.                      *)
LEMMA NewIsDecided ==
  ASSUME PipelineInv, NEW a \in Attempts, NEW t \in Stages,
         NEW source \in {"MANUAL", "SYSTEM"}
  PROVE  LET e == NewStageEvent(a, t, source) IN
         /\ e \in StageEvent
         /\ Legal(e) /\ Observed(e) => Decided(e)
<1>1. Count(a) \in Nat
  BY CountIsNat DEF PipelineInv
<1>2. stage[a] \in Stages \cup {NoStage}
  BY DEF PipelineInv, PipelineTypeOK
<1>3. QED BY <1>1, <1>2 DEF NewStageEvent, StageEvent, Decided, Count

(* A step that opens a transaction changes nothing else.                   *)
LEMMA OpenKeeps ==
  ASSUME PipelineInv, NEW p \in Actors, NEW w \in Work, Open(p, w),
         \A e \in w.events : Decided(e),
         \A e, f \in w.events : e.attempt = f.attempt => e = f
  PROVE  PipelineInv'
<1>1. UNCHANGED <<sent, replied, stage, ledger, details>>
  BY DEF Open
<1>2. work' = [work EXCEPT ![p] = w]
  BY DEF Open
<1>3. PipelineTypeOK'
  BY <1>1, <1>2 DEF PipelineInv, PipelineTypeOK
<1>4. /\ \A a \in Attempts : Chained(a)'
      /\ \A e \in ledger' : Legal(e)' /\ Observed(e)'
  BY <1>1 DEF PipelineInv, Chained, Count, EventsOf, Legal, Observed
<1>5. ASSUME NEW e, Decided(e) PROVE Decided(e)'
  BY <1>1, <1>5 DEF Decided, Legal, Observed, Count, EventsOf
<1>6. WorkDecided'
  BY <1>2, <1>5 DEF WorkDecided, PipelineInv, PipelineTypeOK
<1>7. QED BY <1>3, <1>4, <1>6 DEF PipelineInv

LEMMA CreateKeeps ==
  ASSUME PipelineInv, NEW u \in Users, NEW a \in Attempts, NEW d \in Details,
         Create(u, a, d)
  PROVE  PipelineInv'
<1> DEFINE e == NewStageEvent(a, InitialStage(a), "MANUAL")
           w == [events |-> {e}, updates |-> {[attempt |-> a, old |-> NoDetails, new |-> d]}]
<1>1. InitialStage(a) \in {"CONTACTED", "RESPONDED"} /\ stage[a] = NoStage
  BY DEF InitialStage, Create
<1>2. InitialStage(a) \in Stages
  BY <1>1 DEF Stages
<1>3. Legal(e) /\ Observed(e)
  BY <1>1 DEF NewStageEvent, Legal, Observed
<1>4. e \in StageEvent /\ Decided(e)
  BY <1>2, <1>3, NewIsDecided
<1>5. NoDetails \in Columns
  BY DEF NoDetails, Columns
<1>6. w \in Work
  BY <1>4, <1>5 DEF Work, Update
<1>7. Open(u, w) /\ u \in Actors
  BY DEF Create, Actors
<1> HIDE DEF e
<1>8. QED BY <1>4, <1>6, <1>7, OpenKeeps

LEMMA MoveKeeps ==
  ASSUME PipelineInv, NEW u \in Users, NEW a \in Attempts, NEW t \in Stages,
         MoveStage(u, a, t)
  PROVE  PipelineInv'
<1> DEFINE e == NewStageEvent(a, t, "MANUAL")
           w == [events |-> {e}, updates |-> {}]
<1>1. Legal(e) /\ Observed(e)
  BY DEF NewStageEvent, Legal, Observed, MoveStage
<1>2. e \in StageEvent /\ Decided(e)
  BY <1>1, NewIsDecided
<1>3. w \in Work
  BY <1>2 DEF Work
<1>4. Open(u, w) /\ u \in Actors
  BY DEF MoveStage, Actors
<1> HIDE DEF e
<1>5. QED BY <1>2, <1>3, <1>4, OpenKeeps

LEMMA DetailsKeep ==
  ASSUME PipelineInv, NEW u \in Users, NEW a \in Attempts, NEW d \in Details,
         UpdateDetails(u, a, d)
  PROVE  PipelineInv'
<1> DEFINE w == [events |-> {},
                 updates |-> {[attempt |-> a, old |-> details[a], new |-> d]}]
<1>1. details[a] \in Columns
  BY DEF PipelineInv, PipelineTypeOK
<1>2. w \in Work
  BY <1>1 DEF Work, Update
<1>3. Open(u, w) /\ u \in Actors
  BY DEF UpdateDetails, Actors
<1>4. QED BY <1>2, <1>3, OpenKeeps

LEMMA SyncKeeps ==
  ASSUME PipelineInv, BeginSync
  PROVE  PipelineInv'
<1>1. PICK new \in SUBSET Unsynced, answered \in SUBSET ContactedWithReply :
        Open(Sync,
         [events |-> {NewStageEvent(a, InitialStage(a), "SYSTEM") : a \in new}
                \cup {NewStageEvent(a, "RESPONDED", "SYSTEM") : a \in answered},
          updates |-> {}])
  BY DEF BeginSync
<1> DEFINE E == {NewStageEvent(a, InitialStage(a), "SYSTEM") : a \in new}
                  \cup {NewStageEvent(a, "RESPONDED", "SYSTEM") : a \in answered}
           w == [events |-> E, updates |-> {}]
<1>2. ASSUME NEW a \in new
      PROVE  LET e == NewStageEvent(a, InitialStage(a), "SYSTEM") IN
             e \in StageEvent /\ Decided(e)
  <2>1. a \in Attempts /\ stage[a] = NoStage
    BY DEF Unsynced, PipelineInv, PipelineTypeOK
  <2>2. /\ InitialStage(a) \in {"CONTACTED", "RESPONDED"}
        /\ InitialStage(a) \in Stages
        /\ InitialStage(a) = "RESPONDED" => a \in replied
    BY DEF InitialStage, Stages
  <2>3. LET e == NewStageEvent(a, InitialStage(a), "SYSTEM") IN Legal(e) /\ Observed(e)
    BY <2>1, <2>2 DEF NewStageEvent, Legal, Observed
  <2>4. QED BY <2>1, <2>2, <2>3, NewIsDecided
<1>3. ASSUME NEW a \in answered
      PROVE  LET e == NewStageEvent(a, "RESPONDED", "SYSTEM") IN
             e \in StageEvent /\ Decided(e)
  <2>1. a \in Attempts /\ stage[a] = "CONTACTED" /\ a \in replied
    BY DEF ContactedWithReply, PipelineInv, PipelineTypeOK
  <2>2. "RESPONDED" \in Stages /\ "CONTACTED" \in Stages
    BY DEF Stages
  <2>3. ValidTransition("CONTACTED", "RESPONDED")
    BY DEF ValidTransition, TERMINAL_STAGES, STAGE_ORDER
  <2>4. LET e == NewStageEvent(a, "RESPONDED", "SYSTEM") IN Legal(e) /\ Observed(e)
    BY <2>1, <2>2, <2>3, PipelineAssumption DEF NewStageEvent, Legal, Observed
  <2>5. QED BY <2>1, <2>2, <2>4, NewIsDecided
<1>4. \A e \in E : e \in StageEvent /\ Decided(e)
  BY <1>2, <1>3
<1>5. \A e, f \in E : e.attempt = f.attempt => e = f
  <2>1. \A a \in new : a \notin answered
    BY PipelineAssumption DEF Unsynced, ContactedWithReply, Stages
  <2>2. QED BY <2>1 DEF NewStageEvent
<1>6. w \in Work
  BY <1>4 DEF Work
<1>7. Open(Sync, w) /\ Sync \in Actors
  BY <1>1 DEF Actors
<1> HIDE DEF E
<1>8. QED BY <1>4, <1>5, <1>6, <1>7, OpenKeeps

(* A send commits, a reply is recorded, or a transaction is given up.      *)
LEMMA OthersKeep ==
  ASSUME PipelineInv,
         \/ \E a \in Attempts : CommitSend(a) \/ RecordReply(a)
         \/ \E p \in Actors : Abandon(p)
         \/ UNCHANGED vars
  PROVE  PipelineInv'
<1>1. /\ UNCHANGED <<stage, ledger, details>>
      /\ replied \subseteq replied'
      /\ \A p \in Actors : work'[p] \in {work[p], NoWork}
      /\ PipelineTypeOK'
  BY DEF PipelineInv, PipelineTypeOK, CommitSend, RecordReply, Abandon, vars
<1>2. \A a \in Attempts : Chained(a)'
  BY <1>1 DEF PipelineInv, Chained, Count, EventsOf
<1>3. ASSUME NEW e, Legal(e), Observed(e) PROVE Legal(e)' /\ Observed(e)'
  BY <1>1, <1>3 DEF Legal, Observed
<1>4. ASSUME NEW e, Decided(e) PROVE Decided(e)'
  BY <1>1, <1>3, <1>4 DEF Decided, Count, EventsOf
<1>5. \A e \in ledger' : Legal(e)' /\ Observed(e)'
  BY <1>1, <1>3 DEF PipelineInv
<1>6. WorkDecided'
  BY <1>1, <1>4 DEF PipelineInv, WorkDecided
<1>7. QED BY <1>1, <1>2, <1>5, <1>6 DEF PipelineInv

(* What a commit does to an attempt that it brings an event for: the event *)
(* is the next one, and leaves the stage that the attempt is in.           *)
LEMMA CommitAppends ==
  ASSUME PipelineInv, NEW p \in Actors, Commit(p),
         NEW a \in Attempts, NEW e \in work[p].events, e.attempt = a
  PROVE  /\ e \in StageEvent
         /\ EventsOf(a)' = EventsOf(a) \cup {e}
         /\ e.sequence = Count(a) + 1 /\ e.from = stage[a]
         /\ Count(a)' = Count(a) + 1
         /\ IsFiniteSet(EventsOf(a))'
         /\ stage'[a] = e.to
<1>1. work[p] \in Work /\ work[p] # NoWork
  BY DEF Commit, PipelineInv, PipelineTypeOK
<1>2. e \in StageEvent /\ work[p].events \subseteq StageEvent
  BY <1>1 DEF Work
<1>3. \A f \in work[p].events : f.attempt = a => f = e
  BY <1>1 DEF PipelineInv, WorkDecided
<1>4. EventsOf(a)' = EventsOf(a) \cup {e}
  BY <1>3 DEF EventsOf, Commit
<1>5. Chained(a) /\ Count(a) \in Nat /\ Decided(e)
  BY <1>1, CountIsNat DEF PipelineInv, WorkDecided
<1>6. \A f \in EventsOf(a) : f.sequence # e.sequence
  BY DEF Commit, KeysFree
<1>7. e.sequence \in Nat \ {0} /\ e.sequence <= Count(a) + 1
  BY <1>2, <1>5 DEF StageEvent, Decided
<1>8. e.sequence \notin 1 .. Count(a)
  BY <1>5, <1>6 DEF Chained
<1>9. e.sequence = Count(a) + 1
  BY <1>5, <1>7, <1>8
<1>10. e \notin EventsOf(a)
  BY <1>6
<1>11. Count(a)' = Count(a) + 1 /\ IsFiniteSet(EventsOf(a))'
  BY <1>4, <1>5, <1>10, FS_AddElement DEF Count, Chained
<1>12. stage'[a] = (CHOOSE f \in work[p].events : f.attempt = a).to
  BY DEF Commit
<1>13. (CHOOSE f \in work[p].events : f.attempt = a) = e
  BY <1>3
<1>14. QED BY <1>2, <1>4, <1>5, <1>9, <1>11, <1>12, <1>13 DEF Decided

LEMMA CommitLeaves ==
  ASSUME PipelineInv, NEW p \in Actors, Commit(p), NEW a \in Attempts,
         \A e \in work[p].events : e.attempt # a
  PROVE  EventsOf(a)' = EventsOf(a) /\ stage'[a] = stage[a]
BY DEF EventsOf, Commit

LEMMA CommitKeepsChain ==
  ASSUME PipelineInv, NEW p \in Actors, Commit(p), NEW a \in Attempts
  PROVE  Chained(a)'
<1>1. Chained(a) /\ Count(a) \in Nat
  BY CountIsNat DEF PipelineInv
<1>2. CASE \A e \in work[p].events : e.attempt # a
  BY <1>1, <1>2, CommitLeaves DEF Chained, Count
<1>3. ASSUME NEW e \in work[p].events, e.attempt = a PROVE Chained(a)'
  <2> DEFINE n == Count(a)
  <2>1. /\ e \in StageEvent
        /\ EventsOf(a)' = EventsOf(a) \cup {e}
        /\ e.sequence = n + 1 /\ e.from = stage[a]
        /\ Count(a)' = n + 1
        /\ IsFiniteSet(EventsOf(a))'
        /\ stage'[a] = e.to
    BY <1>3, CommitAppends
  <2>2. \A f \in EventsOf(a) : f.sequence \in 1 .. n
    BY <1>1 DEF Chained, EventsOf, StageEvent, PipelineInv, PipelineTypeOK
  <2>3. \A m \in 1 .. n + 1 : \E f \in EventsOf(a) \cup {e} : f.sequence = m
    BY <1>1, <2>1 DEF Chained
  <2>4. \A f, g \in EventsOf(a) \cup {e} : f.sequence = g.sequence => f = g
    BY <1>1, <2>1, <2>2 DEF Chained
  <2>5. e.sequence = 1 => e.from = NoStage
    BY <1>1, <2>1 DEF Chained
  <2>6. \A f \in EventsOf(a) : e.sequence = f.sequence + 1 => e.from = f.to
    BY <1>1, <2>1, <2>2 DEF Chained
  <2>7. \A f \in EventsOf(a) \cup {e} : f.sequence # e.sequence + 1
    BY <1>1, <2>1, <2>2
  <2>8. \A f \in EventsOf(a) : f.sequence # n + 1
    BY <1>1, <2>2
  <2>9. n + 1 # 0
    BY <1>1
  <2> HIDE DEF n
  <2>10. \A f \in EventsOf(a) \cup {e} : f.sequence = n + 1 => stage'[a] = f.to
    BY <2>1, <2>8
  <2>11. \A f \in EventsOf(a) \cup {e} :
           /\ f.sequence = 1 => f.from = NoStage
           /\ \A g \in EventsOf(a) \cup {e} : g.sequence = f.sequence + 1 => g.from = f.to
    BY <1>1, <2>5, <2>6, <2>7 DEF Chained
  <2>12. \A f \in EventsOf(a) \cup {e} : f.sequence <= n + 1
    BY <1>1, <2>1, <2>2 DEF n
  <2>13. QED BY <2>1, <2>3, <2>4, <2>9, <2>10, <2>11, <2>12 DEF Chained
<1>4. QED BY <1>2, <1>3

(* What is left of another transaction's claim on the next number.         *)
LEMMA CommitKeepsDecided ==
  ASSUME PipelineInv, NEW p \in Actors, Commit(p), NEW f \in StageEvent, Decided(f)
  PROVE  Decided(f)'
<1> DEFINE a == f.attempt
<1>1. a \in Attempts /\ f.sequence \in Nat
  BY DEF StageEvent
<1>2. Count(a) \in Nat
  BY <1>1, CountIsNat DEF PipelineInv
<1>3. Legal(f)' /\ Observed(f)'
  BY DEF Decided, Legal, Observed, Commit
<1>4. CASE \A e \in work[p].events : e.attempt # a
  BY <1>1, <1>3, <1>4, CommitLeaves DEF Decided, Count
<1>5. ASSUME NEW e \in work[p].events, e.attempt = a PROVE Decided(f)'
  <2>1. Count(a)' = Count(a) + 1
    BY <1>1, <1>5, CommitAppends
  <2>2. QED BY <1>1, <1>2, <1>3, <2>1 DEF Decided
<1>6. QED BY <1>4, <1>5

LEMMA CommitKeepsTypes ==
  ASSUME PipelineInv, NEW p \in Actors, Commit(p)
  PROVE  PipelineTypeOK'
<1>1. work[p] \in Work /\ PipelineTypeOK
  BY DEF Commit, PipelineInv, PipelineTypeOK
<1>2. work[p].events \subseteq StageEvent /\ work[p].updates \subseteq Update
  BY <1>1 DEF Work
<1>3. ledger' \subseteq StageEvent
  BY <1>1, <1>2 DEF Commit, PipelineTypeOK
<1>4. \A a \in Attempts : stage'[a] \in Stages \cup {NoStage}
  <2> TAKE a \in Attempts
  <2>1. CASE \A e \in work[p].events : e.attempt # a
    BY <1>1, <2>1, CommitLeaves DEF PipelineTypeOK
  <2>2. ASSUME NEW e \in work[p].events, e.attempt = a
        PROVE  stage'[a] \in Stages \cup {NoStage}
    <3>1. e \in StageEvent /\ stage'[a] = e.to
      BY <2>2, CommitAppends
    <3>2. QED BY <3>1 DEF StageEvent
  <2>3. QED BY <2>1, <2>2
<1>5. stage' \in [Attempts -> Stages \cup {NoStage}]
  BY <1>4 DEF Commit
<1>6. ASSUME NEW d \in Columns, NEW u \in Update PROVE Written(d, u) \in Columns
  <2>1. u.new \in Columns
    BY DEF Update, Details
  <2>2. QED BY <2>1 DEF Written, Columns
<1>7. \A a \in Attempts : details'[a] \in Columns
  <2> TAKE a \in Attempts
  <2>1. details[a] \in Columns
    BY <1>1 DEF PipelineTypeOK
  <2>2. CASE \E u \in work[p].updates : u.attempt = a
    <3>1. (CHOOSE u \in work[p].updates : u.attempt = a) \in Update
      BY <1>2, <2>2
    <3>2. details'[a] = Written(details[a], CHOOSE u \in work[p].updates : u.attempt = a)
      BY <2>2 DEF Commit
    <3>3. QED BY <1>6, <2>1, <3>1, <3>2
  <2>3. CASE ~ \E u \in work[p].updates : u.attempt = a
    BY <2>1, <2>3 DEF Commit
  <2>4. QED BY <2>2, <2>3
<1>8. details' \in [Attempts -> Columns]
  BY <1>7 DEF Commit
<1>9. work' \in [Actors -> Work \cup {NoWork}] /\ UNCHANGED <<sent, replied>>
  BY <1>1 DEF Commit, PipelineTypeOK
<1>10. QED BY <1>1, <1>3, <1>5, <1>8, <1>9 DEF PipelineTypeOK

LEMMA CommitKeeps ==
  ASSUME PipelineInv, NEW p \in Actors, Commit(p)
  PROVE  PipelineInv'
<1>1. work[p] \in Work /\ work[p] # NoWork
  BY DEF Commit, PipelineInv, PipelineTypeOK
<1>2. \A e \in ledger' : e \in ledger \/ e \in work[p].events
  BY DEF Commit
<1>3. \A e \in ledger' : Legal(e) /\ Observed(e)
  BY <1>1, <1>2 DEF PipelineInv, WorkDecided, Decided
<1>4. replied' = replied
  BY DEF Commit
<1>5. \A e \in ledger' : Legal(e)' /\ Observed(e)'
  BY <1>3, <1>4 DEF Legal, Observed
<1>6. \A q \in Actors : work'[q] \in {work[q], NoWork}
  BY DEF Commit, PipelineInv, PipelineTypeOK
<1>7. \A q \in Actors : work[q] # NoWork => work[q].events \subseteq StageEvent
  BY DEF PipelineInv, PipelineTypeOK, Work
<1>8. WorkDecided'
  BY <1>6, <1>7, CommitKeepsDecided DEF PipelineInv, WorkDecided
<1>9. QED BY <1>5, <1>8, CommitKeepsTypes, CommitKeepsChain DEF PipelineInv

LEMMA PipelineStep ==
  ASSUME PipelineInv, [Next]_vars
  PROVE  PipelineInv'
BY CreateKeeps, MoveKeeps, DetailsKeep, SyncKeeps, OthersKeep, CommitKeeps DEF Next

(* What open requests will append (_append_stage_event).                   *)
THEOREM PipelineInvariant == Spec => []PipelineInv
BY PipelineInitial, PipelineStep, PTL DEF Spec

(* Every variable keeps its type.                                          *)
THEOREM PipelineTypeCorrect == Spec => []PipelineTypeOK
<1>1. PipelineInv => PipelineTypeOK
  BY DEF PipelineInv
<1>2. QED BY <1>1, PipelineInvariant, PTL

(* The stage events explain every stage without a gap, and those of the    *)
(* synchronization (pipeline_sync.py) record only what was observed.       *)
THEOREM LedgerAlwaysAccounts == Spec => []LedgerAccounts
<1>1. ASSUME PipelineInv, NEW a \in Attempts
      PROVE  LET n == Cardinality(EventsOf(a)) IN
             /\ {e.sequence : e \in EventsOf(a)} = 1 .. n
             /\ \A e \in EventsOf(a) :
                  /\ e.sequence = 1 => e.from = NoStage
                  /\ \A f \in EventsOf(a) : f.sequence = e.sequence + 1 => f.from = e.to
                  /\ e.sequence = n => stage[a] = e.to
             /\ n = 0 => stage[a] = NoStage
  <2>1. Chained(a) /\ Count(a) \in Nat
    BY <1>1, CountIsNat DEF PipelineInv
  <2>2. \A e \in EventsOf(a) : e.sequence \in 1 .. Count(a)
    BY <1>1, <2>1 DEF Chained, EventsOf, StageEvent, PipelineInv, PipelineTypeOK
  <2>3. QED BY <2>1, <2>2 DEF Chained, Count
<1>2. PipelineInv => LedgerExplainsStage
  BY <1>1 DEF LedgerExplainsStage
<1>3. PipelineInv => SystemOnlyObserves
  BY DEF PipelineInv, SystemOnlyObserves, Observed
<1>4. QED BY <1>2, <1>3, PipelineInvariant, PTL DEF LedgerAccounts

-----------------------------------------------------------------------------
(* The history of an attempt, read off its events.                         *)
HistoryTells(a) ==
  /\ Count(a) \in Nat
  /\ History[a] \in Seq(Stages)
  /\ Len(History[a]) = Count(a)
  /\ \A e \in EventsOf(a) :
       e.sequence \in 1 .. Count(a) /\ History[a][e.sequence] = e.to

LEMMA HistoryOf ==
  ASSUME PipelineInv, NEW a \in Attempts
  PROVE  HistoryTells(a)
<1>1. Chained(a) /\ Count(a) \in Nat
  BY CountIsNat DEF PipelineInv
<1>2. EventsOf(a) \subseteq StageEvent
  BY DEF EventsOf, PipelineInv, PipelineTypeOK
<1>3. History[a] = [n \in 1 .. Count(a) |-> (CHOOSE e \in EventsOf(a) : e.sequence = n).to]
  BY DEF History, Count
<1>4. ASSUME NEW e \in EventsOf(a)
      PROVE  e.sequence \in 1 .. Count(a) /\ History[a][e.sequence] = e.to
  <2>1. e.sequence \in 1 .. Count(a)
    BY <1>1, <1>2 DEF Chained, StageEvent
  <2>2. (CHOOSE f \in EventsOf(a) : f.sequence = e.sequence) = e
    BY <1>1 DEF Chained
  <2>3. QED BY <1>3, <2>1, <2>2
<1>5. \A n \in 1 .. Count(a) : History[a][n] \in Stages
  BY <1>1, <1>2, <1>4 DEF Chained, StageEvent
<1>6. History[a] \in [1 .. Count(a) -> Stages]
  BY <1>3, <1>5
<1>7. History[a] \in Seq(Stages)
  BY <1>1, <1>6, SeqDef
<1>8. Len(History[a]) = Count(a)
  BY <1>1, <1>6, <1>7, LenProperties
<1>9. QED BY <1>1, <1>4, <1>7, <1>8 DEF HistoryTells

LEMMA HistoriesTell ==
  /\ PipelineInv => \A a \in Attempts : HistoryTells(a)
  /\ PipelineInv' => (\A a \in Attempts : HistoryTells(a))'
<1>1. PipelineInv => \A a \in Attempts : HistoryTells(a)
  BY HistoryOf
<1>2. QED BY <1>1, PTL

(* The rank order of STAGE_ORDER leaves each stage these followers.        *)
LEMMA TransitionsFollow ==
  ASSUME NEW s \in Stages, NEW t \in Stages, ValidTransition(s, t)
  PROVE  t \in Stepwise!Followers[s]
BY DEF Stages, ValidTransition, TERMINAL_STAGES, STAGE_ORDER, Stepwise!Followers

LEMMA StepwiseInitial == Init => Stepwise!Init
<1> SUFFICES ASSUME Init PROVE History = [a \in Attempts |-> <<>>]
  BY DEF Stepwise!Init
<1>1. ASSUME NEW a \in Attempts PROVE History[a] = <<>>
  <2>1. EventsOf(a) = {} /\ Count(a) = 0
    BY FS_EmptySet DEF Init, EventsOf, Count
  <2>2. PipelineInv
    BY PipelineInitial
  <2>3. History[a] \in Seq(Stages) /\ Len(History[a]) = 0
    BY <2>1, <2>2, HistoryOf DEF HistoryTells
  <2>4. QED BY <2>3, EmptySeq
<1>2. QED BY <1>1 DEF History

(* An attempt's history moves on when a commit brings an event for it.     *)
LEMMA HistoryAppends ==
  ASSUME PipelineInv, PipelineInv', NEW p \in Actors, Commit(p),
         NEW a \in Attempts, NEW e \in work[p].events, e.attempt = a
  PROVE  Stepwise!Evolves(History[a], History'[a])
<1> DEFINE h == History[a]
           n == Count(a)
<1>1. /\ e \in StageEvent
      /\ EventsOf(a)' = EventsOf(a) \cup {e}
      /\ e.sequence = n + 1 /\ e.from = stage[a]
      /\ Count(a)' = n + 1
  BY CommitAppends
<1>2. /\ n \in Nat /\ h \in Seq(Stages) /\ Len(h) = n
      /\ \A f \in EventsOf(a) : f.sequence \in 1 .. n /\ h[f.sequence] = f.to
  BY HistoryOf DEF HistoryTells
<1>3. /\ History'[a] \in Seq(Stages) /\ Len(History'[a]) = n + 1
      /\ \A f \in EventsOf(a) \cup {e} : History'[a][f.sequence] = f.to
  <2>1. /\ Count(a)' \in Nat
        /\ History'[a] \in Seq(Stages)
        /\ Len(History'[a]) = Count(a)'
        /\ \A f \in EventsOf(a)' :
             f.sequence \in 1 .. Count(a)' /\ History'[a][f.sequence] = f.to
    BY HistoriesTell DEF HistoryTells
  <2>2. QED BY <1>1, <2>1
<1>4. e.to \in Stages
  BY <1>1 DEF StageEvent
<1>5. Chained(a) /\ Legal(e) /\ stage[a] \in Stages \cup {NoStage}
  BY DEF PipelineInv, PipelineTypeOK, WorkDecided, Decided, Commit
<1>6. \A m \in 1 .. n : \E f \in EventsOf(a) : f.sequence = m
  BY <1>5 DEF Chained
<1>7. \A m \in 1 .. n : History'[a][m] = h[m]
  BY <1>2, <1>3, <1>6
<1>8. History'[a] = Append(h, e.to)
  <2>1. Append(h, e.to) \in Seq(Stages) /\ Len(Append(h, e.to)) = n + 1
    BY <1>2, <1>4
  <2>2. \A m \in 1 .. n + 1 : Append(h, e.to)[m] = IF m = n + 1 THEN e.to ELSE h[m]
    BY <1>2, <1>4
  <2>3. History'[a][n + 1] = e.to
    BY <1>1, <1>3
  <2>4. \A m \in 1 .. n + 1 : History'[a][m] = Append(h, e.to)[m]
    BY <1>2, <1>7, <2>2, <2>3
  <2>5. QED BY <1>3, <2>1, <2>4, SeqEqual
<1>9. CASE n = 0
  <2>1. stage[a] = NoStage /\ h = <<>>
    BY <1>2, <1>5, <1>9, EmptySeq DEF Chained
  <2>2. e.to \in {"CONTACTED", "RESPONDED"}
    BY <1>1, <1>5, <2>1 DEF Legal
  <2>3. Append(h, e.to) = <<e.to>>
    BY <2>1
  <2>4. QED BY <1>8, <2>1, <2>2, <2>3 DEF Stepwise!Evolves
<1>10. CASE n # 0
  <2>1. PICK f \in EventsOf(a) : f.sequence = n
    BY <1>2, <1>6, <1>10
  <2>2. h[Len(h)] = stage[a]
    BY <1>2, <1>5, <2>1 DEF Chained
  <2>3. stage[a] \in Stages
    BY <1>2, <1>10, <2>2
  <2>4. ValidTransition(stage[a], e.to)
    BY <1>1, <1>5, <2>3, PipelineAssumption DEF Legal
  <2>5. e.to \in Stepwise!Followers[h[Len(h)]]
    BY <1>4, <2>2, <2>3, <2>4, TransitionsFollow
  <2>6. h # <<>>
    BY <1>2, <1>10
  <2>7. QED BY <1>8, <2>5, <2>6 DEF Stepwise!Evolves
<1>11. QED BY <1>9, <1>10

(* A step that adds no event leaves every history as it is.                *)
LEMMA HistoryKeeps ==
  ASSUME [Next]_vars, \A p \in Actors : ~Commit(p)
  PROVE  History' = History
<1>1. ledger' = ledger
  BY DEF Next, vars, CommitSend, RecordReply, Create, MoveStage, UpdateDetails,
         BeginSync, Open, Abandon
<1>2. QED BY <1>1 DEF History, EventsOf

LEMMA StepwiseStep ==
  ASSUME PipelineInv, PipelineInv', [Next]_vars
  PROVE  [Stepwise!Next]_History
<1>1. CASE \A p \in Actors : ~Commit(p)
  BY <1>1, HistoryKeeps
<1>2. ASSUME NEW p \in Actors, Commit(p) PROVE Stepwise!Next
  <2>1. DOMAIN History' = Attempts
    BY DEF History
  <2>2. ASSUME NEW a \in Attempts PROVE Stepwise!Evolves(History[a], History'[a])
    <3>1. CASE \A e \in work[p].events : e.attempt # a
      <4>1. EventsOf(a)' = EventsOf(a)
        BY <1>2, <3>1, CommitLeaves
      <4>2. History'[a] = History[a]
        BY <4>1 DEF History
      <4>3. QED BY <4>2 DEF Stepwise!Evolves
    <3>2. CASE \E e \in work[p].events : e.attempt = a
      BY <1>2, <3>2, HistoryAppends
    <3>3. QED BY <3>1, <3>2
  <2>3. QED BY <2>1, <2>2 DEF Stepwise!Next
<1>3. QED BY <1>1, <1>2

(* The pipeline, with its racing users and synchronization, implements     *)
(* PipelineStages: move_stage's rule holds of what is committed, not only  *)
(* of what a request has seen.                                             *)
THEOREM PipelineIsStepwise == Spec => OneDecisionAtATime
BY StepwiseInitial, StepwiseStep, PipelineInvariant, PTL
   DEF Spec, OneDecisionAtATime, Stepwise!Spec
=============================================================================
