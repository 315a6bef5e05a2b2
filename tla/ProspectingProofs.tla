-------------------------- MODULE ProspectingProofs --------------------------
(***************************************************************************)
(* Theorems about the scheduled work, CompanyDiscovery and                 *)
(* AutomationPolicies, for any rules, policies, users, catalogues, limits  *)
(* and bounds.                                                             *)
(***************************************************************************)
EXTENDS MCProspecting, FiniteLemmas, SequenceTheorems

-----------------------------------------------------------------------------
(* AutomationPolicies: the unique key of a run gives each slot of a        *)
(* schedule one batch that executes it, however batches overlap, break     *)
(* each other's deadlocks, commit in parts or are rolled back.             *)

Inserted(e) == IF batch[e] = NoBatch THEN {} ELSE batch[e].inserted

BatchFields == {"now", "todo", "rows", "runs", "written", "inserted"}

(* A slot is inserted by one open batch, or by one that has committed.     *)
SlotInv ==
  /\ DOMAIN batch = Executors
  /\ batch = [e \in Executors |-> batch[e]]
  /\ \A e \in Executors : batch[e] # NoBatch => DOMAIN batch[e] = BatchFields
  /\ \A e \in Executors : Inserted(e) \cap runs = {}
  /\ \A e, f \in Executors : e # f => Inserted(e) \cap Inserted(f) = {}
  /\ executed \in [PolicyRun -> Nat]
  /\ \A r \in PolicyRun : executed[r] = IF r \in runs THEN 1 ELSE 0

-----------------------------------------------------------------------------
LEMMA SlotInitial == PolicyInit => SlotInv
BY DEF PolicyInit, SlotInv, Inserted

(* What a step of batch e, other than a commit, may insert.                *)
LEMMA InsertKeeps ==
  ASSUME SlotInv, NEW e \in Executors, NEW b, UNCHANGED <<runs, executed>>,
         batch' = [batch EXCEPT ![e] = b],
         b = NoBatch \/ DOMAIN b = BatchFields,
         b # NoBatch => b.inserted \cap runs = {},
         b # NoBatch => \A f \in Executors \ {e} : b.inserted \cap Inserted(f) = {}
  PROVE  SlotInv'
<1>1. batch'[e] = b /\ \A f \in Executors \ {e} : batch'[f] = batch[f]
  BY DEF SlotInv
<1>2. /\ Inserted(e)' = IF b = NoBatch THEN {} ELSE b.inserted
      /\ \A f \in Executors \ {e} : Inserted(f)' = Inserted(f)
  BY <1>1 DEF Inserted
<1>3. QED BY <1>1, <1>2 DEF SlotInv

(* A commit, whole or in part: what was inserted is run, once.             *)
LEMMA PersistKeeps ==
  ASSUME SlotInv, NEW e \in Executors, NEW b, batch[e] # NoBatch, PersistDue(e),
         batch' = [batch EXCEPT ![e] = b],
         b = NoBatch \/ (DOMAIN b = BatchFields /\ b.inserted = {})
  PROVE  SlotInv'
<1>1. batch'[e] = b /\ \A f \in Executors \ {e} : batch'[f] = batch[f]
  BY DEF SlotInv
<1>2. /\ Inserted(e)' = {}
      /\ \A f \in Executors \ {e} : Inserted(f)' = Inserted(f)
  BY <1>1 DEF Inserted
<1>3. /\ runs' = runs \cup Inserted(e)
      /\ executed' = [r \in PolicyRun |->
           IF r \in Inserted(e) THEN executed[r] + 1 ELSE executed[r]]
  BY DEF PersistDue, Inserted
<1>4. \A r \in Inserted(e) : r \notin runs
  BY DEF SlotInv
<1>5. \A r \in PolicyRun : executed'[r] = IF r \in runs' THEN 1 ELSE 0
  BY <1>3, <1>4 DEF SlotInv
<1>6. executed' \in [PolicyRun -> Nat]
  BY <1>3 DEF SlotInv
<1>7. \A f \in Executors : Inserted(f)' \cap runs' = {}
  BY <1>2, <1>3 DEF SlotInv
<1>8. QED BY <1>1, <1>2, <1>5, <1>6, <1>7 DEF SlotInv

(* A slot is passed over, taken, or left to another batch.                 *)
LEMMA PassedShape ==
  ASSUME NEW b, DOMAIN b = BatchFields, NEW p
  PROVE  DOMAIN Passed(b, p) = BatchFields /\ Passed(b, p).inserted = b.inserted
BY DEF Passed, BatchFields

LEMMA TurnKeeps ==
  ASSUME SlotInv, NEW e \in Executors, NEW p \in Scopes,
         SkipExisting(e, p) \/ LoseSlot(e, p) \/ TakeSlot(e, p)
  PROVE  SlotInv'
<1>1. /\ batch[e] # NoBatch /\ DOMAIN batch[e] = BatchFields
      /\ Inserted(e) = batch[e].inserted
  BY DEF SlotInv, HasTurn, SkipExisting, LoseSlot, TakeSlot, Inserted
<1>2. /\ Inserted(e) \cap runs = {}
      /\ \A f \in Executors \ {e} : Inserted(e) \cap Inserted(f) = {}
  BY DEF SlotInv
<1>3. CASE SkipExisting(e, p)
  <2> DEFINE b == Passed(batch[e], p)
  <2>1. batch' = [batch EXCEPT ![e] = b] /\ UNCHANGED <<runs, executed>>
    BY <1>3 DEF SkipExisting
  <2>2. DOMAIN b = BatchFields /\ b.inserted = Inserted(e)
    BY <1>1, PassedShape
  <2> HIDE DEF b
  <2>3. QED BY <1>2, <2>1, <2>2, InsertKeeps
<1>4. CASE LoseSlot(e, p)
  <2> DEFINE b == [batch[e] EXCEPT !.todo = Tail(batch[e].todo)]
  <2>1. batch' = [batch EXCEPT ![e] = b] /\ UNCHANGED <<runs, executed>>
    BY <1>4 DEF LoseSlot
  <2>2. DOMAIN b = BatchFields /\ b.inserted = Inserted(e)
    BY <1>1 DEF BatchFields
  <2> HIDE DEF b
  <2>3. QED BY <1>2, <2>1, <2>2, InsertKeeps
<1>5. CASE TakeSlot(e, p)
  <2> DEFINE slot == SlotOf(batch[e], p)
             c == Passed(batch[e], p)
             b == [c EXCEPT !.inserted = c.inserted \cup {slot}]
  <2>1. batch' = [batch EXCEPT ![e] = b] /\ UNCHANGED <<runs, executed>>
    BY <1>5 DEF TakeSlot
  <2>2. DOMAIN c = BatchFields /\ c.inserted = Inserted(e)
    BY <1>1, PassedShape
  <2>3. slot \notin runs
    BY <1>5 DEF TakeSlot
  <2>4. \A f \in Executors \ {e} : slot \notin Inserted(f)
    BY <1>5 DEF TakeSlot, Uninserted, Inserted
  <2> HIDE DEF slot, c
  <2>5. DOMAIN b = BatchFields /\ b.inserted = Inserted(e) \cup {slot}
    BY <2>2 DEF BatchFields
  <2> HIDE DEF b
  <2>6. QED BY <1>2, <2>1, <2>3, <2>4, <2>5, InsertKeeps
<1>6. QED BY <1>3, <1>4, <1>5

LEMMA SlotStep ==
  ASSUME SlotInv, [PolicyNext]_policyVars
  PROVE  SlotInv'
<1>1. CASE UNCHANGED policyVars
  BY <1>1 DEF policyVars, SlotInv, Inserted
<1>2. CASE \/ NextPeriod
           \/ \E p \in Scopes : CreatePolicy(p) \/ \E row \in Policy : UpdatePolicy(p, row)
  <2>1. UNCHANGED <<runs, batch, executed>>
    BY <1>2 DEF NextPeriod, CreatePolicy, UpdatePolicy
  <2>2. QED BY <2>1 DEF SlotInv, Inserted
<1>3. ASSUME NEW e \in Executors, BeginDue(e) PROVE SlotInv'
  <2> DEFINE b == [now |-> period, todo |-> DueSequence, rows |-> policies,
                   runs |-> runs, written |-> <<>>, inserted |-> {}]
  <2>1. batch' = [batch EXCEPT ![e] = b] /\ UNCHANGED <<runs, executed>>
    BY <1>3 DEF BeginDue
  <2>2. DOMAIN b = BatchFields /\ b.inserted = {}
    BY DEF BatchFields
  <2> HIDE DEF b
  <2>3. QED BY <2>1, <2>2, InsertKeeps
<1>4. ASSUME NEW e \in Executors, NEW p \in Scopes,
             SkipExisting(e, p) \/ LoseSlot(e, p) \/ TakeSlot(e, p)
      PROVE  SlotInv'
  BY <1>4, TurnKeeps
<1>5. ASSUME NEW e \in Executors, CommitDue(e) PROVE SlotInv'
  BY <1>5, PersistKeeps DEF CommitDue
<1>6. ASSUME NEW e \in Executors, CommitPart(e) PROVE SlotInv'
  <2> DEFINE b == [batch[e] EXCEPT !.runs = runs', !.written = <<>>, !.inserted = {}]
  <2>1. batch[e] # NoBatch /\ PersistDue(e) /\ batch' = [batch EXCEPT ![e] = b]
    BY <1>6 DEF CommitPart
  <2>2. DOMAIN b = BatchFields /\ b.inserted = {}
    BY <2>1 DEF SlotInv, BatchFields
  <2> HIDE DEF b
  <2>3. QED BY <2>1, <2>2, PersistKeeps
<1>7. ASSUME NEW e \in Executors, BreakDeadlock(e) \/ RollBackDue(e) PROVE SlotInv'
  <2>1. batch' = [batch EXCEPT ![e] = NoBatch] /\ UNCHANGED <<runs, executed>>
    BY <1>7 DEF BreakDeadlock, RollBackDue
  <2>2. QED BY <2>1, InsertKeeps
<1>8. QED BY <1>1, <1>2, <1>3, <1>4, <1>5, <1>6, <1>7 DEF PolicyNext, ProceedDue

(* The workflow of a slot takes effect once, by the unique key of          *)
(* AutomationPolicyRun: cron beside run-due requests, crashes, retries and *)
(* partial commits included.                                               *)
THEOREM SlotAlwaysRunsOnce == PolicySpec => []SlotRunsOnce
<1>1. SlotInv => SlotRunsOnce
  BY DEF SlotInv, SlotRunsOnce
<1>2. QED BY <1>1, SlotInitial, SlotStep, PTL DEF PolicySpec

-----------------------------------------------------------------------------
(* Policies are never deleted: those that an open batch has read, has      *)
(* still to do or has written are rows of the table.                       *)
Read(b) == {p \in Scopes : b.rows[p] # NoPolicy}

BatchOK(b, table) ==
  /\ DOMAIN b = BatchFields
  /\ b.now \in Periods
  /\ b.rows \in [Scopes -> Policy \cup {NoPolicy}]
  /\ \A p \in Read(b) : table[p] # NoPolicy
  /\ b.todo \in Seq(Read(b))
  /\ DOMAIN b.written \subseteq Read(b)
  /\ \A p \in DOMAIN b.written : b.written[p].next \in 0 .. LastPeriod + 1
  /\ b.inserted \subseteq PolicyRun

PolicyInv ==
  /\ PolicyTypeOK
  /\ \A e \in Executors : batch[e] # NoBatch => BatchOK(batch[e], policies)

(* The batch takes policies that are due: they can be put in the order of  *)
(* the query.                                                              *)
LEMMA DueSequenceIsDue ==
  ASSUME PolicyInv
  PROVE  DueSequence \in Seq({p \in Scopes : DuePolicy(p)})
<1> DEFINE due == {p \in Scopes : DuePolicy(p)}
           R == {pq \in due \X due : Sooner(pq[1], pq[2])}
           Sorted(s) == \A i, j \in DOMAIN s : i < j => Sooner(s[i], s[j])
           order == CHOOSE s \in SetToSeqs(due) : Sorted(s)
<1>1. IsFiniteSet(due)
  BY PolicyAssumption, FS_Subset
<1>2. \A p \in due : p \in Nat /\ policies[p].next \in Nat
  BY PolicyAssumption DEF PolicyInv, PolicyTypeOK, Policy, DuePolicy
<1>3. \A p, q : <<p, q>> \in R <=> p \in due /\ q \in due /\ Sooner(p, q)
  OBVIOUS
<1>4. Orders(R, due)
  <2> HIDE DEF R, due
  <2>1. QED BY <1>2, <1>3 DEF Orders, Sooner
<1> HIDE DEF R, due
<1>5. \E s \in SetToSeqs(due) : Sorted(s)
  BY <1>1, <1>3, <1>4, OrderedExists
<1>6. order \in SetToSeqs(due)
  <2> HIDE DEF Sorted
  <2>1. QED BY <1>5
<1>7. DueSequence = SubSeq(order, 1, IF DueLimit < Len(order) THEN DueLimit ELSE Len(order))
  BY DEF DueSequence, due
<1> HIDE DEF order
<1>8. order \in Seq(due) /\ Len(order) \in Nat
  BY <1>1, <1>6, SetToSeqsType
<1> DEFINE k == IF DueLimit < Len(order) THEN DueLimit ELSE Len(order)
<1>9. k \in Nat /\ k <= Len(order)
  BY <1>8, PolicyAssumption
<1>10. SubSeq(order, 1, k) \in Seq(due)
  <2> HIDE DEF k
  <2>1. QED BY <1>8, <1>9, SubSeqProperties
<1>11. QED BY <1>7, <1>10 DEF due

LEMMA PolicyInitial == PolicyInit => PolicyInv
<1> SUFFICES ASSUME PolicyInit PROVE PolicyInv
  OBVIOUS
<1>1. {LastPeriod, MaxEdits, MaxLost} \subseteq Nat
  BY PolicyAssumption
<1>2. \A e \in Executors : batch[e] = NoBatch
  BY DEF PolicyInit
<1>3. PolicyTypeOK
  <2>1. [next |-> 0, enabled |-> TRUE] \in Policy
    BY <1>1 DEF Policy
  <2>2. policies \in [Scopes -> Policy \cup {NoPolicy}]
    BY <2>1 DEF PolicyInit
  <2>3. executed \in [PolicyRun -> Nat]
    BY DEF PolicyInit
  <2>4. QED BY <1>1, <2>2, <2>3 DEF PolicyInit, PolicyTypeOK, Periods
<1>4. QED BY <1>2, <1>3 DEF PolicyInv

(* One batch changes, and no policy is deleted.                            *)
LEMMA PolicyKeeps ==
  ASSUME PolicyInv, PolicyTypeOK', NEW e \in Executors, NEW b,
         batch' = [batch EXCEPT ![e] = b],
         b # NoBatch => BatchOK(b, policies'),
         \A p \in Scopes : policies[p] # NoPolicy => policies'[p] # NoPolicy
  PROVE  PolicyInv'
<1>1. batch'[e] = b /\ \A f \in Executors \ {e} : batch'[f] = batch[f]
  BY DEF PolicyInv, PolicyTypeOK
<1>2. ASSUME NEW f \in Executors \ {e}, batch[f] # NoBatch
      PROVE  BatchOK(batch[f], policies')
  <2>1. BatchOK(batch[f], policies)
    BY <1>2 DEF PolicyInv
  <2>2. Read(batch[f]) \subseteq Scopes
    BY DEF Read
  <2>3. QED BY <2>1, <2>2 DEF BatchOK
<1>3. QED BY <1>1, <1>2 DEF PolicyInv

LEMMA PassedOK ==
  ASSUME PolicyInv, NEW b, BatchOK(b, policies), b.todo # <<>>,
         NEW p, p = Head(b.todo)
  PROVE  BatchOK(Passed(b, p), policies)
<1> DEFINE c == Passed(b, p)
<1>1. p \in Read(b) /\ Tail(b.todo) \in Seq(Read(b))
  BY DEF BatchOK
<1>2. b.now + 1 \in 0 .. LastPeriod + 1
  BY PolicyAssumption DEF BatchOK, Periods
<1>3. DOMAIN c = BatchFields
  BY DEF Passed, BatchOK, BatchFields
<1>4. /\ c.now = b.now /\ c.rows = b.rows /\ c.inserted = b.inserted
      /\ c.todo = Tail(b.todo)
      /\ c.written = [x \in DOMAIN b.written \cup {p} |->
                        IF x = p THEN [next |-> b.now + 1] ELSE b.written[x]]
  BY DEF Passed, BatchOK, BatchFields
<1>5. DOMAIN c.written = DOMAIN b.written \cup {p}
  BY <1>4
<1>6. \A x \in DOMAIN c.written : c.written[x].next \in 0 .. LastPeriod + 1
  BY <1>2, <1>4 DEF BatchOK
<1> HIDE DEF c
<1>7. Read(c) = Read(b)
  BY <1>4 DEF Read
<1>8. BatchOK(c, policies)
  BY <1>1, <1>3, <1>4, <1>5, <1>6, <1>7 DEF BatchOK
<1>9. QED BY <1>8 DEF c

LEMMA PolicyTurnKeeps ==
  ASSUME PolicyInv, NEW e \in Executors, NEW p \in Scopes,
         SkipExisting(e, p) \/ LoseSlot(e, p) \/ TakeSlot(e, p)
  PROVE  PolicyInv'
<1>1. /\ HasTurn(e, p) /\ batch[e] # NoBatch
      /\ UNCHANGED <<period, policies, runs, executed, policyEdits, rollbacks>>
  BY DEF SkipExisting, LoseSlot, TakeSlot, HasTurn
<1>2. BatchOK(batch[e], policies) /\ batch[e].todo # <<>> /\ p = Head(batch[e].todo)
  BY <1>1 DEF PolicyInv, HasTurn
<1>3. DOMAIN batch' = Executors
  BY DEF SkipExisting, LoseSlot, TakeSlot, PolicyInv, PolicyTypeOK
<1>4. PolicyTypeOK'
  BY <1>1, <1>3 DEF PolicyInv, PolicyTypeOK
<1>5. CASE SkipExisting(e, p)
  <2>1. batch' = [batch EXCEPT ![e] = Passed(batch[e], p)]
    BY <1>5 DEF SkipExisting
  <2>2. BatchOK(Passed(batch[e], p), policies')
    BY <1>1, <1>2, PassedOK
  <2>3. QED BY <1>1, <1>4, <2>1, <2>2, PolicyKeeps
<1>6. CASE LoseSlot(e, p)
  <2> DEFINE b == [batch[e] EXCEPT !.todo = Tail(batch[e].todo)]
  <2>1. batch' = [batch EXCEPT ![e] = b]
    BY <1>6 DEF LoseSlot
  <2>2. /\ DOMAIN b = BatchFields /\ b.todo = Tail(batch[e].todo)
        /\ b.now = batch[e].now /\ b.rows = batch[e].rows
        /\ b.written = batch[e].written /\ b.inserted = batch[e].inserted
    BY <1>2 DEF BatchOK, BatchFields
  <2> HIDE DEF b
  <2>3. Read(b) = Read(batch[e]) /\ Tail(batch[e].todo) \in Seq(Read(b))
    BY <1>2, <2>2 DEF Read, BatchOK
  <2>4. BatchOK(b, policies')
    BY <1>1, <1>2, <2>2, <2>3 DEF BatchOK
  <2>5. QED BY <1>1, <1>4, <2>1, <2>4, PolicyKeeps
<1>7. CASE TakeSlot(e, p)
  <2> DEFINE slot == SlotOf(batch[e], p)
             c == Passed(batch[e], p)
             b == [c EXCEPT !.inserted = c.inserted \cup {slot}]
  <2>1. batch' = [batch EXCEPT ![e] = b]
    BY <1>7 DEF TakeSlot
  <2>2. BatchOK(c, policies)
    BY <1>2, PassedOK
  <2>3. p \in Read(batch[e]) /\ batch[e].rows \in [Scopes -> Policy \cup {NoPolicy}]
    BY <1>2 DEF BatchOK
  <2>4. slot \in PolicyRun
    BY <2>3 DEF SlotOf, PolicyRun, Policy, Read
  <2> HIDE DEF slot, c
  <2>5. /\ DOMAIN b = BatchFields /\ b.todo = c.todo
        /\ b.now = c.now /\ b.rows = c.rows
        /\ b.written = c.written /\ b.inserted = c.inserted \cup {slot}
    BY <2>2 DEF BatchOK, BatchFields
  <2> HIDE DEF b
  <2>6. Read(b) = Read(c)
    BY <2>5 DEF Read
  <2>7. BatchOK(b, policies')
    BY <1>1, <2>2, <2>4, <2>5, <2>6 DEF BatchOK
  <2>8. QED BY <1>1, <1>4, <2>1, <2>7, PolicyKeeps
<1>8. QED BY <1>5, <1>6, <1>7

(* A commit writes the schedule of policies that exist, and no switch.     *)
LEMMA PersistWrites ==
  ASSUME PolicyInv, NEW e \in Executors, batch[e] # NoBatch, PersistDue(e)
  PROVE  /\ policies' \in [Scopes -> Policy \cup {NoPolicy}]
         /\ \A p \in Scopes : policies[p] # NoPolicy =>
              policies'[p] # NoPolicy /\ policies'[p].enabled = policies[p].enabled
         /\ runs' \subseteq PolicyRun /\ executed' \in [PolicyRun -> Nat]
<1>1. BatchOK(batch[e], policies)
  BY DEF PolicyInv
<1>2. policies \in [Scopes -> Policy \cup {NoPolicy}] /\ runs \subseteq PolicyRun
      /\ executed \in [PolicyRun -> Nat]
  BY DEF PolicyInv, PolicyTypeOK
<1>3. ASSUME NEW p \in DOMAIN batch[e].written
      PROVE  /\ p \in Scopes /\ policies[p] \in Policy
             /\ WrittenBack(batch[e], p) \in Policy
             /\ WrittenBack(batch[e], p).enabled = policies[p].enabled
  <2>1. p \in Scopes /\ policies[p] # NoPolicy
    BY <1>1 DEF BatchOK, Read
  <2>2. policies[p] \in Policy /\ batch[e].written[p].next \in 0 .. LastPeriod + 1
    BY <1>1, <1>2, <2>1 DEF BatchOK
  <2>3. QED BY <2>1, <2>2 DEF WrittenBack, Policy
<1>4. NoPolicy \notin Policy
  BY PolicyAssumption
<1>5. policies' = [p \in Scopes |-> IF p \in DOMAIN batch[e].written
                                    THEN WrittenBack(batch[e], p) ELSE policies[p]]
  BY DEF PersistDue
<1>6. policies' \in [Scopes -> Policy \cup {NoPolicy}]
  BY <1>2, <1>3, <1>5
<1>7. \A p \in Scopes : policies[p] # NoPolicy =>
        policies'[p] # NoPolicy /\ policies'[p].enabled = policies[p].enabled
  BY <1>3, <1>4, <1>5
<1>8. runs' \subseteq PolicyRun
  BY <1>1, <1>2 DEF PersistDue, BatchOK
<1>9. executed' \in [PolicyRun -> Nat]
  BY <1>2 DEF PersistDue
<1>10. QED BY <1>6, <1>7, <1>8, <1>9

LEMMA PolicyStep ==
  ASSUME PolicyInv, [PolicyNext]_policyVars
  PROVE  PolicyInv'
<1>1. CASE UNCHANGED policyVars
  BY <1>1 DEF policyVars, PolicyInv, PolicyTypeOK
<1>2. CASE NextPeriod
  <2>1. period' \in Periods
    BY <1>2, PolicyAssumption DEF NextPeriod, PolicyInv, PolicyTypeOK, Periods
  <2>2. QED BY <1>2, <2>1 DEF NextPeriod, PolicyInv, PolicyTypeOK
<1>3. ASSUME NEW p \in Scopes, CreatePolicy(p) \/ \E row \in Policy : UpdatePolicy(p, row)
      PROVE  PolicyInv'
  <2>1. PICK row \in Policy : policies' = [policies EXCEPT ![p] = row]
    <3>1. CASE CreatePolicy(p)
      <4>1. [next |-> period, enabled |-> TRUE] \in Policy
        BY PolicyAssumption DEF PolicyInv, PolicyTypeOK, Policy, Periods
      <4>2. QED BY <3>1, <4>1 DEF CreatePolicy
    <3>2. CASE \E row \in Policy : UpdatePolicy(p, row)
      BY <3>2 DEF UpdatePolicy
    <3>3. QED BY <1>3, <3>1, <3>2
  <2>2. UNCHANGED <<period, runs, batch, executed, rollbacks>>
        /\ policyEdits' \in 0 .. MaxEdits
    BY <1>3, PolicyAssumption DEF CreatePolicy, UpdatePolicy, PolicyInv, PolicyTypeOK
  <2>3. policies' \in [Scopes -> Policy \cup {NoPolicy}]
        /\ \A q \in Scopes : policies[q] # NoPolicy => policies'[q] # NoPolicy
    BY <2>1, PolicyAssumption DEF PolicyInv, PolicyTypeOK
  <2>4. PolicyTypeOK'
    BY <2>2, <2>3 DEF PolicyInv, PolicyTypeOK
  <2>5. ASSUME NEW f \in Executors, batch[f] # NoBatch PROVE BatchOK(batch[f], policies')
    <3>1. BatchOK(batch[f], policies) /\ Read(batch[f]) \subseteq Scopes
      BY <2>5 DEF PolicyInv, Read
    <3>2. QED BY <2>3, <3>1 DEF BatchOK
  <2>6. QED BY <2>2, <2>4, <2>5 DEF PolicyInv
<1>4. ASSUME NEW e \in Executors, BeginDue(e) PROVE PolicyInv'
  <2> DEFINE b == [now |-> period, todo |-> DueSequence, rows |-> policies,
                   runs |-> runs, written |-> <<>>, inserted |-> {}]
  <2>1. batch' = [batch EXCEPT ![e] = b]
        /\ UNCHANGED <<period, policies, runs, executed, policyEdits, rollbacks>>
    BY <1>4 DEF BeginDue
  <2>2. PolicyTypeOK'
    BY <2>1 DEF PolicyInv, PolicyTypeOK
  <2>3. /\ DOMAIN b = BatchFields /\ b.inserted = {} /\ b.now = period
        /\ b.rows = policies /\ b.todo = DueSequence /\ b.written = <<>>
    BY DEF BatchFields
  <2>4. DOMAIN b.written = {}
    BY <2>3
  <2> HIDE DEF b
  <2>5. Read(b) = {p \in Scopes : policies[p] # NoPolicy}
    BY <2>3 DEF Read
  <2>6. {p \in Scopes : DuePolicy(p)} \subseteq Read(b)
    BY <2>5 DEF DuePolicy
  <2>7. DueSequence \in Seq(Read(b))
    BY <2>6, DueSequenceIsDue
  <2>8. BatchOK(b, policies')
    BY <2>1, <2>3, <2>4, <2>5, <2>7 DEF BatchOK, PolicyInv, PolicyTypeOK
  <2>9. QED BY <2>1, <2>2, <2>8, PolicyKeeps
<1>5. ASSUME NEW e \in Executors, NEW p \in Scopes,
             SkipExisting(e, p) \/ LoseSlot(e, p) \/ TakeSlot(e, p)
      PROVE  PolicyInv'
  BY <1>5, PolicyTurnKeeps
<1>6. ASSUME NEW e \in Executors, CommitDue(e) PROVE PolicyInv'
  <2>1. batch[e] # NoBatch /\ PersistDue(e) /\ batch' = [batch EXCEPT ![e] = NoBatch]
    BY <1>6 DEF CommitDue
  <2>2. PolicyTypeOK'
    BY <2>1, PersistWrites DEF PolicyInv, PolicyTypeOK, PersistDue
  <2>3. QED BY <2>1, <2>2, PersistWrites, PolicyKeeps
<1>7. ASSUME NEW e \in Executors, CommitPart(e) PROVE PolicyInv'
  <2> DEFINE b == [batch[e] EXCEPT !.runs = runs', !.written = <<>>, !.inserted = {}]
  <2>1. batch[e] # NoBatch /\ PersistDue(e) /\ batch' = [batch EXCEPT ![e] = b]
    BY <1>7 DEF CommitPart
  <2>2. BatchOK(batch[e], policies)
    BY <2>1 DEF PolicyInv
  <2>3. /\ DOMAIN b = BatchFields /\ b.inserted = {} /\ b.now = batch[e].now
        /\ b.rows = batch[e].rows /\ b.todo = batch[e].todo /\ b.written = <<>>
    BY <2>2 DEF BatchOK, BatchFields
  <2>4. DOMAIN b.written = {}
    BY <2>3
  <2> HIDE DEF b
  <2>5. Read(b) = Read(batch[e]) /\ Read(b) \subseteq Scopes
    BY <2>3 DEF Read
  <2>6. /\ policies' \in [Scopes -> Policy \cup {NoPolicy}]
        /\ \A p \in Scopes : policies[p] # NoPolicy => policies'[p] # NoPolicy
        /\ runs' \subseteq PolicyRun /\ executed' \in [PolicyRun -> Nat]
    BY <2>1, PersistWrites
  <2>7. BatchOK(b, policies')
    BY <2>2, <2>3, <2>4, <2>5, <2>6 DEF BatchOK
  <2>8. PolicyTypeOK'
    BY <2>1, <2>6 DEF PolicyInv, PolicyTypeOK, PersistDue
  <2>9. QED BY <2>1, <2>6, <2>7, <2>8, PolicyKeeps
<1>8. ASSUME NEW e \in Executors, BreakDeadlock(e) \/ RollBackDue(e) PROVE PolicyInv'
  <2>1. batch' = [batch EXCEPT ![e] = NoBatch]
        /\ UNCHANGED <<period, policies, runs, executed, policyEdits>>
        /\ rollbacks' \in 0 .. MaxLost
    BY <1>8, PolicyAssumption DEF BreakDeadlock, RollBackDue, PolicyInv, PolicyTypeOK
  <2>2. PolicyTypeOK'
    BY <2>1 DEF PolicyInv, PolicyTypeOK
  <2>3. QED BY <2>1, <2>2, PolicyKeeps
<1>9. QED BY <1>1, <1>2, <1>3, <1>4, <1>5, <1>6, <1>7, <1>8 DEF PolicyNext, ProceedDue

(* Only a commit of a batch and an administrator's request write policies, *)
(* and the batch leaves the switch as it finds it.                         *)
LEMMA SwitchStep ==
  ASSUME PolicyInv, PolicyNext, NEW p \in Scopes, policies[p] # NoPolicy,
         policies'[p].enabled # policies[p].enabled
  PROVE  UNCHANGED batch
<1>1. ASSUME NEW e \in Executors, CommitDue(e) \/ CommitPart(e) PROVE FALSE
  <2>1. batch[e] # NoBatch /\ PersistDue(e)
    BY <1>1 DEF CommitDue, CommitPart
  <2>2. QED BY <2>1, PersistWrites
<1>2. ASSUME UNCHANGED policies PROVE FALSE
  BY <1>2
<1>3. CASE NextPeriod
  BY <1>2, <1>3 DEF NextPeriod
<1>4. ASSUME NEW q \in Scopes, CreatePolicy(q) \/ \E row \in Policy : UpdatePolicy(q, row)
      PROVE  UNCHANGED batch
  BY <1>4 DEF CreatePolicy, UpdatePolicy
<1>5. ASSUME NEW e \in Executors,
             \/ BeginDue(e) \/ BreakDeadlock(e) \/ RollBackDue(e)
             \/ \E q \in Scopes : SkipExisting(e, q) \/ LoseSlot(e, q) \/ TakeSlot(e, q)
      PROVE  FALSE
  BY <1>2, <1>5 DEF BeginDue, BreakDeadlock, RollBackDue, SkipExisting, LoseSlot, TakeSlot
<1>6. QED BY <1>1, <1>3, <1>4, <1>5 DEF PolicyNext, ProceedDue

LEMMA PolicyInvariant == PolicySpec => []PolicyInv
BY PolicyInitial, PolicyStep, PTL DEF PolicySpec

(* An administrator who switches a policy off is not overruled by a batch  *)
(* that read it before: it writes back the column it changes.              *)
THEOREM SwitchAlwaysStands == PolicySpec => SwitchStands
<1> DEFINE Only == \A p \in Scopes :
             policies[p] # NoPolicy /\ policies'[p].enabled # policies[p].enabled
               => UNCHANGED batch
<1>1. PolicyInv /\ [PolicyNext]_policyVars => [Only]_policyVars
  BY SwitchStep
<1>2. QED BY <1>1, PolicyInvariant, PTL DEF PolicySpec, SwitchStands

-----------------------------------------------------------------------------
(* CompanyDiscovery, first half: what a rule's stored offset promises, and *)
(* what an open transaction may still write of it.                         *)

SearchFields ==
  {"day", "todo", "scheduled", "rules", "known", "spent", "rows", "edit",
   "slots", "adds", "spends", "page"}

ColumnNames == {"criteria", "offset", "nextRun", "enabled", "origin"}

ReadRules(w) == {r \in Rules : w.rules[r] # NoRule}

(* Every result before an offset, of whatever criteria its origin allows,  *)
(* is among the companies K or was refused.                                *)
Covers(offset, origin, K) ==
  \A c \in Criteria : origin \subseteq {c} =>
    \A i \in 1 .. offset : Catalogue[c][i] \in K \cup InvalidDomains

(* Columns to be written are typed, and the offset among them is covered.  *)
ColumnsOK(x, K) ==
  /\ DOMAIN x \subseteq ColumnNames
  /\ "criteria" \in DOMAIN x => x.criteria \in Criteria
  /\ "nextRun" \in DOMAIN x => x.nextRun \in 0 .. LastDay + 1
  /\ "enabled" \in DOMAIN x => x.enabled \in BOOLEAN
  /\ "offset" \in DOMAIN x <=> "origin" \in DOMAIN x
  /\ "offset" \in DOMAIN x =>
       x.offset \in Offsets /\ x.origin \subseteq Criteria /\ Covers(x.offset, x.origin, K)

(* The page an answer holds: of the offset asked for, or of the start.     *)
PageOK(w) ==
  /\ w.page \in Page /\ w.todo # <<>>
  /\ LET row == w.rules[Head(w.todo)]
         o == w.page.offset
         n == Len(w.page.found)
     IN /\ o \in {0, row.offset}
        /\ row.criteria \notin PaidCriteria =>
             \A j \in 1 .. n :
               /\ o + j \in 1 .. Len(Catalogue[row.criteria])
               /\ w.page.found[j] = Catalogue[row.criteria][o + j]

(* A transaction w, while table, now and K are the rules, the day and the  *)
(* companies: its snapshot is of the past, its writes are covered by what  *)
(* is stored and what it adds.                                             *)
SearchOK(w, table, now, K) ==
  /\ DOMAIN w = SearchFields
  /\ w.day \in 0 .. now /\ w.scheduled \in BOOLEAN
  /\ w.rules \in [Rules -> Rule \cup {NoRule}]
  /\ \A r \in ReadRules(w) :
       table[r] # NoRule /\ Covers(w.rules[r].offset, w.rules[r].origin, K)
  /\ w.todo \in Seq(ReadRules(w))
  /\ w.known \subseteq K /\ w.adds \subseteq Domains
  /\ w.slots \subseteq Rules \X (0 .. LastDay + 1)
  /\ DOMAIN w.rows \subseteq ReadRules(w) /\ DOMAIN w.edit \subseteq ReadRules(w)
  /\ \A r \in DOMAIN w.rows : ColumnsOK(w.rows[r], K \cup w.adds)
  /\ \A r \in DOMAIN w.edit : ColumnsOK(w.edit[r], K \cup w.adds)
  /\ w.page = NoPage \/ PageOK(w)

(* Every offset, stored or about to be, is covered.                        *)
DiscoveryInv ==
  /\ DiscoveryTypeOK
  /\ \A r \in Rules : rules[r] # NoRule => Covers(rules[r].offset, rules[r].origin, known)
  /\ \A a \in DOMAIN search : SearchOK(search[a], rules, today, known)


-----------------------------------------------------------------------------
LEMMA CatalogueFacts ==
  ASSUME NEW c \in Criteria
  PROVE  /\ Catalogue[c] \in Seq(Domains) /\ Len(Catalogue[c]) \in Nat
         /\ \A i \in 1 .. Len(Catalogue[c]) : i \in Offsets /\ Catalogue[c][i] \in Domains
<1> DEFINE s == Catalogue[c]
<1>1. s \in Seq(Domains) /\ IsInjective(s) /\ IsFiniteSet(Domains)
  BY DiscoveryAssumption
<1>2. Len(s) \in Nat /\ s \in [1 .. Len(s) -> Domains]
  BY <1>1
<1>3. \A i, j \in 1 .. Len(s) : s[i] = s[j] => i = j
  BY <1>1, <1>2 DEF IsInjective
<1>4. s \in Injection(1 .. Len(s), Domains)
  BY <1>1, <1>2, <1>3 DEF Injection, IsInjective
<1>5. Cardinality(1 .. Len(s)) <= Cardinality(Domains)
  BY <1>1, <1>4, FS_Injection
<1>6. \A n \in Nat : Cardinality(1 .. n) = n
  BY FS_Interval
<1>7. Cardinality(Domains) \in Nat
  BY <1>1, FS_CardinalityType
<1> HIDE DEF s
<1>8. \A i \in 1 .. Len(s) : i \in Offsets /\ s[i] \in Domains
  BY <1>2, <1>5, <1>6, <1>7 DEF Offsets
<1>9. QED BY <1>1, <1>2, <1>8 DEF s

(* What is covered stays so, and so do the columns and transactions that   *)
(* rely on it: the list only grows, rules are never deleted.               *)
LEMMA ColumnsMonotone ==
  ASSUME NEW x, NEW K, ColumnsOK(x, K), NEW L, K \subseteq L
  PROVE  ColumnsOK(x, L)
BY DEF ColumnsOK, Covers

LEMMA SearchMonotone ==
  ASSUME NEW w, NEW t, NEW n \in Nat, NEW K, SearchOK(w, t, n, K),
         NEW u, \A r \in Rules : t[r] # NoRule => u[r] # NoRule,
         NEW m \in Nat, n <= m, NEW L, K \subseteq L
  PROVE  SearchOK(w, u, m, L)
<1>1. K \cup w.adds \subseteq L \cup w.adds
  OBVIOUS
<1>2. /\ \A r \in DOMAIN w.rows : ColumnsOK(w.rows[r], L \cup w.adds)
      /\ \A r \in DOMAIN w.edit : ColumnsOK(w.edit[r], L \cup w.adds)
  BY <1>1, ColumnsMonotone DEF SearchOK
<1>3. \A r \in ReadRules(w) :
        u[r] # NoRule /\ Covers(w.rules[r].offset, w.rules[r].origin, L)
  BY DEF SearchOK, Covers, ReadRules
<1>4. w.day \in 0 .. m /\ w.known \subseteq L
  BY DEF SearchOK
<1>5. QED BY <1>2, <1>3, <1>4 DEF SearchOK

LEMMA WithFacts ==
  ASSUME NEW a \in SearchActors, NEW w, DOMAIN search \subseteq SearchActors
  PROVE  /\ DOMAIN With(a, w) = DOMAIN search \cup {a}
         /\ DOMAIN With(a, w) \subseteq SearchActors
         /\ With(a, w)[a] = w
         /\ \A b \in DOMAIN search \ {a} : With(a, w)[b] = search[b]
         /\ DOMAIN Without(a) = DOMAIN search \ {a}
         /\ \A b \in DOMAIN Without(a) : Without(a)[b] = search[b]
BY DEF With, Without

LEMMA SearchesKeep ==
  ASSUME DiscoveryInv, DiscoveryTypeOK', NEW a \in SearchActors, NEW w,
         \/ search' = With(a, w) /\ SearchOK(w, rules', today', known')
         \/ search' = Without(a),
         \A r \in Rules : rules[r] # NoRule => rules'[r] # NoRule,
         today <= today', known \subseteq known',
         \A r \in Rules : rules'[r] # NoRule =>
           Covers(rules'[r].offset, rules'[r].origin, known')
  PROVE  DiscoveryInv'
<1>1. DOMAIN search \subseteq SearchActors
  BY DEF DiscoveryInv, DiscoveryTypeOK
<1>2. today \in Nat /\ today' \in Nat
  BY DiscoveryAssumption DEF DiscoveryInv, DiscoveryTypeOK, SearchDays
<1>3. ASSUME NEW b \in DOMAIN search
      PROVE  SearchOK(search[b], rules', today', known')
  <2>1. SearchOK(search[b], rules, today, known)
    BY <1>3 DEF DiscoveryInv
  <2>2. QED BY <1>2, <2>1, SearchMonotone
<1>4. ASSUME NEW b \in DOMAIN search' PROVE SearchOK(search'[b], rules', today', known')
  <2>1. CASE search' = Without(a)
    <3>1. b \in DOMAIN search /\ search'[b] = search[b]
      BY <1>1, <1>4, <2>1, WithFacts
    <3>2. QED BY <1>3, <3>1
  <2>2. CASE search' = With(a, w) /\ SearchOK(w, rules', today', known')
    <3>1. \/ b = a /\ search'[b] = w
          \/ b \in DOMAIN search /\ search'[b] = search[b]
      <4>1. DOMAIN With(a, w) = DOMAIN search \cup {a} /\ With(a, w)[a] = w
        BY <1>1, WithFacts
      <4>2. \A c \in DOMAIN search \ {a} : With(a, w)[c] = search[c]
        BY DEF With
      <4>3. search' = With(a, w)
        BY <2>2
      <4>4. QED BY <1>4, <4>1, <4>2, <4>3
    <3>2. QED BY <1>3, <2>2, <3>1
  <2>3. QED BY <2>1, <2>2
<1>5. QED BY <1>4 DEF DiscoveryInv

(* The start of a sequence.                                                *)
LEMMA TakeFirstFacts ==
  ASSUME NEW S, NEW s \in Seq(S), NEW n \in Nat
  PROVE  /\ TakeFirst(s, n) \in Seq(S)
         /\ Len(TakeFirst(s, n)) <= n /\ Len(TakeFirst(s, n)) <= Len(s)
         /\ \A i \in 1 .. Len(TakeFirst(s, n)) : TakeFirst(s, n)[i] = s[i]
<1> DEFINE k == IF n < Len(s) THEN n ELSE Len(s)
           t == SubSeq(s, 1, k)
<1>1. k \in Nat /\ k <= n /\ k <= Len(s) /\ Len(s) \in Nat
  OBVIOUS
<1>2. TakeFirst(s, n) = t
  BY DEF TakeFirst
<1> HIDE DEF k
<1>3. t \in Seq(S) /\ Len(t) = k /\ \A i \in 1 .. k : t[i] = s[i]
  <2>1. \A i \in 1 .. k : s[i] \in S
    BY <1>1
  <2>2. t \in Seq(S) /\ Len(t) = IF 1 <= k THEN k - 1 + 1 ELSE 0
    BY <1>1, <2>1, SubSeqProperties
  <2>3. \A i \in 1 .. k - 1 + 1 : t[i] = s[1 + i - 1]
    BY <1>1, <2>1, SubSeqProperties
  <2> HIDE DEF t
  <2>4. Len(t) = k
    BY <1>1, <2>2
  <2>5. ASSUME NEW i \in 1 .. k PROVE t[i] = s[i]
    <3>1. i \in 1 .. k - 1 + 1 /\ 1 + i - 1 = i
      BY <1>1
    <3>2. QED BY <2>3, <3>1
  <2>6. QED BY <2>2, <2>4, <2>5
<1> HIDE DEF t
<1>4. QED BY <1>1, <1>2, <1>3

(* The batch takes rules that are due.                                     *)
LEMMA BatchIsDue ==
  ASSUME DiscoveryTypeOK
  PROVE  /\ Batch \in Seq({r \in Rules : Due(r)})
         /\ Len(Batch) <= BatchLimit
<1> DEFINE sooner(r, q) == \/ rules[r].nextRun < rules[q].nextRun
                           \/ rules[r].nextRun = rules[q].nextRun /\ r < q
           due == {r \in Rules : Due(r)}
           R == {rq \in due \X due : sooner(rq[1], rq[2])}
           Sorted(s) == \A i, j \in DOMAIN s : i < j => sooner(s[i], s[j])
           order == CHOOSE s \in SetToSeqs(due) : Sorted(s)
<1>1. IsFiniteSet(due)
  BY DiscoveryAssumption, FS_Subset
<1>2. \A r \in due : r \in Nat /\ rules[r].nextRun \in Nat
  BY DiscoveryAssumption DEF DiscoveryTypeOK, Rule, Due
<1>3. \A r, q : <<r, q>> \in R <=> r \in due /\ q \in due /\ sooner(r, q)
  OBVIOUS
<1>4. Orders(R, due)
  <2> HIDE DEF R, due
  <2>1. QED BY <1>2, <1>3 DEF Orders
<1>5. \E s \in SetToSeqs(due) : Sorted(s)
  <2> HIDE DEF R, due, sooner
  <2>1. QED BY <1>1, <1>3, <1>4, OrderedExists
<1>6. order \in SetToSeqs(due)
  <2> HIDE DEF due, Sorted
  <2>1. QED BY <1>5
<1>7. Batch = TakeFirst(order, BatchLimit)
  BY DEF Batch
<1> HIDE DEF due, order
<1>8. order \in Seq(due)
  BY <1>1, <1>6, SetToSeqsType
<1>9. QED BY <1>7, <1>8, TakeFirstFacts, DiscoveryAssumption DEF due

(* The AI source answers with companies of the catalogue.                  *)
LEMMA UnseenType ==
  ASSUME NEW c \in Criteria, NEW w
  PROVE  Unseen(w, c) \in Seq(Domains)
<1> DEFINE s == Catalogue[c]
           fresh == {i \in 1 .. Len(s) : s[i] \notin Seen(w)}
           R == {ij \in fresh \X fresh : ij[1] < ij[2]}
           Sorted(t) == \A i, j \in DOMAIN t : i < j => t[i] < t[j]
           order == CHOOSE t \in SetToSeqs(fresh) : Sorted(t)
<1>1. Len(s) \in Nat /\ \A i \in 1 .. Len(s) : s[i] \in Domains
  BY CatalogueFacts
<1>2. IsFiniteSet(fresh) /\ fresh \subseteq Nat /\ fresh \subseteq 1 .. Len(s)
  <2>1. IsFiniteSet(1 .. Len(s))
    BY <1>1, FS_Interval
  <2>2. QED BY <2>1, FS_Subset
<1>3. \A i, j : <<i, j>> \in R <=> i \in fresh /\ j \in fresh /\ i < j
  OBVIOUS
<1>4. Orders(R, fresh)
  <2> HIDE DEF R, fresh
  <2>1. QED BY <1>2, <1>3 DEF Orders
<1>5. \E t \in SetToSeqs(fresh) : Sorted(t)
  <2> HIDE DEF R, fresh
  <2>1. QED BY <1>2, <1>3, <1>4, OrderedExists
<1>6. order \in SetToSeqs(fresh)
  <2> HIDE DEF fresh, Sorted
  <2>1. QED BY <1>5
<1>7. Unseen(w, c) = [k \in 1 .. Len(order) |-> s[order[k]]]
  BY DEF Unseen
<1> HIDE DEF fresh, order
<1>8. order \in Seq(fresh) /\ Len(order) \in Nat
  BY <1>2, <1>6, SetToSeqsType
<1>9. \A k \in 1 .. Len(order) : s[order[k]] \in Domains
  BY <1>1, <1>2, <1>8
<1> HIDE DEF s
<1>10. [k \in 1 .. Len(order) |-> s[order[k]]] \in Seq(Domains)
  BY <1>8, <1>9
<1>11. QED BY <1>7, <1>10

(* A page of a source with pages is a stretch of the catalogue.            *)
LEMMA AnswerFacts ==
  ASSUME NEW c \in Criteria, NEW w, NEW o \in Offsets
  PROVE  /\ Answer(w, c, o) \in Seq(Domains)
         /\ c \notin PaidCriteria =>
              \A j \in 1 .. Len(Answer(w, c, o)) :
                /\ o + j \in 1 .. Len(Catalogue[c])
                /\ Answer(w, c, o)[j] = Catalogue[c][o + j]
<1> DEFINE s == Catalogue[c]
           t == IF c \in PaidCriteria THEN Unseen(w, c) ELSE SubSeq(s, o + 1, Len(s))
<1>1. s \in Seq(Domains) /\ Len(s) \in Nat /\ o \in Nat
  BY CatalogueFacts, DiscoveryAssumption, FS_CardinalityType DEF Offsets
<1>2. /\ SubSeq(s, o + 1, Len(s)) \in Seq(Domains)
      /\ Len(SubSeq(s, o + 1, Len(s))) = IF o + 1 <= Len(s) THEN Len(s) - (o + 1) + 1 ELSE 0
      /\ \A i \in 1 .. Len(s) - (o + 1) + 1 :
           SubSeq(s, o + 1, Len(s))[i] = s[o + 1 + i - 1]
  <2>1. o + 1 \in Int /\ Len(s) \in Int /\ \A i \in o + 1 .. Len(s) : s[i] \in Domains
    BY <1>1
  <2> HIDE DEF s
  <2>2. QED BY <2>1, SubSeqProperties
<1>3. t \in Seq(Domains)
  BY <1>2, UnseenType
<1>4. Answer(w, c, o) = TakeFirst(t, PageSize) /\ PageSize \in Nat
  BY DiscoveryAssumption DEF Answer
<1>5. ASSUME c \notin PaidCriteria, NEW j \in 1 .. Len(t)
      PROVE  o + j \in 1 .. Len(s) /\ t[j] = s[o + j]
  <2>1. t = SubSeq(s, o + 1, Len(s))
    BY <1>5
  <2> HIDE DEF s, t
  <2>2. o + 1 <= Len(s) /\ Len(t) = Len(s) - (o + 1) + 1
    BY <1>1, <1>2, <1>5, <2>1
  <2>3. j \in 1 .. Len(s) - (o + 1) + 1 /\ o + 1 + j - 1 = o + j
    BY <1>1, <2>2
  <2>4. t[j] = s[o + j]
    BY <1>2, <2>1, <2>3
  <2>5. QED BY <1>1, <2>3, <2>4
<1> HIDE DEF s, t
<1>6. /\ TakeFirst(t, PageSize) \in Seq(Domains)
      /\ Len(TakeFirst(t, PageSize)) <= Len(t) /\ Len(TakeFirst(t, PageSize)) \in Nat
      /\ \A i \in 1 .. Len(TakeFirst(t, PageSize)) : TakeFirst(t, PageSize)[i] = t[i]
  BY <1>3, <1>4, TakeFirstFacts
<1>7. Len(t) \in Nat
  BY <1>3
<1>8. \A j \in 1 .. Len(TakeFirst(t, PageSize)) : j \in 1 .. Len(t)
  BY <1>6, <1>7
<1>9. QED BY <1>4, <1>5, <1>6, <1>8 DEF s

-----------------------------------------------------------------------------
(* The core of NoResultSkipped: an offset moves past a page only when each *)
(* of its results is on the list, was refused, or is added now.            *)
AskedRow(w) == w.rules[Head(w.todo)]
MovedTo(w) == OffsetAfter(w, AskedRow(w).criteria, w.page.offset, w.page.found)
MovedFrom(w) ==
  {AskedRow(w).criteria} \cup IF w.page.offset = 0 THEN {} ELSE AskedRow(w).origin

LEMMA OffsetCovers ==
  ASSUME NEW w, SearchOK(w, rules, today, known), w.page # NoPage
  PROVE  /\ AskedRow(w) \in Rule /\ AddedFrom(w, w.page.found) \subseteq Domains
         /\ MovedTo(w) \in Offsets /\ MovedFrom(w) \subseteq Criteria
         /\ Covers(MovedTo(w), MovedFrom(w), known \cup w.adds \cup AddedFrom(w, w.page.found))
<1> DEFINE row == AskedRow(w)
           new == AddedFrom(w, w.page.found)
           off == MovedTo(w)
           org == MovedFrom(w)
           o == w.page.offset
           page == w.page.found
           c == row.criteria
           s == Catalogue[c]
           K == known \cup w.adds \cup new
<1>1. PageOK(w) /\ Head(w.todo) \in ReadRules(w)
  <2>1. PageOK(w) /\ w.todo \in Seq(ReadRules(w))
    BY DEF SearchOK
  <2>2. w.todo # <<>>
    BY <2>1 DEF PageOK
  <2>3. QED BY <2>1, <2>2
<1>2. row \in Rule
  BY <1>1 DEF SearchOK, ReadRules, AskedRow
<1>3. /\ c \in Criteria /\ row.offset \in Offsets /\ row.origin \subseteq Criteria
      /\ o \in Offsets /\ page \in Seq(Domains) /\ Len(page) \in Nat
  BY <1>1, <1>2 DEF PageOK, Page, Rule
<1>4. new \subseteq Domains
  BY <1>3 DEF AddedFrom, Visited
<1>5. org \subseteq Criteria
  BY <1>3 DEF MovedFrom
<1>6. Covers(row.offset, row.origin, known)
  BY <1>1 DEF SearchOK, AskedRow
<1>7. /\ s \in Seq(Domains) /\ Len(s) \in Nat
      /\ \A i \in 1 .. Len(s) : i \in Offsets
  BY <1>3, CatalogueFacts
<1>8. \A i \in Offsets : i \in Nat
  BY DiscoveryAssumption, FS_CardinalityType DEF Offsets
(* Up to the offset of the page, nothing is new.                           *)
<1>9. Covers(o, org, K)
  <2> SUFFICES ASSUME NEW d \in Criteria, org \subseteq {d}, NEW i \in 1 .. o
               PROVE  Catalogue[d][i] \in K \cup InvalidDomains
    BY DEF Covers
  <2>1. o # 0
    BY <1>3, <1>8
  <2>2. o = row.offset /\ row.origin \subseteq {d}
    BY <1>1, <2>1 DEF PageOK, AskedRow, MovedFrom
  <2>3. Catalogue[d][i] \in known \cup InvalidDomains
    BY <1>6, <2>2 DEF Covers
  <2>4. QED BY <2>3
<1>10. CASE off = o
  BY <1>2, <1>3, <1>4, <1>5, <1>9, <1>10
<1>11. CASE off # o
  <2>1. /\ Visited(w, page) = 1 .. Len(page) /\ c \notin PaidCriteria
        /\ o + Len(page) < Len(s) /\ off = o + Len(page)
    BY <1>11 DEF OffsetAfter, MovedTo
  <2>2. off \in Offsets
    <3>1. off = 0 \/ off \in 1 .. Len(s)
      BY <1>3, <1>7, <1>8, <2>1
    <3>2. 0 \in Offsets
      BY DiscoveryAssumption, FS_CardinalityType DEF Offsets
    <3>3. QED BY <1>7, <3>1, <3>2
  <2>3. ASSUME NEW i \in 1 .. off, i \notin 1 .. o
        PROVE  s[i] \in K \cup InvalidDomains
    <3> DEFINE j == i - o
    <3>1. j \in 1 .. Len(page) /\ i = o + j
      BY <1>3, <1>8, <2>1, <2>3
    <3>2. s[i] = page[j]
      BY <1>1, <2>1, <3>1 DEF PageOK, AskedRow
    <3>3. j \in Visited(w, page)
      BY <2>1, <3>1
    <3>4. CASE Attachable(w, page[j])
      <4>1. page[j] \in new
        BY <3>3, <3>4 DEF AddedFrom
      <4>2. QED BY <3>2, <4>1
    <3>5. CASE ~Attachable(w, page[j])
      <4>1. page[j] \in w.known \cup w.adds \cup InvalidDomains \cup known
        BY <3>5 DEF Attachable, Seen
      <4>2. w.known \subseteq known
        BY DEF SearchOK
      <4>3. QED BY <3>2, <4>1, <4>2
    <3>6. QED BY <3>4, <3>5
  <2>4. Covers(off, org, K)
    <3> SUFFICES ASSUME NEW d \in Criteria, org \subseteq {d}, NEW i \in 1 .. off
                 PROVE  Catalogue[d][i] \in K \cup InvalidDomains
      BY DEF Covers
    <3>1. d = c
      BY DEF MovedFrom
    <3>2. CASE i \in 1 .. o
      BY <1>9, <3>2 DEF Covers
    <3>3. CASE i \notin 1 .. o
      BY <2>3, <3>1, <3>3
    <3>4. QED BY <3>2, <3>3
  <2>5. QED BY <1>2, <1>4, <1>5, <2>2, <2>4
<1>12. QED BY <1>10, <1>11

LEMMA RuleDomain ==
  ASSUME NEW row \in Rule
  PROVE  DOMAIN row = ColumnNames
BY DEF Rule, ColumnNames

LEMMA ScheduledOK ==
  ASSUME NEW w, NEW t, NEW K, SearchOK(w, t, today, K), DiscoveryTypeOK, NEW r, NEW L
  PROVE  /\ ColumnsOK(Scheduled(w, r), L)
         /\ "offset" \notin DOMAIN Scheduled(w, r) /\ "origin" \notin DOMAIN Scheduled(w, r)
<1>1. w.day + 1 \in 0 .. LastDay + 1
  BY DiscoveryAssumption DEF SearchOK, DiscoveryTypeOK, SearchDays
<1>2. CASE w.scheduled
  <2>1. Scheduled(w, r) = [nextRun |-> w.day + 1]
    BY <1>2 DEF Scheduled
  <2>2. QED BY <1>1, <2>1 DEF ColumnsOK, ColumnNames
<1>3. CASE ~w.scheduled
  <2>1. DOMAIN Scheduled(w, r) = {}
    BY <1>3 DEF Scheduled
  <2>2. QED BY <2>1 DEF ColumnsOK, ColumnNames
<1>4. QED BY <1>2, <1>3

(* The columns that differ between two rows.                               *)
LEMMA ChangedOK ==
  ASSUME NEW old \in Rule, NEW new \in Rule, NEW K,
         new.offset # old.offset => Covers(new.offset, new.origin, K)
  PROVE  ColumnsOK(ChangedColumns(old, new), K)
<1> DEFINE changed == {k \in DOMAIN old \ {"origin"} : old[k] # new[k]}
           x == ChangedColumns(old, new)
<1>1. DOMAIN old = ColumnNames /\ DOMAIN new = ColumnNames
  BY RuleDomain
<1>2. x = [k \in changed \cup (IF "offset" \in changed THEN {"origin"} ELSE {}) |-> new[k]]
  BY DEF ChangedColumns
<1>3. changed \subseteq ColumnNames /\ "origin" \notin changed
  BY <1>1
<1>4. "offset" \in changed => new.offset # old.offset
  OBVIOUS
<1> HIDE DEF changed
<1>5. /\ DOMAIN x = changed \cup (IF "offset" \in changed THEN {"origin"} ELSE {})
      /\ \A k \in DOMAIN x : x[k] = new[k]
  BY <1>2
<1>6. /\ new.criteria \in Criteria /\ new.nextRun \in 0 .. LastDay + 1
      /\ new.enabled \in BOOLEAN /\ new.offset \in Offsets /\ new.origin \subseteq Criteria
  BY DEF Rule
<1> HIDE DEF x
<1>7. ColumnsOK(x, K)
  BY <1>3, <1>4, <1>5, <1>6 DEF ColumnsOK, ColumnNames
<1>8. QED BY <1>7 DEF x

LEMMA JoinedOK ==
  ASSUME NEW x, NEW y, NEW K, ColumnsOK(x, K), ColumnsOK(y, K)
  PROVE  ColumnsOK(Joined(x, y), K)
<1> DEFINE z == Joined(x, y)
<1>1. /\ DOMAIN z = DOMAIN x \cup DOMAIN y
      /\ \A k \in DOMAIN x : z[k] = x[k]
      /\ \A k \in DOMAIN y \ DOMAIN x : z[k] = y[k]
  BY DEF Joined
<1> HIDE DEF z
<1>2. ColumnsOK(z, K)
  BY <1>1 DEF ColumnsOK
<1>3. QED BY <1>2 DEF z

(* Written over a row, they make a row.                                    *)
LEMMA OverlaidOK ==
  ASSUME NEW old \in Rule, NEW x, NEW K, ColumnsOK(x, K),
         Covers(old.offset, old.origin, K)
  PROVE  /\ Overlaid(old, x) \in Rule
         /\ Covers(Overlaid(old, x).offset, Overlaid(old, x).origin, K)
<1> DEFINE z == Overlaid(old, x)
<1>1. DOMAIN old = ColumnNames
  BY RuleDomain
<1>2. /\ DOMAIN z = ColumnNames
      /\ \A k \in ColumnNames : z[k] = IF k \in DOMAIN x THEN x[k] ELSE old[k]
      /\ z = [k \in ColumnNames |-> z[k]]
  BY <1>1 DEF Overlaid
<1>3. /\ old.criteria \in Criteria /\ old.nextRun \in 0 .. LastDay + 1
      /\ old.enabled \in BOOLEAN /\ old.offset \in Offsets /\ old.origin \subseteq Criteria
  BY DEF Rule
<1> HIDE DEF z
<1>4. /\ z.criteria \in Criteria /\ z.nextRun \in 0 .. LastDay + 1
      /\ z.enabled \in BOOLEAN /\ z.offset \in Offsets /\ z.origin \subseteq Criteria
  BY <1>2, <1>3 DEF ColumnsOK, ColumnNames
<1>5. z = [criteria |-> z.criteria, offset |-> z.offset, nextRun |-> z.nextRun,
           enabled |-> z.enabled, origin |-> z.origin]
  BY <1>2 DEF ColumnNames
<1>6. z \in Rule
  BY <1>4, <1>5 DEF Rule
<1>7. Covers(z.offset, z.origin, K)
  BY <1>2 DEF ColumnsOK, ColumnNames
<1>8. QED BY <1>6, <1>7 DEF z

-----------------------------------------------------------------------------
(* A transaction as it starts, with what its request has changed at once.  *)
LEMMA FreshOK ==
  ASSUME DiscoveryInv, NEW w, DOMAIN w = SearchFields,
         w.day = today, w.rules = rules, w.known = known,
         w.todo \in Seq({r \in Rules : rules[r] # NoRule}), w.scheduled \in BOOLEAN,
         w.rows = <<>>, w.slots = {}, w.page = NoPage, w.adds \subseteq Domains,
         DOMAIN w.edit \subseteq {r \in Rules : rules[r] # NoRule},
         \A r \in DOMAIN w.edit : ColumnsOK(w.edit[r], known \cup w.adds)
  PROVE  SearchOK(w, rules, today, known)
<1>1. ReadRules(w) = {r \in Rules : rules[r] # NoRule}
  BY DEF ReadRules
<1>2. today \in 0 .. today
  BY DiscoveryAssumption DEF DiscoveryInv, DiscoveryTypeOK, SearchDays
<1>3. DOMAIN w.rows = {}
  OBVIOUS
<1>4. rules \in [Rules -> Rule \cup {NoRule}]
      /\ \A r \in Rules : rules[r] # NoRule => Covers(rules[r].offset, rules[r].origin, known)
  BY DEF DiscoveryInv, DiscoveryTypeOK
<1>5. QED BY <1>1, <1>2, <1>3, <1>4 DEF SearchOK

(* w has just been opened, and its request has set the last three fields.  *)
JustOpened(w, todo, scheduled, edit, adds, spends) ==
  /\ DOMAIN w = SearchFields
  /\ w.day = today /\ w.rules = rules /\ w.known = known /\ w.spent = Spent(today)
  /\ w.todo = todo /\ w.scheduled = scheduled /\ w.rows = <<>> /\ w.slots = {}
  /\ w.edit = edit /\ w.adds = adds /\ w.spends = spends /\ w.page = NoPage

LEMMA OpenedFields ==
  ASSUME NEW todo, NEW scheduled
  PROVE  JustOpened(Opened(todo, scheduled), todo, scheduled, <<>>, {}, 0)
BY DEF Opened, SearchFields, JustOpened

LEMMA OpenedWith ==
  ASSUME NEW todo, NEW scheduled, NEW x
  PROVE  /\ JustOpened([Opened(todo, scheduled) EXCEPT !.edit = x],
                       todo, scheduled, x, {}, 0)
         /\ JustOpened([Opened(todo, scheduled) EXCEPT !.adds = x],
                       todo, scheduled, <<>>, x, 0)
         /\ JustOpened([Opened(todo, scheduled) EXCEPT !.spends = x],
                       todo, scheduled, <<>>, {}, x)
<1> DEFINE w == Opened(todo, scheduled)
<1>1. JustOpened(w, todo, scheduled, <<>>, {}, 0)
  BY OpenedFields
<1> HIDE DEF w
<1>2. JustOpened([w EXCEPT !.edit = x], todo, scheduled, x, {}, 0)
  BY <1>1 DEF JustOpened, SearchFields
<1>3. JustOpened([w EXCEPT !.adds = x], todo, scheduled, <<>>, x, 0)
  BY <1>1 DEF JustOpened, SearchFields
<1>4. JustOpened([w EXCEPT !.spends = x], todo, scheduled, <<>>, {}, x)
  BY <1>1 DEF JustOpened, SearchFields
<1>5. QED BY <1>2, <1>3, <1>4 DEF w

LEMMA OpenedOK ==
  ASSUME DiscoveryInv, NEW w, NEW todo \in Seq({r \in Rules : rules[r] # NoRule}),
         NEW scheduled \in BOOLEAN, NEW adds \in SUBSET Domains, NEW spends,
         JustOpened(w, todo, scheduled, <<>>, adds, spends)
  PROVE  SearchOK(w, rules, today, known)
<1>1. DOMAIN w.edit = {}
  BY DEF JustOpened
<1>2. \A r \in DOMAIN w.edit : ColumnsOK(w.edit[r], known \cup w.adds)
  BY <1>1
<1>3. QED BY <1>1, <1>2, FreshOK DEF JustOpened

(* v is w after its rule r, of which it has written the columns x.         *)
DoneWith(w, r, x, v) ==
  /\ DOMAIN v = SearchFields
  /\ v.day = w.day /\ v.scheduled = w.scheduled /\ v.rules = w.rules
  /\ v.known = w.known /\ v.edit = w.edit /\ v.spent = w.spent
  /\ v.todo = Tail(w.todo) /\ v.page = NoPage
  /\ v.rows = [y \in DOMAIN w.rows \cup {r} |-> IF y = r THEN x ELSE w.rows[y]]
  /\ v.slots = IF w.scheduled THEN w.slots \cup {Slot(w, r)} ELSE w.slots

LEMMA FinishedFields ==
  ASSUME NEW w, DOMAIN w = SearchFields, NEW r, NEW x
  PROVE  /\ DoneWith(w, r, x, Finished(w, r, x))
         /\ Finished(w, r, x).adds = w.adds /\ Finished(w, r, x).spends = w.spends
BY DEF DoneWith, Finished, SearchFields

LEMMA DoneOK ==
  ASSUME NEW w, NEW t, NEW n, NEW K, SearchOK(w, t, n, K), w.todo # <<>>,
         NEW r, r = Head(w.todo), NEW v, NEW x, DoneWith(w, r, x, v),
         w.adds \subseteq v.adds, v.adds \subseteq Domains,
         ColumnsOK(x, K \cup v.adds)
  PROVE  SearchOK(v, t, n, K)
<1>1. ReadRules(v) = ReadRules(w) /\ ReadRules(w) \subseteq Rules
  BY DEF ReadRules, DoneWith
<1>2. r \in ReadRules(w) /\ Tail(w.todo) \in Seq(ReadRules(w))
  BY DEF SearchOK
<1>3. K \cup w.adds \subseteq K \cup v.adds
  OBVIOUS
<1>4. \A y \in DOMAIN w.rows : ColumnsOK(w.rows[y], K \cup v.adds)
  BY <1>3, ColumnsMonotone DEF SearchOK
<1>5. \A y \in DOMAIN w.edit : ColumnsOK(w.edit[y], K \cup v.adds)
  BY <1>3, ColumnsMonotone DEF SearchOK
<1>6. /\ DOMAIN v.rows = DOMAIN w.rows \cup {r}
      /\ \A y \in DOMAIN v.rows : v.rows[y] = IF y = r THEN x ELSE w.rows[y]
  BY DEF DoneWith
<1>7. DOMAIN v.rows \subseteq ReadRules(v)
      /\ \A y \in DOMAIN v.rows : ColumnsOK(v.rows[y], K \cup v.adds)
  BY <1>1, <1>2, <1>4, <1>6 DEF SearchOK
<1>8. Slot(w, r) \in Rules \X (0 .. LastDay + 1)
  <2>1. r \in Rules /\ w.rules[r] \in Rule
    BY <1>2 DEF ReadRules, SearchOK
  <2>2. QED BY <2>1 DEF Slot, Rule
<1>9. v.slots \subseteq Rules \X (0 .. LastDay + 1)
  BY <1>8 DEF DoneWith, SearchOK
<1>10. QED BY <1>1, <1>2, <1>5, <1>7, <1>9 DEF SearchOK, DoneWith

-----------------------------------------------------------------------------
(* What a transaction writes becomes part of the table and of the list.    *)
LEMMA PersistOK ==
  ASSUME DiscoveryInv, NEW a \in DOMAIN search, PersistSearch(a)
  PROVE  /\ rules' \in [Rules -> Rule \cup {NoRule}]
         /\ \A r \in Rules : rules[r] # NoRule => rules'[r] # NoRule
         /\ \A r \in Rules : rules'[r] # NoRule =>
              Covers(rules'[r].offset, rules'[r].origin, known')
         /\ known \subseteq known' /\ known' \subseteq Domains
         /\ slots' \subseteq Rules \X (0 .. LastDay + 1)
<1> DEFINE w == search[a]
           writes == Joined(w.rows, w.edit)
<1>1. SearchOK(w, rules, today, known)
  BY DEF DiscoveryInv
<1>2. /\ rules \in [Rules -> Rule \cup {NoRule}] /\ slots \subseteq Rules \X (0 .. LastDay + 1)
      /\ known \subseteq Domains
      /\ \A r \in Rules : rules[r] # NoRule => Covers(rules[r].offset, rules[r].origin, known)
  BY DEF DiscoveryInv, DiscoveryTypeOK
<1>3. known' = known \cup w.adds /\ slots' = slots \cup w.slots
      /\ rules' = [r \in Rules |-> IF r \in DOMAIN writes
                                   THEN Overlaid(rules[r], writes[r]) ELSE rules[r]]
  BY DEF PersistSearch
<1>4. known \subseteq known' /\ known' \subseteq Domains
      /\ slots' \subseteq Rules \X (0 .. LastDay + 1)
  BY <1>1, <1>2, <1>3 DEF SearchOK
<1>5. \A r \in DOMAIN writes : r \in ReadRules(w) /\ ColumnsOK(writes[r], known')
  <2>1. /\ DOMAIN writes = DOMAIN w.rows \cup DOMAIN w.edit
        /\ \A r \in DOMAIN w.rows : writes[r] = w.rows[r]
        /\ \A r \in DOMAIN w.edit \ DOMAIN w.rows : writes[r] = w.edit[r]
    BY DEF Joined
  <2> HIDE DEF writes, w
  <2>2. QED BY <1>1, <1>3, <2>1 DEF SearchOK
<1>6. ASSUME NEW r \in DOMAIN writes
      PROVE  /\ r \in Rules /\ Overlaid(rules[r], writes[r]) \in Rule
             /\ Covers(Overlaid(rules[r], writes[r]).offset,
                       Overlaid(rules[r], writes[r]).origin, known')
  <2>1. r \in Rules /\ rules[r] # NoRule /\ ColumnsOK(writes[r], known')
    BY <1>1, <1>5 DEF SearchOK, ReadRules
  <2>2. rules[r] \in Rule /\ Covers(rules[r].offset, rules[r].origin, known')
    BY <1>2, <1>4, <2>1 DEF Covers
  <2> HIDE DEF writes
  <2>3. QED BY <2>1, <2>2, OverlaidOK
<1>7. NoRule \notin Rule
  BY DiscoveryAssumption
<1> HIDE DEF writes
<1>8. ASSUME NEW r \in Rules
      PROVE  /\ rules'[r] \in Rule \cup {NoRule}
             /\ rules[r] # NoRule => rules'[r] # NoRule
             /\ rules'[r] # NoRule => Covers(rules'[r].offset, rules'[r].origin, known')
  <2>1. CASE r \in DOMAIN writes
    <3>1. rules'[r] = Overlaid(rules[r], writes[r])
      BY <1>3, <2>1
    <3>2. QED BY <1>6, <1>7, <2>1, <3>1
  <2>2. CASE r \notin DOMAIN writes
    <3>1. rules'[r] = rules[r]
      BY <1>3, <2>2
    <3>2. QED BY <1>2, <1>4, <3>1 DEF Covers
  <2>3. QED BY <2>1, <2>2
<1>9. rules' \in [Rules -> Rule \cup {NoRule}]
  BY <1>3, <1>8
<1>10. QED BY <1>4, <1>8, <1>9

-----------------------------------------------------------------------------
LEMMA DiscoveryInitial == DiscoveryInit => DiscoveryInv
<1> SUFFICES ASSUME DiscoveryInit PROVE DiscoveryInv
  OBVIOUS
<1>1. LastDay \in Nat /\ MaxRequests \in Nat /\ MaxFaults \in Nat /\ 0 \in Offsets
  BY DiscoveryAssumption, FS_CardinalityType DEF Offsets
<1>2. \A c \in Criteria : FreshRule(c) \in Rule /\ FreshRule(c).offset = 0
  BY <1>1 DEF DiscoveryInit, FreshRule, Rule
<1>3. rules \in [Rules -> Rule \cup {NoRule}]
      /\ \A r \in Rules : rules[r] # NoRule => rules[r].offset = 0
  BY <1>2 DEF DiscoveryInit
<1>4. \A r \in Rules : rules[r] # NoRule => Covers(rules[r].offset, rules[r].origin, known)
  BY <1>3 DEF Covers
<1>5. paid \in [SearchDays -> Nat] /\ lost \in [SearchDays -> Nat]
      /\ DOMAIN search = {}
  BY DEF DiscoveryInit
<1>6. DiscoveryTypeOK
  BY <1>1, <1>3, <1>5 DEF DiscoveryInit, DiscoveryTypeOK, SearchDays
<1>7. QED BY <1>4, <1>5, <1>6 DEF DiscoveryInv

(* A step that leaves the open transactions as they are.                   *)
LEMMA SearchesStay ==
  ASSUME DiscoveryInv, UNCHANGED <<search, known>>, DiscoveryTypeOK',
         \A r \in Rules : rules[r] # NoRule => rules'[r] # NoRule,
         today <= today',
         \A r \in Rules : rules'[r] # NoRule =>
           Covers(rules'[r].offset, rules'[r].origin, known)
  PROVE  DiscoveryInv'
<1>1. today \in Nat /\ today' \in Nat
  BY DiscoveryAssumption DEF DiscoveryInv, DiscoveryTypeOK, SearchDays
<1>2. ASSUME NEW b \in DOMAIN search
      PROVE  SearchOK(search[b], rules', today', known)
  <2>1. SearchOK(search[b], rules, today, known)
    BY <1>2 DEF DiscoveryInv
  <2>2. QED BY <1>1, <2>1, SearchMonotone
<1>3. QED BY <1>2 DEF DiscoveryInv

(* A step of one transaction that writes nothing others can see.           *)
LEMMA OneSearch ==
  ASSUME DiscoveryInv, NEW a \in SearchActors, NEW w,
         \/ search' = With(a, w) /\ SearchOK(w, rules, today, known)
         \/ search' = Without(a),
         UNCHANGED <<today, rules, slots, known>>,
         paid' \in [SearchDays -> Nat], lost' \in [SearchDays -> Nat],
         requests' \in 0 .. MaxRequests, faults' \in 0 .. MaxFaults
  PROVE  DiscoveryInv'
<1>1. DiscoveryTypeOK'
  <2>1. DOMAIN search' \subseteq SearchActors
    BY WithFacts DEF DiscoveryInv, DiscoveryTypeOK
  <2>2. QED BY <2>1 DEF DiscoveryInv, DiscoveryTypeOK
<1>2. today \in Nat
  BY DiscoveryAssumption DEF DiscoveryInv, DiscoveryTypeOK, SearchDays
<1>3. \A r \in Rules : rules[r] # NoRule => Covers(rules[r].offset, rules[r].origin, known)
  BY DEF DiscoveryInv
<1>4. /\ \/ search' = With(a, w) /\ SearchOK(w, rules', today', known')
         \/ search' = Without(a)
      /\ today <= today' /\ known \subseteq known'
      /\ \A r \in Rules : rules'[r] # NoRule =>
           Covers(rules'[r].offset, rules'[r].origin, known')
      /\ \A r \in Rules : rules[r] # NoRule => rules'[r] # NoRule
  BY <1>2, <1>3
<1>5. QED BY <1>1, <1>4, SearchesKeep

LEMMA RequestKeeps ==
  ASSUME DiscoveryInv, NEW u \in Seekers, NEW w, Request(u, w),
         SearchOK(w, rules, today, known), paid' \in [SearchDays -> Nat]
  PROVE  DiscoveryInv'
<1>1. u \in SearchActors
  BY DEF SearchActors
<1>2. /\ search' = With(u, w) /\ UNCHANGED <<today, rules, slots, known>>
      /\ lost' \in [SearchDays -> Nat] /\ requests' \in 0 .. MaxRequests
      /\ faults' \in 0 .. MaxFaults
  BY DiscoveryAssumption DEF Request, DiscoveryInv, DiscoveryTypeOK
<1>3. QED BY <1>1, <1>2, OneSearch

LEMMA StartKeeps ==
  ASSUME DiscoveryInv,
         \/ StartBatch
         \/ \E u \in Seekers :
              \/ \E r \in Rules : StartRunNow(u, r)
              \/ \E r \in Rules, c \in Criteria, given, on \in BOOLEAN, day \in SearchDays :
                   StartUpdate(u, r, c, given, day, on)
              \/ \E c \in Criteria : Preview(u, c)
              \/ \E d \in Domains : AddCompany(u, d)
  PROVE  DiscoveryInv'
<1> DEFINE existing == {r \in Rules : rules[r] # NoRule}
<1>0. /\ rules \in [Rules -> Rule \cup {NoRule}] /\ today \in SearchDays
      /\ paid \in [SearchDays -> Nat] /\ lost \in [SearchDays -> Nat]
      /\ requests \in 0 .. MaxRequests /\ faults \in 0 .. MaxFaults
  BY DEF DiscoveryInv, DiscoveryTypeOK
<1>e. <<>> \in Seq(existing) /\ {} \in SUBSET Domains
  OBVIOUS
<1>1. CASE StartBatch
  <2> DEFINE w == Opened(Batch, TRUE)
  <2>1. /\ search' = With(Job, w) /\ Job \in SearchActors
        /\ UNCHANGED <<today, rules, slots, known, paid, lost, requests, faults>>
    BY <1>1 DEF StartBatch, SearchActors
  <2>2. {r \in Rules : Due(r)} \subseteq existing
    BY DEF Due
  <2>3. Batch \in Seq({r \in Rules : Due(r)})
    BY BatchIsDue DEF DiscoveryInv
  <2>4. Batch \in Seq(existing)
    <3> HIDE DEF existing
    <3>1. QED BY <2>2, <2>3
  <2>5. JustOpened(w, Batch, TRUE, <<>>, {}, 0)
    BY OpenedFields
  <2> HIDE DEF w
  <2>6. SearchOK(w, rules, today, known)
    BY <1>e, <2>4, <2>5, OpenedOK
  <2>7. QED BY <1>0, <2>1, <2>6, OneSearch
<1>2. ASSUME NEW u \in Seekers, NEW r \in Rules, StartRunNow(u, r) PROVE DiscoveryInv'
  <2> DEFINE w == Opened(<<r>>, FALSE)
  <2>1. Request(u, w) /\ UNCHANGED paid /\ r \in existing
    BY <1>2 DEF StartRunNow
  <2>2. JustOpened(w, <<r>>, FALSE, <<>>, {}, 0)
    BY OpenedFields
  <2> HIDE DEF w
  <2>3. <<r>> \in Seq(existing)
    BY <2>1
  <2>4. SearchOK(w, rules, today, known)
    BY <1>e, <2>2, <2>3, OpenedOK
  <2>5. QED BY <1>0, <2>1, <2>4, RequestKeeps
<1>3. ASSUME NEW u \in Seekers, NEW r \in Rules, NEW c \in Criteria, NEW given \in BOOLEAN,
             NEW on \in BOOLEAN, NEW day \in SearchDays,
             StartUpdate(u, r, c, given, day, on)
      PROVE  DiscoveryInv'
  <2> DEFINE old == rules[r]
             new == [criteria |-> c, nextRun |-> day, enabled |-> on,
                     offset |-> IF given THEN 0 ELSE old.offset,
                     origin |-> IF given THEN {} ELSE old.origin]
             edit == [x \in {r} |-> ChangedColumns(old, new)]
             w == [Opened(<<>>, FALSE) EXCEPT !.edit = edit]
  <2>1. Request(u, w) /\ UNCHANGED paid /\ r \in existing
    BY <1>3 DEF StartUpdate
  <2>2. old \in Rule /\ 0 \in Offsets
    BY <1>0, <2>1, DiscoveryAssumption, FS_CardinalityType DEF Offsets
  <2>3. new \in Rule
    <3>1. day \in 0 .. LastDay + 1
      BY DiscoveryAssumption DEF SearchDays
    <3>2. old.offset \in Offsets /\ old.origin \in SUBSET Criteria
      BY <2>2 DEF Rule
    <3> HIDE DEF old
    <3>3. QED BY <2>2, <3>1, <3>2 DEF Rule
  <2>4. new.offset # old.offset => Covers(new.offset, new.origin, known)
    BY DEF Covers
  <2>5. JustOpened(w, <<>>, FALSE, edit, {}, 0)
    <3> HIDE DEF edit
    <3>1. QED BY OpenedWith
  <2> HIDE DEF old, new
  <2>6. ColumnsOK(ChangedColumns(old, new), known)
    BY <2>2, <2>3, <2>4, ChangedOK
  <2>7. DOMAIN edit = {r} /\ \A x \in DOMAIN edit : ColumnsOK(edit[x], known)
    BY <2>6
  <2> HIDE DEF w, edit
  <2>8. known \cup {} = known
    OBVIOUS
  <2>9. /\ DOMAIN w.edit \subseteq existing /\ w.adds = {}
        /\ \A x \in DOMAIN w.edit : ColumnsOK(w.edit[x], known \cup w.adds)
    BY <2>1, <2>5, <2>7, <2>8 DEF JustOpened
  <2>10. SearchOK(w, rules, today, known)
    BY <1>e, <2>5, <2>9, FreshOK DEF JustOpened
  <2>11. QED BY <1>0, <2>1, <2>10, RequestKeeps
<1>4. ASSUME NEW u \in Seekers, NEW c \in Criteria, Preview(u, c) PROVE DiscoveryInv'
  <2> DEFINE w == [Opened(<<>>, FALSE) EXCEPT !.spends = 1]
  <2>1. Request(u, w) /\ paid' = [paid EXCEPT ![today] = @ + 1]
    BY <1>4 DEF Preview
  <2>2. JustOpened(w, <<>>, FALSE, <<>>, {}, 1)
    BY OpenedWith
  <2> HIDE DEF w
  <2>3. SearchOK(w, rules, today, known)
    BY <1>e, <2>2, OpenedOK
  <2>4. paid' \in [SearchDays -> Nat]
    BY <1>0, <2>1
  <2>5. QED BY <2>1, <2>3, <2>4, RequestKeeps
<1>5. ASSUME NEW u \in Seekers, NEW d \in Domains, AddCompany(u, d) PROVE DiscoveryInv'
  <2> DEFINE w == [Opened(<<>>, FALSE) EXCEPT !.adds = {d}]
  <2>1. Request(u, w) /\ UNCHANGED paid
    BY <1>5 DEF AddCompany
  <2>2. JustOpened(w, <<>>, FALSE, <<>>, {d}, 0)
    BY OpenedWith
  <2> HIDE DEF w
  <2>3. SearchOK(w, rules, today, known)
    BY <1>e, <2>2, OpenedOK
  <2>4. QED BY <1>0, <2>1, <2>3, RequestKeeps
<1>6. QED BY <1>1, <1>2, <1>3, <1>4, <1>5

-----------------------------------------------------------------------------
LEMMA CountedType ==
  ASSUME NEW f \in [SearchDays -> Nat], NEW d, NEW n \in Nat
  PROVE  [f EXCEPT ![d] = @ + n] \in [SearchDays -> Nat]
<1>1. CASE d \in SearchDays
  <2>1. f[d] + n \in Nat
    BY <1>1
  <2>2. QED BY <2>1
<1>2. CASE d \notin SearchDays
  BY <1>2
<1>3. QED BY <1>1, <1>2

LEMMA TurnFacts ==
  ASSUME DiscoveryInv, NEW a \in SearchActors, NEW r, Turn(a, r)
  PROVE  /\ SearchOK(search[a], rules, today, known)
         /\ DOMAIN search[a] = SearchFields
         /\ search[a].todo # <<>> /\ r = Head(search[a].todo) /\ search[a].page = NoPage
         /\ r \in ReadRules(search[a]) /\ search[a].rules[r] \in Rule
         /\ ColumnsOK(Scheduled(search[a], r), known \cup search[a].adds)
<1> DEFINE w == search[a]
<1>1. SearchOK(w, rules, today, known) /\ w.todo # <<>> /\ r = Head(w.todo)
      /\ w.page = NoPage
  BY DEF Turn, DiscoveryInv
<1>2. r \in ReadRules(w)
  BY <1>1 DEF SearchOK
<1>3. w.rules[r] \in Rule
  BY <1>1, <1>2 DEF SearchOK, ReadRules
<1>4. ColumnsOK(Scheduled(w, r), known \cup w.adds)
  BY <1>1, ScheduledOK DEF DiscoveryInv
<1>5. QED BY <1>1, <1>2, <1>3, <1>4 DEF SearchOK

(* A rule whose slot was run before, or whose run fails, only moves on.    *)
LEMMA PassKeeps ==
  ASSUME DiscoveryInv, NEW a \in SearchActors, NEW r, SkipSlot(a, r) \/ FailRun(a, r)
  PROVE  DiscoveryInv'
<1> DEFINE w == search[a]
           v == Finished(w, r, Scheduled(w, r))
<1>1. Turn(a, r) /\ UNCHANGED <<today, rules, slots, known, paid, lost, requests, faults>>
      /\ search' = With(a, v)
  BY DEF SkipSlot, FailRun, RunsNew, DiscoveryInv, DiscoveryTypeOK
<1>2. /\ SearchOK(w, rules, today, known) /\ DOMAIN w = SearchFields
      /\ w.todo # <<>> /\ r = Head(w.todo)
      /\ ColumnsOK(Scheduled(w, r), known \cup w.adds)
  BY <1>1, TurnFacts
<1>3. DoneWith(w, r, Scheduled(w, r), v) /\ v.adds = w.adds
  BY <1>2, FinishedFields
<1> HIDE DEF v, w
<1>4. w.adds \subseteq v.adds /\ v.adds \subseteq Domains /\ known \cup v.adds = known \cup w.adds
  BY <1>2, <1>3 DEF SearchOK
<1>5. SearchOK(v, rules, today, known)
  BY <1>2, <1>3, <1>4, DoneOK
<1>6. QED BY <1>1, <1>5, OneSearch DEF DiscoveryInv, DiscoveryTypeOK

(* v is w with another answer and another number of its searches.          *)
SamePlan(w, v) ==
  /\ DOMAIN v = SearchFields
  /\ v.day = w.day /\ v.scheduled = w.scheduled /\ v.rules = w.rules
  /\ v.known = w.known /\ v.edit = w.edit /\ v.todo = w.todo /\ v.rows = w.rows
  /\ v.slots = w.slots /\ v.adds = w.adds

LEMMA AskKeeps ==
  ASSUME DiscoveryInv, NEW a \in SearchActors, NEW r, AskProvider(a, r)
  PROVE  DiscoveryInv'
<1> DEFINE w == search[a]
           c == w.rules[r].criteria
           cost == IF c \in PaidCriteria THEN 1 ELSE 0
           asked == [w EXCEPT !.spends = @ + cost]
           Asked(o) == [asked EXCEPT !.page = [offset |-> o, found |-> Answer(w, c, o)]]
           offsets == {w.rules[r].offset} \cup (IF c \in PaidCriteria THEN {} ELSE {0})
           v == Finished(asked, r, Scheduled(w, r))
<1>1. /\ Turn(a, r) /\ paid' = [paid EXCEPT ![w.day] = @ + cost]
      /\ UNCHANGED <<today, rules, slots, known, lost, requests, faults>>
      /\ \/ \E o \in offsets : search' = With(a, Asked(o))
         \/ search' = With(a, v)
  BY DEF AskProvider, RunsNew
<1>2. /\ SearchOK(w, rules, today, known) /\ DOMAIN w = SearchFields
      /\ w.todo # <<>> /\ r = Head(w.todo) /\ w.page = NoPage
      /\ w.rules[r] \in Rule
      /\ ColumnsOK(Scheduled(w, r), known \cup w.adds)
  BY <1>1, TurnFacts
<1>3. c \in Criteria /\ w.rules[r].offset \in Offsets /\ 0 \in Offsets
  <2>1. 0 \in Offsets
    BY DiscoveryAssumption, FS_CardinalityType DEF Offsets
  <2> HIDE DEF w
  <2>2. QED BY <1>2, <2>1 DEF Rule
<1>4. paid' \in [SearchDays -> Nat] /\ cost \in Nat
  <2>1. paid \in [SearchDays -> Nat]
    BY DEF DiscoveryInv, DiscoveryTypeOK
  <2>2. cost \in Nat
    OBVIOUS
  <2>3. paid' = [paid EXCEPT ![w.day] = @ + cost]
    BY <1>1
  <2> HIDE DEF cost, w
  <2>4. QED BY <2>1, <2>2, <2>3, CountedType
<1>5. SamePlan(w, asked) /\ asked.page = w.page
  <2> HIDE DEF cost, w
  <2>1. QED BY <1>2 DEF SamePlan, SearchFields
<1>6. ASSUME NEW o \in offsets PROVE SearchOK(Asked(o), rules, today, known)
  <2> DEFINE page == [offset |-> o, found |-> Answer(w, c, o)]
             x == [asked EXCEPT !.page = page]
  <2>1. o \in Offsets
    BY <1>3
  <2>2. /\ Answer(w, c, o) \in Seq(Domains)
        /\ c \notin PaidCriteria =>
              \A j \in 1 .. Len(Answer(w, c, o)) :
                /\ o + j \in 1 .. Len(Catalogue[c])
                /\ Answer(w, c, o)[j] = Catalogue[c][o + j]
    BY <1>3, <2>1, AnswerFacts
  <2>3. page \in Page /\ page.offset = o /\ page.found = Answer(w, c, o)
    BY <2>1, <2>2 DEF Page
  <2>4. o \in {0, w.rules[r].offset}
    OBVIOUS
  <2>5. SamePlan(w, x) /\ x.page = page
    <3> HIDE DEF asked, page, w
    <3>1. QED BY <1>2, <1>5 DEF SamePlan, SearchFields
  <2> HIDE DEF x, page, asked, w
  <2>6. x.rules[Head(x.todo)].criteria = c /\ x.rules[Head(x.todo)].offset = w.rules[r].offset
    BY <1>2, <2>5 DEF SamePlan
  <2>7. PageOK(x)
    BY <1>2, <2>2, <2>3, <2>4, <2>5, <2>6 DEF PageOK, SamePlan
  <2>8. ReadRules(x) = ReadRules(w)
    BY <2>5 DEF ReadRules, SamePlan
  <2>9. SearchOK(x, rules, today, known)
    BY <1>2, <2>5, <2>7, <2>8 DEF SearchOK, SamePlan
  <2>10. QED BY <2>9 DEF x, page
<1>7. SearchOK(v, rules, today, known)
  <2>1. ReadRules(asked) = ReadRules(w)
    <3> HIDE DEF asked, w
    <3>1. QED BY <1>5 DEF ReadRules, SamePlan
  <2>2. SearchOK(asked, rules, today, known) /\ asked.todo # <<>> /\ r = Head(asked.todo)
        /\ DOMAIN asked = SearchFields /\ asked.adds = w.adds /\ w.adds \subseteq Domains
    <3> HIDE DEF asked, w
    <3>1. QED BY <1>2, <1>5, <2>1 DEF SearchOK, SamePlan
  <2> HIDE DEF asked, w
  <2>3. DoneWith(asked, r, Scheduled(w, r), v) /\ v.adds = asked.adds
    BY <2>2, FinishedFields
  <2> HIDE DEF v
  <2>4. QED BY <1>2, <2>2, <2>3, DoneOK
<1> HIDE DEF v, Asked, offsets, w, cost
<1>8. CASE search' = With(a, v)
  BY <1>1, <1>4, <1>7, <1>8, OneSearch DEF DiscoveryInv, DiscoveryTypeOK
<1>9. ASSUME NEW o \in offsets, search' = With(a, Asked(o))
      PROVE  DiscoveryInv'
  BY <1>1, <1>4, <1>6, <1>9, OneSearch DEF DiscoveryInv, DiscoveryTypeOK
<1>10. QED BY <1>1, <1>8, <1>9

LEMMA AnswerKeeps ==
  ASSUME DiscoveryInv, NEW a \in SearchActors, TakeAnswer(a)
  PROVE  DiscoveryInv'
<1> DEFINE w == search[a]
           r == Head(w.todo)
           row == w.rules[r]
           new == AddedFrom(w, w.page.found)
           off == OffsetAfter(w, row.criteria, w.page.offset, w.page.found)
           org == {row.criteria} \cup IF w.page.offset = 0 THEN {} ELSE row.origin
           next == [row EXCEPT !.offset = off, !.origin = org]
           x == Joined(Scheduled(w, r), ChangedColumns(row, next))
           f == Finished(w, r, x)
           v == [f EXCEPT !.adds = @ \cup new]
           L == known \cup w.adds \cup new
<1>1. /\ a \in DOMAIN search /\ w.page # NoPage /\ search' = With(a, v)
      /\ UNCHANGED <<today, rules, slots, known, paid, lost, requests, faults>>
  BY DEF TakeAnswer
<1>2. SearchOK(w, rules, today, known)
  BY <1>1 DEF DiscoveryInv
<1>3. w.todo # <<>> /\ DOMAIN w = SearchFields /\ w.adds \subseteq Domains
  BY <1>1, <1>2 DEF SearchOK, PageOK
<1>4. /\ row \in Rule /\ new \subseteq Domains /\ off \in Offsets /\ org \subseteq Criteria
      /\ Covers(off, org, L)
  <2>1. row = AskedRow(w) /\ off = MovedTo(w) /\ org = MovedFrom(w)
    BY DEF AskedRow, MovedTo, MovedFrom
  <2> HIDE DEF w, row, off, org
  <2>2. QED BY <1>1, <1>2, <2>1, OffsetCovers
<1>5. next \in Rule /\ next.offset = off /\ next.origin = org
  <2> HIDE DEF row, off, org
  <2>1. QED BY <1>4 DEF Rule
<1>6. ColumnsOK(ChangedColumns(row, next), L)
  <2> HIDE DEF row, off, org, next
  <2>1. QED BY <1>4, <1>5, ChangedOK
<1>7. ColumnsOK(Scheduled(w, r), L)
  BY <1>2, ScheduledOK DEF DiscoveryInv
<1>8. ColumnsOK(x, L)
  <2> HIDE DEF next, L
  <2>1. QED BY <1>6, <1>7, JoinedOK
<1>9. DoneWith(w, r, x, f) /\ f.adds = w.adds
  <2> HIDE DEF x
  <2>1. QED BY <1>3, FinishedFields
<1> HIDE DEF f, x, new
<1>10. DoneWith(w, r, x, v) /\ v.adds = w.adds \cup new
  <2> HIDE DEF w
  <2>1. QED BY <1>9 DEF DoneWith, SearchFields
<1>11. known \cup v.adds = L
  BY <1>10
<1>12. r = Head(w.todo)
  OBVIOUS
<1> HIDE DEF v, L, w, r
<1>13. SearchOK(v, rules, today, known)
  BY <1>2, <1>3, <1>4, <1>8, <1>10, <1>11, <1>12, DoneOK
<1>14. QED BY <1>1, <1>13, OneSearch DEF DiscoveryInv, DiscoveryTypeOK

LEMMA CommitKeeps ==
  ASSUME DiscoveryInv, NEW a \in SearchActors, CommitSearch(a)
  PROVE  DiscoveryInv'
<1>1. a \in DOMAIN search /\ PersistSearch(a) /\ search' = Without(a)
      /\ UNCHANGED <<today, paid, lost, requests, faults>>
  BY DEF CommitSearch, PersistSearch
<1>2. /\ rules' \in [Rules -> Rule \cup {NoRule}]
      /\ \A r \in Rules : rules[r] # NoRule => rules'[r] # NoRule
      /\ \A r \in Rules : rules'[r] # NoRule =>
           Covers(rules'[r].offset, rules'[r].origin, known')
      /\ known \subseteq known' /\ known' \subseteq Domains
      /\ slots' \subseteq Rules \X (0 .. LastDay + 1)
  BY <1>1, PersistOK
<1>3. DiscoveryTypeOK'
  <2>1. DOMAIN search' \subseteq SearchActors
    BY <1>1, WithFacts DEF DiscoveryInv, DiscoveryTypeOK
  <2>2. QED BY <1>1, <1>2, <2>1 DEF DiscoveryInv, DiscoveryTypeOK
<1>4. today <= today'
  BY <1>1, DiscoveryAssumption DEF DiscoveryInv, DiscoveryTypeOK, SearchDays
<1>5. QED BY <1>1, <1>2, <1>3, <1>4, SearchesKeep

LEMMA PartlyKeeps ==
  ASSUME DiscoveryInv, NEW a \in SearchActors, CommitPartly(a)
  PROVE  DiscoveryInv'
<1> DEFINE w == search[a]
           v == [w EXCEPT !.known = known', !.spent = Spent(w.day) + w.spends,
                 !.rows = <<>>, !.slots = {}, !.adds = {}, !.spends = 0]
<1>1. a \in DOMAIN search /\ PersistSearch(a) /\ search' = With(a, v)
      /\ w.page = NoPage /\ UNCHANGED <<today, paid, lost, requests, faults>>
  BY DEF CommitPartly, PersistSearch
<1>2. /\ rules' \in [Rules -> Rule \cup {NoRule}]
      /\ \A r \in Rules : rules[r] # NoRule => rules'[r] # NoRule
      /\ \A r \in Rules : rules'[r] # NoRule =>
           Covers(rules'[r].offset, rules'[r].origin, known')
      /\ known \subseteq known' /\ known' \subseteq Domains
      /\ slots' \subseteq Rules \X (0 .. LastDay + 1)
  BY <1>1, PersistOK
<1>3. DiscoveryTypeOK'
  <2>1. DOMAIN search' \subseteq SearchActors
    BY <1>1, WithFacts DEF DiscoveryInv, DiscoveryTypeOK
  <2>2. QED BY <1>1, <1>2, <2>1 DEF DiscoveryInv, DiscoveryTypeOK
<1>4. today \in Nat /\ today' = today
  BY <1>1, DiscoveryAssumption DEF DiscoveryInv, DiscoveryTypeOK, SearchDays
<1>5. SearchOK(w, rules, today, known) /\ DOMAIN w = SearchFields
  BY <1>1 DEF DiscoveryInv, SearchOK
<1>6. /\ DOMAIN v = SearchFields
      /\ v.day = w.day /\ v.scheduled = w.scheduled /\ v.rules = w.rules
      /\ v.known = known' /\ v.edit = w.edit /\ v.todo = w.todo /\ v.page = w.page
      /\ v.rows = <<>> /\ v.slots = {} /\ v.adds = {}
  <2> HIDE DEF w
  <2>1. QED BY <1>5 DEF SearchFields
<1>7. known' = known \cup w.adds
  BY <1>1 DEF PersistSearch
<1> HIDE DEF v, w
<1>8. SearchOK(v, rules', today', known')
  <2>1. ReadRules(v) = ReadRules(w)
    BY <1>6 DEF ReadRules
  <2>2. \A r \in ReadRules(w) :
          rules'[r] # NoRule /\ Covers(w.rules[r].offset, w.rules[r].origin, known')
    BY <1>2, <1>5 DEF SearchOK, Covers, ReadRules
  <2>3. DOMAIN v.rows = {} /\ known' \cup v.adds = known'
    BY <1>6
  <2>4. v.page = NoPage
    BY <1>1, <1>6 DEF w
  <2>5. QED BY <1>4, <1>5, <1>6, <1>7, <2>1, <2>2, <2>3, <2>4 DEF SearchOK
<1>9. today <= today'
  BY <1>4
<1>10. QED BY <1>1, <1>2, <1>3, <1>8, <1>9, SearchesKeep

LEMMA LoseKeeps ==
  ASSUME DiscoveryInv, NEW a \in SearchActors, LoseSearch(a),
         search[a].day \in SearchDays, search[a].spends \in Nat
  PROVE  DiscoveryInv'
<1>1. /\ search' = Without(a)
      /\ UNCHANGED <<today, rules, slots, known, paid, requests>>
      /\ lost' = [lost EXCEPT ![search[a].day] = @ + search[a].spends]
      /\ faults < MaxFaults /\ faults' = faults + 1
  BY DEF LoseSearch
<1>2. /\ paid \in [SearchDays -> Nat] /\ lost \in [SearchDays -> Nat]
      /\ requests \in 0 .. MaxRequests /\ faults \in 0 .. MaxFaults /\ MaxFaults \in Nat
  BY DiscoveryAssumption DEF DiscoveryInv, DiscoveryTypeOK
<1>3. lost' \in [SearchDays -> Nat] /\ faults' \in 0 .. MaxFaults
  BY <1>1, <1>2, CountedType
<1>4. /\ UNCHANGED <<today, rules, slots, known>>
      /\ paid' \in [SearchDays -> Nat] /\ requests' \in 0 .. MaxRequests
  BY <1>1, <1>2
<1>5. QED BY <1>1, <1>3, <1>4, OneSearch

-----------------------------------------------------------------------------
(* CompanyDiscovery, second half: the daily budget.  It is counted from    *)
(* audit rows, which a transaction sees as of its snapshot, so that every  *)
(* open transaction may add its share after the others have committed.     *)

(* The share of actor a: the job searches for a batch of rules, within the *)
(* budget it saw; a user's request searches once.                          *)
Cap(a) ==
  IF a = Job THEN IF BatchLimit < DailyLimit THEN BatchLimit ELSE DailyLimit ELSE 1

(* The paid searches that actor a has not committed yet, by day, and those *)
(* it may still pay for: none once its snapshot shows a spent budget.      *)
Owes(table, a, d) ==
  IF a \in DOMAIN table /\ table[a].day = d THEN table[a].spends ELSE 0

MaySpend(table, a, d) ==
  IF a \in DOMAIN table /\ table[a].day = d /\ table[a].spent < DailyLimit
  THEN Cap(a) ELSE 0

Flight(table, d) == [a \in SearchActors |-> Owes(table, a, d)]
May(table, d) == [a \in SearchActors |-> MaySpend(table, a, d)]
Caps == [a \in SearchActors |-> Cap(a)]

(* A transaction has searched, and can search, no more than its share, and *)
(* not beyond the budget as far as it sees.                                *)
BudgetOK(a, w) ==
  /\ w.spent \in Nat /\ w.spends \in Nat
  /\ w.spends + Len(w.todo)
       <= (IF a = Job THEN BatchLimit ELSE 1) + (IF w.page = NoPage THEN 0 ELSE 1)
  /\ w.spends # 0 => w.spent + w.spends <= DailyLimit

(* n searches of day d are on the books: with those that may still come,   *)
(* they stay within the bound.                                             *)
DayOK(n, table, d) ==
  /\ n \in Nat
  /\ n + Total(May(table, d), SearchActors)
       <= DailyLimit - 1 + Total(Caps, SearchActors)

CountersOK == \A a \in DOMAIN search : BudgetOK(a, search[a])

BudgetInv == CountersOK /\ \A d \in SearchDays : DayOK(Spent(d), search, d)

LEMMA ActorsFinite == IsFiniteSet(SearchActors)
BY DiscoveryAssumption, FS_AddElement DEF SearchActors

LEMMA InFlightIsTotal ==
  ASSUME NEW d, DOMAIN search \subseteq SearchActors, CountersOK
  PROVE  InFlight(d) = Total(Flight(search, d), SearchActors)
<1> DEFINE on == {a \in DOMAIN search : search[a].day = d}
           F == Flight(search, d)
           Summed(it) ==
             it = [s \in SUBSET on |->
                     IF s = {} THEN 0
                     ELSE search[Taken(s)].spends + it[s \ {Taken(s)}]]
<1>1. InFlight(d) = (CHOOSE it : Summed(it))[on]
  BY DEF InFlight, FoldFunctionOnSet, MapThenFoldSet, Taken
<1>2. /\ \A a \in SearchActors : F[a] \in Nat
      /\ \A a \in on : F[a] = search[a].spends
      /\ \A a \in SearchActors \ on : F[a] = 0
      /\ on \in SUBSET SearchActors
  BY DEF Flight, Owes, CountersOK, BudgetOK
<1>3. IsFiniteSet(SearchActors) /\ IsFiniteSet(on)
  BY <1>2, ActorsFinite, FS_Subset
<1> HIDE DEF on, F
<1>4. \A it : Summed(it) <=> Sums(it, F, on)
  <2> SUFFICES ASSUME NEW it PROVE Summed(it) <=> Sums(it, F, on)
    OBVIOUS
  <2>1. \A s \in SUBSET on :
          (IF s = {} THEN 0 ELSE search[Taken(s)].spends + it[s \ {Taken(s)}])
          = (IF s = {} THEN 0 ELSE F[Taken(s)] + it[s \ {Taken(s)}])
    BY <1>2, TakenIsElement
  <2>2. [s \in SUBSET on |->
           IF s = {} THEN 0 ELSE search[Taken(s)].spends + it[s \ {Taken(s)}]]
        = [s \in SUBSET on |-> IF s = {} THEN 0 ELSE F[Taken(s)] + it[s \ {Taken(s)}]]
    BY <2>1
  <2>3. QED BY <2>2 DEF Sums
<1>5. \E it : Summed(it)
  BY <1>3, <1>4, SumsExists
<1>6. Summed(CHOOSE it : Summed(it))
  <2> HIDE DEF Summed
  <2>1. QED BY <1>5
<1> HIDE DEF Summed
<1>7. InFlight(d) = Total(F, on)
  <2>1. Sums(CHOOSE it : Summed(it), F, on)
    BY <1>4, <1>6
  <2>2. PICK ti : Sums(ti, F, on) /\ Total(F, on) = ti[on]
    BY <1>3, TotalSums
  <2>3. \A a \in on : F[a] \in Nat
    BY <1>2
  <2>4. (CHOOSE it : Summed(it))[on] = ti[on]
    BY <1>3, <2>1, <2>2, <2>3, SumsAgree
  <2>5. QED BY <1>1, <2>2, <2>4
<1>8. Total(F, on) = Total(F, SearchActors)
  BY <1>2, <1>3, TotalOfSupport
<1>9. QED BY <1>7, <1>8 DEF F

SpentIsSum ==
  DOMAIN search \subseteq SearchActors /\ CountersOK =>
    \A d \in SearchDays :
      Spent(d) = paid[d] - lost[d] - Total(Flight(search, d), SearchActors)

LEMMA SpentIsTotal == SpentIsSum
BY InFlightIsTotal DEF Spent, SpentIsSum

(* The numbers of all three sums.                                          *)
LEMMA ShareTypes ==
  ASSUME NEW table, \A a \in DOMAIN table : BudgetOK(a, table[a]), NEW d
  PROVE  \A a \in SearchActors :
           /\ Flight(table, d)[a] = Owes(table, a, d) /\ Owes(table, a, d) \in Nat
           /\ May(table, d)[a] = MaySpend(table, a, d) /\ MaySpend(table, a, d) \in Nat
           /\ Caps[a] = Cap(a) /\ Cap(a) \in Nat /\ MaySpend(table, a, d) <= Cap(a)
<1> SUFFICES ASSUME NEW a \in SearchActors
             PROVE  /\ Flight(table, d)[a] = Owes(table, a, d) /\ Owes(table, a, d) \in Nat
                    /\ May(table, d)[a] = MaySpend(table, a, d)
                    /\ MaySpend(table, a, d) \in Nat
                    /\ Caps[a] = Cap(a) /\ Cap(a) \in Nat /\ MaySpend(table, a, d) <= Cap(a)
  OBVIOUS
<1>1. Cap(a) \in Nat
  BY DiscoveryAssumption DEF Cap
<1>2. MaySpend(table, a, d) \in Nat /\ MaySpend(table, a, d) <= Cap(a)
  BY <1>1 DEF MaySpend
<1>3. Owes(table, a, d) \in Nat
  BY DEF Owes, BudgetOK
<1>4. QED BY <1>1, <1>2, <1>3 DEF Flight, May, Caps

(* A step of transaction a that adds x searches of day d to the books.     *)
LEMMA DayKeeps ==
  ASSUME DiscoveryInv, DiscoveryInv', BudgetInv, CountersOK', NEW a \in SearchActors,
         \A b \in SearchActors \ {a} :
           /\ b \in DOMAIN search' <=> b \in DOMAIN search
           /\ b \in DOMAIN search => search'[b] = search[b],
         NEW d \in SearchDays, NEW x \in Nat,
         paid'[d] - lost'[d] - Owes(search', a, d) = paid[d] - lost[d] - Owes(search, a, d) + x,
         \/ x + MaySpend(search', a, d) <= MaySpend(search, a, d)
         \/ Spent(d) + x <= DailyLimit - 1
  PROVE  DayOK(Spent(d)', search', d)
<1> DEFINE f == Total(Flight(search, d), SearchActors)
           g == Total(Flight(search', d), SearchActors)
           m == Total(May(search, d), SearchActors)
           k == Total(May(search', d), SearchActors)
           c == Total(Caps, SearchActors)
<1>1. /\ \A b \in DOMAIN search : BudgetOK(b, search[b])
      /\ \A b \in DOMAIN search' : BudgetOK(b, search'[b])
  BY DEF BudgetInv, CountersOK
<1>2. /\ \A b \in SearchActors :
           /\ Flight(search, d)[b] = Owes(search, b, d) /\ Owes(search, b, d) \in Nat
           /\ May(search, d)[b] = MaySpend(search, b, d) /\ MaySpend(search, b, d) \in Nat
      /\ \A b \in SearchActors :
           /\ Flight(search', d)[b] = Owes(search', b, d) /\ Owes(search', b, d) \in Nat
           /\ May(search', d)[b] = MaySpend(search', b, d) /\ MaySpend(search', b, d) \in Nat
           /\ Caps[b] = Cap(b) /\ Cap(b) \in Nat /\ MaySpend(search', b, d) <= Cap(b)
  BY <1>1, ShareTypes
<1>3. \A b \in SearchActors \ {a} :
        /\ Owes(search', b, d) = Owes(search, b, d)
        /\ MaySpend(search', b, d) = MaySpend(search, b, d)
  BY DEF Owes, MaySpend
<1>4. g = (f - Owes(search, a, d)) + Owes(search', a, d)
  BY <1>2, <1>3, ActorsFinite, TotalChanges
<1>5. k = (m - MaySpend(search, a, d)) + MaySpend(search', a, d)
  BY <1>2, <1>3, ActorsFinite, TotalChanges
<1>6. f \in Nat /\ g \in Nat /\ m \in Nat /\ k \in Nat /\ c \in Nat
  BY <1>2, ActorsFinite, TotalFacts
<1>7. k <= c
  BY <1>2, ActorsFinite, TotalPointwise
<1>8. Spent(d) = paid[d] - lost[d] - f
  BY SpentIsTotal DEF SpentIsSum, BudgetInv, DiscoveryInv, DiscoveryTypeOK
<1>9. Spent(d)' = paid'[d] - lost'[d] - g
  <2>1. SpentIsSum'
    BY SpentIsTotal, PTL
  <2>2. QED BY <2>1 DEF SpentIsSum, DiscoveryInv, DiscoveryTypeOK
<1>10. Spent(d) \in Nat /\ Spent(d) + m <= DailyLimit - 1 + c
  BY DEF BudgetInv, DayOK
<1>11. /\ paid[d] \in Nat /\ lost[d] \in Nat /\ paid'[d] \in Nat /\ lost'[d] \in Nat
       /\ Owes(search, a, d) \in Nat /\ Owes(search', a, d) \in Nat
       /\ MaySpend(search, a, d) \in Nat /\ MaySpend(search', a, d) \in Nat
       /\ DailyLimit \in Nat
  BY <1>2, DiscoveryAssumption DEF DiscoveryInv, DiscoveryTypeOK
<1> HIDE DEF f, g, m, k, c
<1>12. Spent(d)' = Spent(d) + x
  BY <1>4, <1>6, <1>8, <1>9, <1>11
<1>13. Spent(d)' + k <= DailyLimit - 1 + c
  BY <1>5, <1>6, <1>7, <1>10, <1>11, <1>12
<1>14. QED BY <1>10, <1>12, <1>13 DEF DayOK, k, c

LEMMA BudgetKeeps ==
  ASSUME DiscoveryInv, DiscoveryInv', BudgetInv, NEW a \in SearchActors, NEW w,
         \/ search' = With(a, w) /\ BudgetOK(a, w)
         \/ search' = Without(a),
         \A d \in SearchDays : \E x \in Nat :
           /\ paid'[d] - lost'[d] - Owes(search', a, d)
                = paid[d] - lost[d] - Owes(search, a, d) + x
           /\ \/ x + MaySpend(search', a, d) <= MaySpend(search, a, d)
              \/ Spent(d) + x <= DailyLimit - 1
  PROVE  BudgetInv'
<1>1. DOMAIN search \subseteq SearchActors
  BY DEF DiscoveryInv, DiscoveryTypeOK
<1>2. \A b \in SearchActors \ {a} :
        /\ b \in DOMAIN search' <=> b \in DOMAIN search
        /\ b \in DOMAIN search => search'[b] = search[b]
  <2>1. CASE search' = With(a, w)
    BY <2>1 DEF With
  <2>2. CASE search' = Without(a)
    BY <2>2 DEF Without
  <2>3. QED BY <2>1, <2>2
<1>3. a \in DOMAIN search' => search'[a] = w /\ BudgetOK(a, w)
  <2>1. CASE search' = With(a, w) /\ BudgetOK(a, w)
    BY <2>1 DEF With
  <2>2. CASE search' = Without(a)
    BY <2>2 DEF Without
  <2>3. QED BY <2>1, <2>2
<1>4. DOMAIN search' \subseteq SearchActors
  BY DEF DiscoveryInv, DiscoveryTypeOK
<1>5. CountersOK'
  <2>1. \A b \in DOMAIN search : BudgetOK(b, search[b])
    BY DEF BudgetInv, CountersOK
  <2>2. \A b \in DOMAIN search' : BudgetOK(b, search'[b])
    BY <1>2, <1>3, <1>4, <2>1
  <2>3. QED BY <2>2 DEF CountersOK
<1>6. ASSUME NEW d \in SearchDays PROVE DayOK(Spent(d)', search', d)
  <2>1. PICK x \in Nat :
          /\ paid'[d] - lost'[d] - Owes(search', a, d)
               = paid[d] - lost[d] - Owes(search, a, d) + x
          /\ \/ x + MaySpend(search', a, d) <= MaySpend(search, a, d)
             \/ Spent(d) + x <= DailyLimit - 1
    OBVIOUS
  <2>2. QED BY <1>2, <1>5, <2>1, DayKeeps
<1>7. QED BY <1>5, <1>6 DEF BudgetInv

(* A transaction opens: the day, and what was spent of it, are of now.     *)
LEMMA OpenKeepsBudget ==
  ASSUME DiscoveryInv, DiscoveryInv', BudgetInv, NEW a \in SearchActors \ DOMAIN search,
         NEW w, search' = With(a, w), w.day = today, w.spent = Spent(today), BudgetOK(a, w),
         lost' = lost,
         \A d \in SearchDays : paid'[d] = paid[d] + (IF d = today THEN w.spends ELSE 0)
  PROVE  BudgetInv'
<1>1. a \in DOMAIN search' /\ search'[a] = w
  BY DEF With
<1>2. w.spends \in Nat /\ DailyLimit \in Nat
  BY DiscoveryAssumption DEF BudgetOK
<1>3. ASSUME NEW d \in SearchDays
      PROVE  /\ paid'[d] - lost'[d] - Owes(search', a, d)
                  = paid[d] - lost[d] - Owes(search, a, d) + 0
             /\ \/ 0 + MaySpend(search', a, d) <= MaySpend(search, a, d)
                \/ Spent(d) + 0 <= DailyLimit - 1
  <2>1. Owes(search, a, d) = 0 /\ MaySpend(search, a, d) = 0
    BY DEF Owes, MaySpend
  <2>2. paid[d] \in Nat /\ lost[d] \in Nat /\ Spent(d) \in Nat
    BY DEF DiscoveryInv, DiscoveryTypeOK, BudgetInv, DayOK
  <2>3. CASE d = today
    <3>1. Owes(search', a, d) = w.spends /\ paid'[d] = paid[d] + w.spends
      BY <1>1, <2>3 DEF Owes
    <3>2. MaySpend(search', a, d) = 0 \/ Spent(d) < DailyLimit
      BY <1>1, <2>3 DEF MaySpend
    <3>3. QED BY <1>2, <2>1, <2>2, <3>1, <3>2
  <2>4. CASE d # today
    <3>1. Owes(search', a, d) = 0 /\ paid'[d] = paid[d] /\ MaySpend(search', a, d) = 0
      BY <1>1, <2>2, <2>4 DEF Owes, MaySpend
    <3>2. QED BY <2>1, <2>2, <3>1
  <2>5. QED BY <2>3, <2>4
<1>4. \A d \in SearchDays : \E x \in Nat :
        /\ paid'[d] - lost'[d] - Owes(search', a, d)
             = paid[d] - lost[d] - Owes(search, a, d) + x
        /\ \/ x + MaySpend(search', a, d) <= MaySpend(search, a, d)
           \/ Spent(d) + x <= DailyLimit - 1
  BY <1>3
<1>5. QED BY <1>4, BudgetKeeps

(* It goes on, and may have paid for another search.                       *)
LEMMA GoOnKeepsBudget ==
  ASSUME DiscoveryInv, DiscoveryInv', BudgetInv, NEW a \in SearchActors, a \in DOMAIN search,
         NEW v, search' = With(a, v), BudgetOK(a, v),
         v.day = search[a].day, v.spent = search[a].spent,
         lost' = lost,
         \A d \in SearchDays :
           paid'[d] = paid[d] + (IF d = v.day THEN v.spends - search[a].spends ELSE 0)
  PROVE  BudgetInv'
<1> DEFINE w == search[a]
<1>1. a \in DOMAIN search' /\ search'[a] = v
  BY DEF With
<1>2. v.spends \in Nat /\ w.spends \in Nat
  BY DEF BudgetOK, BudgetInv, CountersOK
<1>3. ASSUME NEW d \in SearchDays
      PROVE  /\ paid'[d] - lost'[d] - Owes(search', a, d)
                  = paid[d] - lost[d] - Owes(search, a, d) + 0
             /\ 0 + MaySpend(search', a, d) <= MaySpend(search, a, d)
  <2>1. MaySpend(search', a, d) = MaySpend(search, a, d)
    BY <1>1 DEF MaySpend
  <2>2. MaySpend(search, a, d) \in Nat
    BY ShareTypes DEF BudgetInv, CountersOK
  <2>3. paid[d] \in Nat /\ lost[d] \in Nat
    BY DEF DiscoveryInv, DiscoveryTypeOK
  <2>4. CASE d = v.day
    <3>1. Owes(search', a, d) = v.spends /\ Owes(search, a, d) = w.spends
          /\ paid'[d] = paid[d] + (v.spends - w.spends)
      BY <1>1, <2>4 DEF Owes
    <3> HIDE DEF w
    <3>2. QED BY <1>2, <2>1, <2>2, <2>3, <3>1
  <2>5. CASE d # v.day
    <3>1. Owes(search', a, d) = 0 /\ Owes(search, a, d) = 0 /\ paid'[d] = paid[d]
      BY <1>1, <2>3, <2>5 DEF Owes
    <3>2. QED BY <2>1, <2>2, <2>3, <3>1
  <2>6. QED BY <2>4, <2>5
<1>4. \A d \in SearchDays : \E x \in Nat :
        /\ paid'[d] - lost'[d] - Owes(search', a, d)
             = paid[d] - lost[d] - Owes(search, a, d) + x
        /\ \/ x + MaySpend(search', a, d) <= MaySpend(search, a, d)
           \/ Spent(d) + x <= DailyLimit - 1
  BY <1>3
<1>5. QED BY <1>4, BudgetKeeps

(* What a transaction owes is what it may spend: nothing, if it found the  *)
(* budget spent, and at most a search for each of its rules otherwise.     *)
LEMMA OwesWithinMay ==
  ASSUME DiscoveryInv, BudgetInv, NEW a \in SearchActors, NEW d
  PROVE  /\ Owes(search, a, d) \in Nat /\ MaySpend(search, a, d) \in Nat
         /\ Owes(search, a, d) <= MaySpend(search, a, d)
<1> DEFINE w == search[a]
<1>1. Owes(search, a, d) \in Nat /\ MaySpend(search, a, d) \in Nat
  BY ShareTypes DEF BudgetInv, CountersOK
<1>2. ASSUME a \in DOMAIN search, w.day = d, w.spends # 0
      PROVE  Owes(search, a, d) <= MaySpend(search, a, d)
  <2>1. BudgetOK(a, w) /\ SearchOK(w, rules, today, known)
    BY <1>2 DEF BudgetInv, CountersOK, DiscoveryInv
  <2> HIDE DEF w
  <2>2. w.spent \in Nat /\ w.spends \in Nat /\ w.spent + w.spends <= DailyLimit
    BY <1>2, <2>1 DEF BudgetOK
  <2>3. w.spends <= IF a = Job THEN BatchLimit ELSE 1
    <3>1. Len(w.todo) \in Nat /\ (w.page # NoPage => Len(w.todo) # 0)
      <4>1. w.todo \in Seq(ReadRules(w)) /\ (w.page # NoPage => w.todo # <<>>)
        BY <2>1 DEF SearchOK, PageOK
      <4>2. QED BY <4>1
    <3>2. w.spends + Len(w.todo)
            <= (IF a = Job THEN BatchLimit ELSE 1) + (IF w.page = NoPage THEN 0 ELSE 1)
      BY <2>1 DEF BudgetOK
    <3>3. BatchLimit \in Nat
      BY DiscoveryAssumption
    <3>4. CASE w.page = NoPage
      BY <2>2, <3>1, <3>2, <3>3, <3>4
    <3>5. CASE w.page # NoPage
      BY <2>2, <3>1, <3>2, <3>3, <3>5
    <3>6. QED BY <3>4, <3>5
  <2>4. DailyLimit \in Nat /\ BatchLimit \in Nat
    BY DiscoveryAssumption
  <2>5. w.spends <= Cap(a) /\ w.spent < DailyLimit
    BY <1>2, <2>2, <2>3, <2>4 DEF Cap
  <2>6. QED BY <1>2, <2>5 DEF Owes, MaySpend, w
<1>3. ASSUME ~(a \in DOMAIN search /\ w.day = d /\ w.spends # 0)
      PROVE  Owes(search, a, d) <= MaySpend(search, a, d)
  <2>1. Owes(search, a, d) = 0
    BY <1>3 DEF Owes
  <2>2. QED BY <1>1, <2>1
<1>4. QED BY <1>1, <1>2, <1>3

LEMMA FreshBudget ==
  ASSUME DiscoveryInv, BudgetInv, NEW a \in SearchActors, NEW w,
         w.spent = Spent(today), w.page = NoPage, w.spends \in Nat, Len(w.todo) \in Nat,
         w.spends + Len(w.todo) <= IF a = Job THEN BatchLimit ELSE 1,
         w.spends # 0 => w.spends = 1 /\ Spent(today) < DailyLimit
  PROVE  BudgetOK(a, w)
<1>1. today \in SearchDays
  BY DEF DiscoveryInv, DiscoveryTypeOK
<1>2. Spent(today) \in Nat
  BY <1>1 DEF BudgetInv, DayOK
<1>3. BatchLimit \in Nat /\ DailyLimit \in Nat
  BY DiscoveryAssumption
<1>4. w.spends + Len(w.todo)
        <= (IF a = Job THEN BatchLimit ELSE 1) + (IF w.page = NoPage THEN 0 ELSE 1)
  BY <1>3
<1>5. w.spends # 0 => w.spent + w.spends <= DailyLimit
  BY <1>2, <1>3
<1>6. QED BY <1>2, <1>4, <1>5 DEF BudgetOK

LEMMA RequestKeepsBudget ==
  ASSUME DiscoveryInv, DiscoveryInv', BudgetInv, NEW u \in Seekers, NEW w, Request(u, w),
         w.day = today, w.spent = Spent(today), w.page = NoPage,
         w.spends \in Nat, Len(w.todo) \in Nat, w.spends + Len(w.todo) <= 1,
         w.spends # 0 => w.spends = 1 /\ Spent(today) < DailyLimit,
         \A d \in SearchDays : paid'[d] = paid[d] + (IF d = today THEN w.spends ELSE 0)
  PROVE  BudgetInv'
<1>1. u \in SearchActors \ DOMAIN search /\ u # Job /\ search' = With(u, w) /\ lost' = lost
  BY DiscoveryAssumption DEF Request, SearchActors
<1>2. w.spends + Len(w.todo) <= IF u = Job THEN BatchLimit ELSE 1
  BY <1>1
<1>3. BudgetOK(u, w)
  BY <1>1, <1>2, FreshBudget
<1>4. QED BY <1>1, <1>3, OpenKeepsBudget

LEMMA StartKeepsBudget ==
  ASSUME DiscoveryInv, DiscoveryInv', BudgetInv,
         \/ StartBatch
         \/ \E u \in Seekers :
              \/ \E r \in Rules : StartRunNow(u, r)
              \/ \E r \in Rules, c \in Criteria, given, on \in BOOLEAN, day \in SearchDays :
                   StartUpdate(u, r, c, given, day, on)
              \/ \E c \in Criteria : Preview(u, c)
              \/ \E d \in Domains : AddCompany(u, d)
  PROVE  BudgetInv'
<1>0. paid \in [SearchDays -> Nat] /\ today \in SearchDays
  BY DEF DiscoveryInv, DiscoveryTypeOK
<1>1. CASE StartBatch
  <2> DEFINE w == Opened(Batch, TRUE)
  <2>1. /\ search' = With(Job, w) /\ Job \in SearchActors \ DOMAIN search
        /\ paid' = paid /\ lost' = lost
    BY <1>1 DEF StartBatch, SearchActors
  <2>2. JustOpened(w, Batch, TRUE, <<>>, {}, 0)
    BY OpenedFields
  <2>3. Len(Batch) \in Nat /\ Len(Batch) <= BatchLimit
    BY BatchIsDue DEF DiscoveryInv
  <2> HIDE DEF w
  <2>4. /\ w.day = today /\ w.spent = Spent(today) /\ w.spends = 0 /\ w.page = NoPage
        /\ w.todo = Batch
    BY <2>2 DEF JustOpened
  <2>5. w.spends + Len(w.todo) <= IF Job = Job THEN BatchLimit ELSE 1
    BY <2>3, <2>4
  <2>6. BudgetOK(Job, w)
    BY <2>1, <2>3, <2>4, <2>5, FreshBudget
  <2>7. \A d \in SearchDays : paid'[d] = paid[d] + (IF d = today THEN w.spends ELSE 0)
    BY <1>0, <2>1, <2>4
  <2>8. QED BY <2>1, <2>4, <2>6, <2>7, OpenKeepsBudget
<1>2. ASSUME NEW u \in Seekers, NEW r \in Rules, StartRunNow(u, r) PROVE BudgetInv'
  <2> DEFINE w == Opened(<<r>>, FALSE)
  <2>1. Request(u, w) /\ paid' = paid
    BY <1>2 DEF StartRunNow
  <2>2. JustOpened(w, <<r>>, FALSE, <<>>, {}, 0)
    BY OpenedFields
  <2> HIDE DEF w
  <2>3. w.day = today /\ w.spent = Spent(today) /\ w.spends = 0 /\ w.page = NoPage
    BY <2>2 DEF JustOpened
  <2>4. Len(w.todo) \in Nat /\ w.spends + Len(w.todo) <= 1
    BY <2>2, <2>3 DEF JustOpened
  <2>5. \A d \in SearchDays : paid'[d] = paid[d] + (IF d = today THEN w.spends ELSE 0)
    BY <1>0, <2>1, <2>3
  <2>6. QED BY <2>1, <2>3, <2>4, <2>5, RequestKeepsBudget
<1>3. ASSUME NEW u \in Seekers, NEW w, Request(u, w), NEW edit, NEW adds,
             JustOpened(w, <<>>, FALSE, edit, adds, 0), paid' = paid
      PROVE  BudgetInv'
  <2>1. /\ w.day = today /\ w.spent = Spent(today) /\ w.spends = 0 /\ w.page = NoPage
        /\ w.todo = <<>>
    BY <1>3 DEF JustOpened
  <2>2. Len(w.todo) \in Nat /\ w.spends + Len(w.todo) <= 1
    BY <2>1
  <2>3. \A d \in SearchDays : paid'[d] = paid[d] + (IF d = today THEN w.spends ELSE 0)
    BY <1>0, <1>3, <2>1
  <2>4. QED BY <1>3, <2>1, <2>2, <2>3, RequestKeepsBudget
<1>4. ASSUME NEW u \in Seekers, NEW r \in Rules, NEW c \in Criteria, NEW given \in BOOLEAN,
             NEW on \in BOOLEAN, NEW day \in SearchDays, StartUpdate(u, r, c, given, day, on)
      PROVE  BudgetInv'
  <2>1. PICK edit : Request(u, [Opened(<<>>, FALSE) EXCEPT !.edit = edit]) /\ paid' = paid
    BY <1>4 DEF StartUpdate
  <2> DEFINE w == [Opened(<<>>, FALSE) EXCEPT !.edit = edit]
  <2>2. JustOpened(w, <<>>, FALSE, edit, {}, 0)
    BY OpenedWith
  <2>3. Request(u, w) /\ paid' = paid
    BY <2>1
  <2> HIDE DEF w
  <2>4. QED BY <1>3, <2>2, <2>3
<1>5. ASSUME NEW u \in Seekers, NEW c \in Criteria, Preview(u, c) PROVE BudgetInv'
  <2> DEFINE w == [Opened(<<>>, FALSE) EXCEPT !.spends = 1]
             o == Opened(<<>>, FALSE)
  <2>1. Request(u, w) /\ paid' = [paid EXCEPT ![today] = @ + 1]
    BY <1>5 DEF Preview
  <2>2. JustOpened(w, <<>>, FALSE, <<>>, {}, 1)
    BY OpenedWith
  <2>3. JustOpened(o, <<>>, FALSE, <<>>, {}, 0)
    BY OpenedFields
  <2>4. c \in PaidCriteria /\ HasBudget(o, c)
    BY <1>5 DEF Preview
  <2> HIDE DEF w, o
  <2>5. Spent(today) < DailyLimit
    <3>1. o.spent + o.spends < DailyLimit
      BY <2>4 DEF HasBudget
    <3>2. Spent(today) \in Nat /\ o.spent = Spent(today) /\ o.spends = 0
      BY <1>0, <2>3 DEF BudgetInv, DayOK, JustOpened
    <3>3. QED BY <3>1, <3>2
  <2>6. /\ w.day = today /\ w.spent = Spent(today) /\ w.spends = 1 /\ w.page = NoPage
        /\ w.todo = <<>>
    BY <2>2 DEF JustOpened
  <2>7. Len(w.todo) \in Nat /\ w.spends + Len(w.todo) <= 1
    BY <2>6
  <2>8. \A d \in SearchDays : paid'[d] = paid[d] + (IF d = today THEN w.spends ELSE 0)
    BY <1>0, <2>1, <2>6
  <2>9. QED BY <2>1, <2>5, <2>6, <2>7, <2>8, RequestKeepsBudget
<1>6. ASSUME NEW u \in Seekers, NEW d \in Domains, AddCompany(u, d) PROVE BudgetInv'
  <2> DEFINE w == [Opened(<<>>, FALSE) EXCEPT !.adds = {d}]
  <2>1. Request(u, w) /\ paid' = paid
    BY <1>6 DEF AddCompany
  <2>2. JustOpened(w, <<>>, FALSE, <<>>, {d}, 0)
    BY OpenedWith
  <2> HIDE DEF w
  <2>3. QED BY <1>3, <2>1, <2>2
<1>7. QED BY <1>1, <1>2, <1>4, <1>5, <1>6

(* A rule that is done with gives its place in the budget to its search.   *)
LEMMA ShorterBudget ==
  ASSUME NEW a, NEW w, BudgetOK(a, w), w.todo # <<>>, NEW S, w.todo \in Seq(S),
         NEW v, v.spent = w.spent, v.spends = w.spends, v.todo = Tail(w.todo)
  PROVE  BudgetOK(a, v)
<1>1. Len(w.todo) \in Nat /\ Len(v.todo) = Len(w.todo) - 1
  OBVIOUS
<1>2. BatchLimit \in Nat /\ DailyLimit \in Nat
  BY DiscoveryAssumption
<1>3. v.spends + Len(v.todo)
        <= (IF a = Job THEN BatchLimit ELSE 1) + (IF v.page = NoPage THEN 0 ELSE 1)
  BY <1>1, <1>2 DEF BudgetOK
<1>4. QED BY <1>3 DEF BudgetOK

LEMMA PassKeepsBudget ==
  ASSUME DiscoveryInv, DiscoveryInv', BudgetInv, NEW a \in SearchActors, NEW r,
         SkipSlot(a, r) \/ FailRun(a, r)
  PROVE  BudgetInv'
<1> DEFINE w == search[a]
           v == Finished(w, r, Scheduled(w, r))
<1>1. Turn(a, r) /\ a \in DOMAIN search /\ search' = With(a, v) /\ paid' = paid /\ lost' = lost
  BY DEF SkipSlot, FailRun, RunsNew, Turn
<1>2. SearchOK(w, rules, today, known) /\ DOMAIN w = SearchFields /\ w.todo # <<>>
  BY <1>1, TurnFacts
<1>3. w.todo \in Seq(ReadRules(w)) /\ BudgetOK(a, w)
  BY <1>1, <1>2 DEF SearchOK, BudgetInv, CountersOK
<1>4. DoneWith(w, r, Scheduled(w, r), v) /\ v.spends = w.spends
  BY <1>2, FinishedFields
<1> HIDE DEF v
<1>5. BudgetOK(a, v)
  BY <1>2, <1>3, <1>4, ShorterBudget DEF DoneWith
<1>6. \A d \in SearchDays :
        paid'[d] = paid[d] + (IF d = v.day THEN v.spends - search[a].spends ELSE 0)
  BY <1>1, <1>3, <1>4 DEF DiscoveryInv, DiscoveryTypeOK, BudgetOK
<1>7. v.day = search[a].day /\ v.spent = search[a].spent
  BY <1>4 DEF DoneWith
<1>8. QED BY <1>1, <1>5, <1>6, <1>7, GoOnKeepsBudget

LEMMA AskKeepsBudget ==
  ASSUME DiscoveryInv, DiscoveryInv', BudgetInv, NEW a \in SearchActors, NEW r, AskProvider(a, r)
  PROVE  BudgetInv'
<1> DEFINE w == search[a]
           c == w.rules[r].criteria
           cost == IF c \in PaidCriteria THEN 1 ELSE 0
           asked == [w EXCEPT !.spends = @ + cost]
           Asked(o) == [asked EXCEPT !.page = [offset |-> o, found |-> Answer(w, c, o)]]
           v == Finished(asked, r, Scheduled(w, r))
<1>1. /\ Turn(a, r) /\ a \in DOMAIN search /\ paid' = [paid EXCEPT ![w.day] = @ + cost]
      /\ lost' = lost /\ HasBudget(w, c)
      /\ \/ \E o \in {w.rules[r].offset, 0} : search' = With(a, Asked(o))
         \/ search' = With(a, v)
  BY DEF AskProvider, RunsNew, Turn
<1>2. /\ SearchOK(w, rules, today, known) /\ DOMAIN w = SearchFields /\ w.todo # <<>>
      /\ w.page = NoPage /\ w.rules[r] \in Rule
  BY <1>1, TurnFacts
<1>3. w.todo \in Seq(ReadRules(w)) /\ BudgetOK(a, w)
  BY <1>1, <1>2 DEF SearchOK, BudgetInv, CountersOK
<1>4. cost \in {0, 1} /\ (cost = 1 => w.spent + w.spends < DailyLimit)
  BY <1>1 DEF HasBudget
<1>5. SamePlan(w, asked) /\ asked.page = w.page /\ asked.spent = w.spent
      /\ asked.spends = w.spends + cost
  <2> HIDE DEF cost, w
  <2>1. QED BY <1>2 DEF SamePlan, SearchFields
<1>6. DailyLimit \in Nat /\ BatchLimit \in Nat
  BY DiscoveryAssumption
<1>7. w.spends + cost \in Nat /\ (w.spends + cost # 0 => w.spent + (w.spends + cost) <= DailyLimit)
  <2> HIDE DEF cost, w
  <2>1. QED BY <1>3, <1>4, <1>6 DEF BudgetOK
(* Its rule still has its place in the budget while the answer is awaited. *)
<1>8. ASSUME NEW x, x.spent = w.spent, x.spends = w.spends + cost,
             \/ x.todo = w.todo /\ x.page # NoPage
             \/ x.todo = Tail(w.todo) /\ x.page = NoPage
      PROVE  BudgetOK(a, x)
  <2>1. /\ Len(w.todo) \in Nat /\ Len(Tail(w.todo)) = Len(w.todo) - 1
    BY <1>2, <1>3
  <2>2. w.spent \in Nat /\ w.spends \in Nat /\ cost \in {0, 1}
        /\ w.spends + Len(w.todo) <= IF a = Job THEN BatchLimit ELSE 1
    <3>1. (IF a = Job THEN BatchLimit ELSE 1) + 0 = IF a = Job THEN BatchLimit ELSE 1
      BY <1>6
    <3>2. w.spends + Len(w.todo) <= (IF a = Job THEN BatchLimit ELSE 1) + 0
      BY <1>2, <1>3 DEF BudgetOK
    <3>3. QED BY <1>3, <1>4, <3>1, <3>2 DEF BudgetOK
  <2> DEFINE share == IF a = Job THEN BatchLimit ELSE 1
  <2>3. share \in Nat /\ w.spends + Len(w.todo) <= share
    BY <1>6, <2>2
  <2> HIDE DEF cost, w, share
  <2>6. x.spends + Len(x.todo) <= share + (IF x.page = NoPage THEN 0 ELSE 1)
    <3>1. CASE x.todo = w.todo /\ x.page # NoPage
      BY <1>8, <2>1, <2>2, <2>3, <3>1
    <3>2. CASE x.todo = Tail(w.todo) /\ x.page = NoPage
      <4>1. Len(x.todo) = Len(w.todo) - 1
        BY <2>1, <3>2
      <4>2. QED BY <1>8, <2>1, <2>2, <2>3, <3>2, <4>1
    <3>3. QED BY <1>8, <3>1, <3>2
  <2>4. x.spends \in Nat /\ x.spent \in Nat
        /\ (x.spends # 0 => x.spent + x.spends <= DailyLimit)
    BY <1>7, <1>8, <2>2
  <2>5. QED BY <2>4, <2>6 DEF BudgetOK, share
<1>9. ASSUME NEW x, search' = With(a, x), BudgetOK(a, x),
             x.day = w.day, x.spent = w.spent, x.spends = w.spends + cost
      PROVE  BudgetInv'
  <2>1. w.spends \in Nat /\ paid \in [SearchDays -> Nat]
    BY <1>3 DEF BudgetOK, DiscoveryInv, DiscoveryTypeOK
  <2>2. x.spends - w.spends = cost
    <3> HIDE DEF cost, w
    <3>1. QED BY <1>4, <1>9, <2>1
  <2>3. paid' = [paid EXCEPT ![x.day] = @ + cost]
    BY <1>1, <1>9
  <2>4. ASSUME NEW d \in SearchDays
        PROVE  paid'[d] = paid[d] + (IF d = x.day THEN x.spends - search[a].spends ELSE 0)
    <3>1. x.spends - search[a].spends = cost
      BY <2>2
    <3> HIDE DEF cost, w
    <3>2. QED BY <1>4, <2>1, <2>3, <3>1
  <2>5. QED BY <1>1, <1>9, <2>4, GoOnKeepsBudget
<1>10. ASSUME NEW o \in {w.rules[r].offset, 0}, search' = With(a, Asked(o))
       PROVE  BudgetInv'
  <2> DEFINE x == Asked(o)
             page == [offset |-> o, found |-> Answer(w, c, o)]
  <2>1. /\ x.spent = w.spent /\ x.spends = w.spends + cost /\ x.todo = w.todo
        /\ x.day = w.day /\ x.page = page
    <3> HIDE DEF asked, w, c, cost, page
    <3>1. QED BY <1>5 DEF SamePlan, SearchFields, page
  <2>2. x.page # NoPage
    <3>1. 0 \in Offsets
      BY DiscoveryAssumption, FS_CardinalityType DEF Offsets
    <3>2. c \in Criteria /\ o \in Offsets
      <4> HIDE DEF w
      <4>1. QED BY <1>2, <3>1 DEF Rule
    <3> HIDE DEF w, c
    <3>3. page \in Page
      BY <3>2, AnswerFacts DEF Page
    <3>4. x.page = page
      BY <2>1
    <3> HIDE DEF x, page
    <3>5. QED BY <3>3, <3>4, DiscoveryAssumption
  <2> HIDE DEF x, w, cost
  <2>3. BudgetOK(a, x)
    BY <1>8, <2>1, <2>2
  <2>4. search' = With(a, x)
    BY <1>10 DEF x
  <2>5. QED BY <1>9, <2>1, <2>3, <2>4
<1>11. CASE search' = With(a, v)
  <2>1. DOMAIN asked = SearchFields
    BY <1>5 DEF SamePlan
  <2> HIDE DEF asked, w, cost
  <2>2. DoneWith(asked, r, Scheduled(w, r), v) /\ v.spends = asked.spends
    BY <2>1, FinishedFields
  <2> HIDE DEF v
  <2>3. /\ v.spent = w.spent /\ v.spends = w.spends + cost /\ v.day = w.day
        /\ v.todo = Tail(w.todo) /\ v.page = NoPage
    BY <1>5, <2>2 DEF DoneWith, SamePlan
  <2>4. BudgetOK(a, v)
    BY <1>8, <2>3
  <2>5. QED BY <1>9, <1>11, <2>3, <2>4
<1> HIDE DEF Asked, v
<1>12. QED BY <1>1, <1>10, <1>11

LEMMA AnswerKeepsBudget ==
  ASSUME DiscoveryInv, DiscoveryInv', BudgetInv, NEW a \in SearchActors, TakeAnswer(a)
  PROVE  BudgetInv'
<1> DEFINE w == search[a]
           r == Head(w.todo)
<1>1. /\ a \in DOMAIN search /\ w.page # NoPage /\ paid' = paid /\ lost' = lost
      /\ \E x, y : search' = With(a, [Finished(w, r, x) EXCEPT !.adds = y])
  BY DEF TakeAnswer
<1>2. SearchOK(w, rules, today, known) /\ BudgetOK(a, w)
  BY <1>1 DEF DiscoveryInv, BudgetInv, CountersOK
<1>3. w.todo # <<>> /\ DOMAIN w = SearchFields /\ w.todo \in Seq(ReadRules(w))
  BY <1>1, <1>2 DEF SearchOK, PageOK
<1>4. PICK x, y : search' = With(a, [Finished(w, r, x) EXCEPT !.adds = y])
  BY <1>1
<1> DEFINE f == Finished(w, r, x)
           v == [f EXCEPT !.adds = y]
<1>5. DoneWith(w, r, x, f) /\ f.spends = w.spends
  BY <1>3, FinishedFields
<1>8. search' = With(a, v)
  BY <1>4
<1> HIDE DEF f
<1>6. /\ v.day = w.day /\ v.spent = w.spent /\ v.spends = w.spends /\ v.page = NoPage
      /\ v.todo = Tail(w.todo)
  BY <1>5 DEF DoneWith, SearchFields
<1>7. BudgetOK(a, v)
  <2>1. Len(w.todo) \in Nat /\ Len(Tail(w.todo)) = Len(w.todo) - 1
    BY <1>3
  <2>2. BatchLimit \in Nat /\ w.spends \in Nat
        /\ w.spends + Len(w.todo) <= (IF a = Job THEN BatchLimit ELSE 1) + 1
    BY <1>1, <1>2, DiscoveryAssumption DEF BudgetOK
  <2> HIDE DEF v, w
  <2>3. v.spends + Len(v.todo)
          <= (IF a = Job THEN BatchLimit ELSE 1) + (IF v.page = NoPage THEN 0 ELSE 1)
    BY <1>6, <2>1, <2>2
  <2>4. QED BY <1>2, <1>6, <2>3 DEF BudgetOK
<1> HIDE DEF v
<1>9. \A d \in SearchDays :
        paid'[d] = paid[d] + (IF d = v.day THEN v.spends - search[a].spends ELSE 0)
  BY <1>1, <1>2, <1>6 DEF DiscoveryInv, DiscoveryTypeOK, BudgetOK
<1>10. QED BY <1>1, <1>6, <1>7, <1>8, <1>9, GoOnKeepsBudget

(* The searches of a transaction that ends come on the books, or are lost. *)
LEMMA CommitKeepsBudget ==
  ASSUME DiscoveryInv, DiscoveryInv', BudgetInv, NEW a \in SearchActors, CommitSearch(a)
  PROVE  BudgetInv'
<1>1. search' = Without(a) /\ paid' = paid /\ lost' = lost
  BY DEF CommitSearch, PersistSearch
<1>2. ASSUME NEW d \in SearchDays
      PROVE  /\ Owes(search, a, d) \in Nat
             /\ paid'[d] - lost'[d] - Owes(search', a, d)
                  = paid[d] - lost[d] - Owes(search, a, d) + Owes(search, a, d)
             /\ Owes(search, a, d) + MaySpend(search', a, d) <= MaySpend(search, a, d)
  <2>1. Owes(search', a, d) = 0 /\ MaySpend(search', a, d) = 0
    BY <1>1 DEF Without, Owes, MaySpend
  <2>2. /\ Owes(search, a, d) \in Nat /\ MaySpend(search, a, d) \in Nat
        /\ Owes(search, a, d) <= MaySpend(search, a, d)
    BY OwesWithinMay
  <2>3. paid[d] \in Nat /\ lost[d] \in Nat
    BY DEF DiscoveryInv, DiscoveryTypeOK
  <2>4. QED BY <1>1, <2>1, <2>2, <2>3
<1>3. \A d \in SearchDays : \E x \in Nat :
        /\ paid'[d] - lost'[d] - Owes(search', a, d)
             = paid[d] - lost[d] - Owes(search, a, d) + x
        /\ \/ x + MaySpend(search', a, d) <= MaySpend(search, a, d)
           \/ Spent(d) + x <= DailyLimit - 1
  BY <1>2
<1>4. QED BY <1>1, <1>3, BudgetKeeps

LEMMA PartlyKeepsBudget ==
  ASSUME DiscoveryInv, DiscoveryInv', BudgetInv, NEW a \in SearchActors, CommitPartly(a)
  PROVE  BudgetInv'
<1> DEFINE w == search[a]
           v == [w EXCEPT !.known = known', !.spent = Spent(w.day) + w.spends,
                 !.rows = <<>>, !.slots = {}, !.adds = {}, !.spends = 0]
<1>1. a \in DOMAIN search /\ search' = With(a, v) /\ w.page = NoPage
      /\ paid' = paid /\ lost' = lost
  BY DEF CommitPartly, PersistSearch
<1>2. SearchOK(w, rules, today, known) /\ BudgetOK(a, w)
  BY <1>1 DEF DiscoveryInv, BudgetInv, CountersOK
<1>3. DOMAIN w = SearchFields /\ w.todo \in Seq(ReadRules(w)) /\ w.day \in SearchDays
  BY <1>2, DiscoveryAssumption DEF SearchOK, DiscoveryInv, DiscoveryTypeOK, SearchDays
<1>4. v.spent = Spent(w.day) + w.spends /\ v.spends = 0 /\ v.todo = w.todo
      /\ v.page = NoPage /\ v.day = w.day
  <2> HIDE DEF w
  <2>1. QED BY <1>1, <1>3 DEF SearchFields, w
<1>5. Spent(w.day) \in Nat /\ w.spends \in Nat
  BY <1>2, <1>3 DEF BudgetInv, DayOK, BudgetOK
<1> HIDE DEF v
<1>6. BudgetOK(a, v)
  <2>1. Len(w.todo) \in Nat /\ BatchLimit \in Nat
    BY <1>3, DiscoveryAssumption
  <2>2. w.spends + Len(w.todo)
          <= (IF a = Job THEN BatchLimit ELSE 1) + (IF w.page = NoPage THEN 0 ELSE 1)
    BY <1>2 DEF BudgetOK
  <2> HIDE DEF w
  <2>3. v.spends + Len(v.todo)
          <= (IF a = Job THEN BatchLimit ELSE 1) + (IF v.page = NoPage THEN 0 ELSE 1)
    BY <1>1, <1>4, <1>5, <2>1, <2>2 DEF w
  <2>4. QED BY <1>4, <1>5, <2>3 DEF BudgetOK
<1>7. a \in DOMAIN search' /\ search'[a] = v
  BY <1>1 DEF With
<1>8. ASSUME NEW d \in SearchDays
      PROVE  /\ Owes(search, a, d) \in Nat
             /\ paid'[d] - lost'[d] - Owes(search', a, d)
                  = paid[d] - lost[d] - Owes(search, a, d) + Owes(search, a, d)
             /\ \/ Owes(search, a, d) + MaySpend(search', a, d) <= MaySpend(search, a, d)
                \/ Spent(d) + Owes(search, a, d) <= DailyLimit - 1
  <2>1. Owes(search', a, d) = 0
    BY <1>4, <1>7 DEF Owes
  <2>2. /\ Owes(search, a, d) \in Nat /\ MaySpend(search, a, d) \in Nat
        /\ Owes(search, a, d) <= MaySpend(search, a, d)
    BY OwesWithinMay
  <2>3. paid[d] \in Nat /\ lost[d] \in Nat /\ DailyLimit \in Nat
    BY DiscoveryAssumption DEF DiscoveryInv, DiscoveryTypeOK
  <2>4. MaySpend(search', a, d) = 0 \/ Spent(d) + Owes(search, a, d) <= DailyLimit - 1
    <3>1. CASE d = w.day /\ v.spent < DailyLimit
      <4>1. Owes(search, a, d) = w.spends
        BY <1>1, <3>1 DEF Owes
      <4> HIDE DEF w
      <4>2. Spent(d) + w.spends < DailyLimit
        BY <1>4, <3>1
      <4>3. Spent(d) \in Nat
        BY <1>5, <3>1
      <4>4. QED BY <1>5, <2>3, <4>1, <4>2, <4>3
    <3>2. CASE ~(d = w.day /\ v.spent < DailyLimit)
      BY <1>4, <1>7, <3>2 DEF MaySpend
    <3>3. QED BY <3>1, <3>2
  <2>5. QED BY <1>1, <2>1, <2>2, <2>3, <2>4
<1>9. \A d \in SearchDays : \E x \in Nat :
        /\ paid'[d] - lost'[d] - Owes(search', a, d)
             = paid[d] - lost[d] - Owes(search, a, d) + x
        /\ \/ x + MaySpend(search', a, d) <= MaySpend(search, a, d)
           \/ Spent(d) + x <= DailyLimit - 1
  BY <1>8
<1>10. QED BY <1>1, <1>6, <1>9, BudgetKeeps

LEMMA LoseKeepsBudget ==
  ASSUME DiscoveryInv, DiscoveryInv', BudgetInv, NEW a \in SearchActors, LoseSearch(a)
  PROVE  BudgetInv'
<1> DEFINE w == search[a]
<1>1. a \in DOMAIN search /\ search' = Without(a) /\ paid' = paid
      /\ lost' = [lost EXCEPT ![w.day] = @ + w.spends]
  BY DEF LoseSearch
<1>2. w.spends \in Nat
  BY <1>1 DEF BudgetInv, CountersOK, BudgetOK
<1>3. ASSUME NEW d \in SearchDays
      PROVE  /\ paid'[d] - lost'[d] - Owes(search', a, d)
                  = paid[d] - lost[d] - Owes(search, a, d) + 0
             /\ 0 + MaySpend(search', a, d) <= MaySpend(search, a, d)
  <2>1. Owes(search', a, d) = 0 /\ MaySpend(search', a, d) = 0
    BY <1>1 DEF Without, Owes, MaySpend
  <2>2. MaySpend(search, a, d) \in Nat
    BY OwesWithinMay
  <2>3. paid[d] \in Nat /\ lost[d] \in Nat
        /\ lost \in [SearchDays -> Nat]
    BY DEF DiscoveryInv, DiscoveryTypeOK
  <2>4. Owes(search, a, d) = IF d = w.day THEN w.spends ELSE 0
    BY <1>1 DEF Owes
  <2>5. lost'[d] = lost[d] + IF d = w.day THEN w.spends ELSE 0
    <3> HIDE DEF w
    <3>1. QED BY <1>1, <1>2, <2>3
  <2> HIDE DEF w
  <2>6. QED BY <1>1, <1>2, <2>1, <2>2, <2>3, <2>4, <2>5
<1>4. \A d \in SearchDays : \E x \in Nat :
        /\ paid'[d] - lost'[d] - Owes(search', a, d)
             = paid[d] - lost[d] - Owes(search, a, d) + x
        /\ \/ x + MaySpend(search', a, d) <= MaySpend(search, a, d)
           \/ Spent(d) + x <= DailyLimit - 1
  BY <1>3
<1>5. QED BY <1>1, <1>4, BudgetKeeps

(* Neither the calendar nor a new rule touches the transactions.           *)
LEMMA IdleKeepsBudget ==
  ASSUME DiscoveryInv, BudgetInv, UNCHANGED <<search, paid, lost>>
  PROVE  BudgetInv'
<1>0. DOMAIN search \subseteq SearchActors /\ CountersOK
  BY DEF DiscoveryInv, DiscoveryTypeOK, BudgetInv
<1>1. CountersOK' /\ DOMAIN search' \subseteq SearchActors
  BY <1>0 DEF CountersOK
<1>2. SpentIsSum /\ SpentIsSum'
  BY SpentIsTotal, PTL
<1>3. \A d \in SearchDays : Spent(d)' = Spent(d)
  BY <1>0, <1>1, <1>2 DEF SpentIsSum
<1>4. \A d \in SearchDays : DayOK(Spent(d)', search', d)
  BY <1>3 DEF BudgetInv
<1>5. QED BY <1>1, <1>4 DEF BudgetInv

-----------------------------------------------------------------------------
RulesInv == DiscoveryInv /\ BudgetInv

LEMMA BudgetInitial == DiscoveryInit => BudgetInv
<1> SUFFICES ASSUME DiscoveryInit PROVE BudgetInv
  OBVIOUS
<1>1. DOMAIN search = {}
  BY DEF DiscoveryInit
<1>2. CountersOK /\ DOMAIN search \subseteq SearchActors
  BY <1>1 DEF CountersOK
<1>3. ASSUME NEW d \in SearchDays PROVE DayOK(Spent(d), search, d)
  <2>1. \A a \in SearchActors :
          /\ Flight(search, d)[a] = 0 /\ May(search, d)[a] = 0
          /\ Caps[a] \in Nat
    BY <1>1, <1>2, ShareTypes DEF CountersOK, Flight, Owes, May, MaySpend
  <2>2. Total(Flight(search, d), SearchActors) = 0 /\ Total(May(search, d), SearchActors) = 0
    <3>1. {} \in SUBSET SearchActors /\ IsFiniteSet({})
      BY FS_EmptySet
    <3>2. \A a \in SearchActors : Flight(search, d)[a] \in Nat /\ May(search, d)[a] \in Nat
      BY <2>1
    <3>3. /\ Total(Flight(search, d), SearchActors) = Total(Flight(search, d), {})
          /\ Total(May(search, d), SearchActors) = Total(May(search, d), {})
      BY <2>1, <3>1, <3>2, ActorsFinite, TotalOfSupport
    <3>4. Total(Flight(search, d), {}) = 0 /\ Total(May(search, d), {}) = 0
      BY <3>1, TotalFacts
    <3>5. QED BY <3>3, <3>4
  <2>3. Spent(d) = 0
    <3>1. Spent(d) = paid[d] - lost[d] - Total(Flight(search, d), SearchActors)
      BY <1>2, SpentIsTotal DEF SpentIsSum
    <3>2. paid[d] = 0 /\ lost[d] = 0
      BY DEF DiscoveryInit
    <3>3. QED BY <2>2, <3>1, <3>2
  <2>4. Total(Caps, SearchActors) \in Nat /\ DailyLimit \in Nat \ {0}
    BY <2>1, ActorsFinite, TotalFacts, DiscoveryAssumption
  <2>5. QED BY <2>2, <2>3, <2>4 DEF DayOK
<1>4. QED BY <1>2, <1>3 DEF BudgetInv

LEMMA IdleKeeps ==
  ASSUME DiscoveryInv, NextDay \/ \E r \in Rules, c \in Criteria : CreateRule(r, c)
  PROVE  DiscoveryInv' /\ UNCHANGED <<search, paid, lost>>
<1>0. /\ rules \in [Rules -> Rule \cup {NoRule}] /\ today \in SearchDays
      /\ slots \subseteq Rules \X (0 .. LastDay + 1) /\ known \subseteq Domains
      /\ DOMAIN search \subseteq SearchActors
      /\ paid \in [SearchDays -> Nat] /\ lost \in [SearchDays -> Nat]
      /\ requests \in 0 .. MaxRequests /\ faults \in 0 .. MaxFaults
      /\ \A r \in Rules : rules[r] # NoRule => Covers(rules[r].offset, rules[r].origin, known)
  BY DEF DiscoveryInv, DiscoveryTypeOK
<1>1. LastDay \in Nat /\ MaxRequests \in Nat /\ 0 \in Offsets
  BY DiscoveryAssumption, FS_CardinalityType DEF Offsets
<1>2. CASE NextDay
  <2>1. /\ today' \in SearchDays /\ today <= today'
        /\ UNCHANGED <<rules, slots, known, search, paid, lost, requests, faults>>
    BY <1>0, <1>1, <1>2 DEF NextDay, SearchDays
  <2>2. DiscoveryTypeOK'
    BY <1>0, <2>1 DEF DiscoveryTypeOK
  <2>3. QED BY <1>0, <2>1, <2>2, SearchesStay
<1>3. ASSUME NEW r \in Rules, NEW c \in Criteria, CreateRule(r, c)
      PROVE  DiscoveryInv' /\ UNCHANGED <<search, paid, lost>>
  <2>1. /\ requests' \in 0 .. MaxRequests /\ rules[r] = NoRule
        /\ rules' = [rules EXCEPT ![r] = FreshRule(c)]
        /\ UNCHANGED <<today, slots, known, search, paid, lost, faults>>
    BY <1>0, <1>1, <1>3 DEF CreateRule
  <2>2. FreshRule(c) \in Rule /\ FreshRule(c).offset = 0
    BY <1>0, <1>1 DEF FreshRule, Rule, SearchDays
  <2>3. FreshRule(c) # NoRule
    BY <2>2, DiscoveryAssumption
  <2>4. Covers(FreshRule(c).offset, FreshRule(c).origin, known)
    BY <2>2 DEF Covers
  <2>5. DiscoveryTypeOK'
    BY <1>0, <2>1, <2>2 DEF DiscoveryTypeOK
  <2>6. /\ \A q \in Rules : rules[q] # NoRule => rules'[q] # NoRule
        /\ \A q \in Rules : rules'[q] # NoRule =>
             Covers(rules'[q].offset, rules'[q].origin, known)
    BY <1>0, <2>1, <2>3, <2>4
  <2>7. today <= today'
    BY <1>0, <1>1, <2>1 DEF SearchDays
  <2>8. QED BY <2>1, <2>5, <2>6, <2>7, SearchesStay
<1>4. QED BY <1>2, <1>3

LEMMA RulesStep == RulesInv /\ [DiscoveryNext]_discoveryVars => RulesInv'
<1> SUFFICES ASSUME RulesInv, [DiscoveryNext]_discoveryVars PROVE RulesInv'
  OBVIOUS
<1> USE DEF RulesInv
<1>0. CASE UNCHANGED discoveryVars
  <2>1. UNCHANGED <<today, rules, slots, known, search, paid, lost, requests, faults>>
    BY <1>0 DEF discoveryVars
  <2>2. BudgetInv'
    BY <2>1, IdleKeepsBudget
  <2>3. DiscoveryInv'
    BY <2>1 DEF DiscoveryInv, DiscoveryTypeOK
  <2>4. QED BY <2>2, <2>3
<1>1. CASE NextDay \/ \E r \in Rules, c \in Criteria : CreateRule(r, c)
  BY <1>1, IdleKeeps, IdleKeepsBudget
<1>2. CASE \/ StartBatch
           \/ \E u \in Seekers :
                \/ \E r \in Rules : StartRunNow(u, r)
                \/ \E r \in Rules, c \in Criteria, given, on \in BOOLEAN, day \in SearchDays :
                     StartUpdate(u, r, c, given, day, on)
                \/ \E c \in Criteria : Preview(u, c)
                \/ \E d \in Domains : AddCompany(u, d)
  BY <1>2, StartKeeps, StartKeepsBudget
<1>3. ASSUME NEW a \in SearchActors, NEW r \in Rules, SkipSlot(a, r) \/ FailRun(a, r)
      PROVE  RulesInv'
  BY <1>3, PassKeeps, PassKeepsBudget
<1>4. ASSUME NEW a \in SearchActors, NEW r \in Rules, AskProvider(a, r) PROVE RulesInv'
  BY <1>4, AskKeeps, AskKeepsBudget
<1>5. ASSUME NEW a \in SearchActors, TakeAnswer(a) PROVE RulesInv'
  BY <1>5, AnswerKeeps, AnswerKeepsBudget
<1>6. ASSUME NEW a \in SearchActors, CommitSearch(a) PROVE RulesInv'
  BY <1>6, CommitKeeps, CommitKeepsBudget
<1>7. ASSUME NEW a \in SearchActors, CommitPartly(a) PROVE RulesInv'
  BY <1>7, PartlyKeeps, PartlyKeepsBudget
<1>8. ASSUME NEW a \in SearchActors, LoseSearch(a) PROVE RulesInv'
  <2>1. SearchOK(search[a], rules, today, known) /\ search[a].spends \in Nat
    BY <1>8 DEF LoseSearch, DiscoveryInv, BudgetInv, CountersOK, BudgetOK
  <2>2. search[a].day \in SearchDays
    BY <2>1, DiscoveryAssumption DEF SearchOK, DiscoveryInv, DiscoveryTypeOK, SearchDays
  <2>3. QED BY <1>8, <2>1, <2>2, LoseKeeps, LoseKeepsBudget
<1>9. QED BY <1>0, <1>1, <1>2, <1>3, <1>4, <1>5, <1>6, <1>7, <1>8
          DEF DiscoveryNext, ProceedSearch

LEMMA RulesInvariant == DiscoverySpec => []RulesInv
<1>1. DiscoveryInit => RulesInv
  BY DiscoveryInitial, BudgetInitial DEF RulesInv
<1>2. QED BY <1>1, RulesStep, PTL DEF DiscoverySpec

(* The pages that a rule has turned are complete: what it passed is on the *)
(* list or was refused.                                                    *)
THEOREM NoResultIsSkipped == DiscoverySpec => []NoResultSkipped
<1>1. RulesInv => NoResultSkipped
  <2> SUFFICES ASSUME RulesInv, NEW r \in Rules, rules[r] # NoRule,
                      rules[r].origin \subseteq {rules[r].criteria},
                      NEW i \in 1 .. rules[r].offset
               PROVE  Catalogue[rules[r].criteria][i] \in known \cup InvalidDomains
    BY DEF NoResultSkipped
  <2>1. rules[r].criteria \in Criteria
    BY DEF RulesInv, DiscoveryInv, DiscoveryTypeOK, Rule
  <2>2. Covers(rules[r].offset, rules[r].origin, known)
    BY DEF RulesInv, DiscoveryInv
  <2>3. QED BY <2>1, <2>2 DEF Covers
<1>2. QED BY <1>1, RulesInvariant, PTL

(* The AI searches of a day exceed the budget by what the job's batch and  *)
(* one search of each user can add, and never by more.                     *)
THEOREM OverspendStaysBounded == DiscoverySpec => []OverspendIsBounded
<1>1. RulesInv => OverspendIsBounded
  <2> SUFFICES ASSUME RulesInv, NEW d \in SearchDays
               PROVE  paid[d] - lost[d] <=
                        DailyLimit + Cardinality(Seekers) - 1
                          + (IF BatchLimit < DailyLimit THEN BatchLimit ELSE DailyLimit)
    BY DEF OverspendIsBounded
  <2> DEFINE f == Total(Flight(search, d), SearchActors)
             m == Total(May(search, d), SearchActors)
             c == Total(Caps, SearchActors)
  <2>0. DiscoveryInv /\ BudgetInv /\ CountersOK /\ DOMAIN search \subseteq SearchActors
    BY DEF RulesInv, BudgetInv, DiscoveryInv, DiscoveryTypeOK
  <2>1. Spent(d) = paid[d] - lost[d] - f
    BY <2>0, SpentIsTotal DEF SpentIsSum
  <2>2. \A a \in SearchActors :
          /\ Flight(search, d)[a] \in Nat /\ May(search, d)[a] \in Nat /\ Caps[a] \in Nat
          /\ Flight(search, d)[a] <= May(search, d)[a]
    <3>1. \A a \in SearchActors :
            /\ Flight(search, d)[a] = Owes(search, a, d)
            /\ May(search, d)[a] = MaySpend(search, a, d)
            /\ Caps[a] = Cap(a) /\ Cap(a) \in Nat
      BY <2>0, ShareTypes DEF CountersOK
    <3>2. \A a \in SearchActors :
            /\ Owes(search, a, d) \in Nat /\ MaySpend(search, a, d) \in Nat
            /\ Owes(search, a, d) <= MaySpend(search, a, d)
      BY <2>0, OwesWithinMay
    <3>3. QED BY <3>1, <3>2
  <2>3. f <= m /\ f \in Nat /\ m \in Nat /\ c \in Nat
    BY <2>2, ActorsFinite, TotalPointwise, TotalFacts
  <2>4. Spent(d) \in Nat /\ Spent(d) + m <= DailyLimit - 1 + c
    BY <2>0 DEF BudgetInv, DayOK
  <2>5. c = Cap(Job) + Cardinality(Seekers)
    <3>1. Job \in SearchActors /\ SearchActors \ {Job} = Seekers
      BY DiscoveryAssumption DEF SearchActors
    <3>2. c = Caps[Job] + Total(Caps, SearchActors \ {Job})
      BY <2>2, <3>1, ActorsFinite, TotalFacts
    <3>3. \A u \in Seekers : Caps[u] = 1
      BY DiscoveryAssumption DEF Caps, Cap, SearchActors
    <3>4. Total(Caps, Seekers) = Cardinality(Seekers)
      BY <3>3, TotalOfOnes, DiscoveryAssumption
    <3>5. Caps[Job] = Cap(Job)
      BY <3>1 DEF Caps
    <3>6. QED BY <3>1, <3>2, <3>4, <3>5
  <2>6. /\ paid[d] \in Nat /\ lost[d] \in Nat /\ DailyLimit \in Nat /\ BatchLimit \in Nat
        /\ Cardinality(Seekers) \in Nat
    BY <2>0, DiscoveryAssumption, FS_CardinalityType DEF DiscoveryInv, DiscoveryTypeOK
  <2> HIDE DEF f, m, c
  <2>7. Cap(Job) = IF BatchLimit < DailyLimit THEN BatchLimit ELSE DailyLimit
    BY DEF Cap
  <2>8. paid[d] - lost[d] <= DailyLimit - 1 + Cap(Job) + Cardinality(Seekers)
    <3>1. Cap(Job) \in Nat
      BY <2>6, <2>7
    <3>2. QED BY <2>1, <2>3, <2>4, <2>5, <2>6, <3>1
  <2>9. QED BY <2>6, <2>7, <2>8
<1>2. QED BY <1>1, RulesInvariant, PTL

-----------------------------------------------------------------------------
(* Whichever of the two a behaviour is about, the other rests.             *)
ScheduledInv == RulesInv /\ PolicyInv

LEMMA ScheduledStep == ScheduledInv /\ [MCNext]_scheduleVars => ScheduledInv'
<1> SUFFICES ASSUME ScheduledInv, [MCNext]_scheduleVars PROVE ScheduledInv'
  OBVIOUS
<1>1. [DiscoveryNext]_discoveryVars /\ [PolicyNext]_policyVars
  BY DEF MCNext, scheduleVars
<1>2. QED BY <1>1, RulesStep, PolicyStep DEF ScheduledInv

(* Every variable of the scheduled work keeps its type, of the rules, their *)
(* slots and searches and of the policies, their runs and batches.          *)
THEOREM ProspectingTypes == MCSpec => []ProspectingTypeOK
<1>1. MCInit => ScheduledInv
  BY DiscoveryInitial, BudgetInitial, PolicyInitial DEF MCInit, ScheduledInv, RulesInv
<1>2. ScheduledInv => ProspectingTypeOK
  BY DEF ScheduledInv, RulesInv, DiscoveryInv, PolicyInv, ProspectingTypeOK
<1>3. MCSpec => MCInit /\ [][MCNext]_scheduleVars
  BY PTL DEF MCSpec
<1>4. QED BY <1>1, <1>2, <1>3, ScheduledStep, PTL
=============================================================================
