------------------------- MODULE AutomationPolicies -------------------------
(***************************************************************************)
(* Schedules of the guarded workflow (application/automation_policies.py): *)
(* one policy per company and product, executed by the cron job and by the *)
(* administrators' run-due requests, which take no lock of their own.      *)
(*                                                                         *)
(* A batch is one transaction over the policies that its snapshot shows as *)
(* due; the unique (policy, scheduled_for) of a run meets other batches    *)
(* when it is inserted, and waits for a batch that has inserted the same.  *)
(* The workflow itself is module Orchestration: here it completes or not,  *)
(* in a savepoint that a failing contact search breaks by committing; the   *)
(* run is recorded in any case.                                            *)
(***************************************************************************)
EXTENDS Naturals, Sequences, FiniteSets, SequencesExt

CONSTANTS
  Scopes,       \* company and product pairs, numbered in the order of the
                \*   ids of their policies
  Admins,       \* administrators at work at the same time
  Cron,         \* the cron job: its advisory lock keeps it alone
  LastPeriod,   \* bound: the cadence periods modelled
  DueLimit,     \* AUTOMATION_CRON_BATCH_SIZE, and the limit of a request
  MaxEdits,     \* bound: creations and updates of policies
  MaxLost,      \* bound: batches rolled back by a crash
  NoPolicy, NoBatch

Periods == 0 .. LastPeriod
Executors == Admins \cup {Cron}

(* AutomationPolicy: the columns that someone changes.                     *)
Policy == [next : 0 .. LastPeriod + 1, enabled : BOOLEAN]

(* AutomationPolicyRun, by its unique key.                                 *)
PolicyRun == Scopes \X (0 .. LastPeriod + 1)

ASSUME PolicyAssumption ==
  /\ {LastPeriod, MaxEdits, MaxLost} \subseteq Nat /\ DueLimit \in Nat \ {0}
  /\ Scopes \subseteq Nat /\ IsFiniteSet(Scopes)
  /\ Cron \notin Admins /\ NoPolicy \notin Policy

VARIABLES
  period,    \* the present time, in cadences
  policies,  \* policies[p]: the committed row of scope p, or NoPolicy
  runs,      \* committed runs
  batch,     \* batch[e]: the open transaction of e, or NoBatch
  executed,  \* history: how often each slot's workflow was executed
  policyEdits, rollbacks \* bounds

policyVars == <<period, policies, runs, batch, executed, policyEdits, rollbacks>>

-----------------------------------------------------------------------------
DuePolicy(p) ==
  policies[p] # NoPolicy /\ policies[p].enabled /\ policies[p].next <= period

(* The order of next_run_at and id.                                        *)
Sooner(p, q) ==
  \/ policies[p].next < policies[q].next
  \/ policies[p].next = policies[q].next /\ p < q

(* The due policies that a batch takes, soonest first.                     *)
DueSequence ==
  LET due == {p \in Scopes : DuePolicy(p)}
      order == CHOOSE s \in SetToSeqs(due) :
                 \A i, j \in DOMAIN s : i < j => Sooner(s[i], s[j])
  IN SubSeq(order, 1, IF DueLimit < Len(order) THEN DueLimit ELSE Len(order))

(* Rows that another open transaction has written.                         *)
Unlocked(e, p) ==
  \A f \in Executors \ {e} :
    batch[f] # NoBatch => p \notin DOMAIN batch[f].written

SlotOf(b, p) == <<p, b.rows[p].next>>

Uninserted(e, slot) ==
  \A f \in Executors \ {e} : batch[f] # NoBatch => slot \notin batch[f].inserted

PolicyInit ==
  /\ period = 0
  /\ policies \in [Scopes -> {NoPolicy, [next |-> 0, enabled |-> TRUE]}]
  /\ runs = {}
  /\ batch = [e \in Executors |-> NoBatch]
  /\ executed = [r \in PolicyRun |-> 0]
  /\ policyEdits = 0 /\ rollbacks = 0

NextPeriod ==
  /\ period < LastPeriod
  /\ period' = period + 1
  /\ UNCHANGED <<policies, runs, batch, executed, policyEdits, rollbacks>>

(* The scope is unique: of two creations, the second fails.                *)
CreatePolicy(p) ==
  /\ policies[p] = NoPolicy
  /\ policyEdits < MaxEdits
  /\ policies' = [policies EXCEPT ![p] = [next |-> period, enabled |-> TRUE]]
  /\ policyEdits' = policyEdits + 1
  /\ UNCHANGED <<period, runs, batch, executed, rollbacks>>

(* An update writes the columns it changes, once no batch holds the row.   *)
UpdatePolicy(p, row) ==
  /\ policies[p] # NoPolicy /\ policies[p] # row
  /\ policyEdits < MaxEdits
  /\ \A e \in Executors : batch[e] # NoBatch => p \notin DOMAIN batch[e].written
  /\ policies' = [policies EXCEPT ![p] = row]
  /\ policyEdits' = policyEdits + 1
  /\ UNCHANGED <<period, runs, batch, executed, rollbacks>>

(* The snapshot of the batch is the one of its query for due policies.     *)
BeginDue(e) ==
  /\ batch[e] = NoBatch
  /\ DueSequence # <<>>
  /\ batch' = [batch EXCEPT ![e] =
       [now |-> period, todo |-> DueSequence, rows |-> policies, runs |-> runs,
        written |-> <<>>, inserted |-> {}]]
  /\ UNCHANGED <<period, policies, runs, executed, policyEdits, rollbacks>>

HasTurn(e, p) ==
  batch[e] # NoBatch /\ batch[e].todo # <<>> /\ p = Head(batch[e].todo)

(* Mutant: a slot that ran before leaves the schedule as it is.            *)
PassedNowhere(b, p) ==
  [b EXCEPT !.todo = Tail(@)]

(* The policy's schedule moves past the time of the batch.                 *)
Passed(b, p) ==
  [b EXCEPT !.todo = Tail(@),
            !.written = [x \in DOMAIN @ \cup {p} |->
                           IF x = p THEN [next |-> b.now + 1] ELSE @[x]]]

(* The snapshot shows a run of this slot: it is skipped.                   *)
SkipExisting(e, p) ==
  /\ HasTurn(e, p) /\ SlotOf(batch[e], p) \in batch[e].runs
  /\ Unlocked(e, p)
  /\ batch' = [batch EXCEPT ![e] = Passed(@, p)]
  /\ UNCHANGED <<period, policies, runs, executed, policyEdits, rollbacks>>

(* A run that the snapshot does not show was committed meanwhile: the      *)
(* insert fails, and the policy is left to the batch that inserted it.     *)
LoseSlot(e, p) ==
  /\ HasTurn(e, p)
  /\ SlotOf(batch[e], p) \in runs \ batch[e].runs
  /\ batch' = [batch EXCEPT ![e] = [batch[e] EXCEPT !.todo = Tail(@)]]
  /\ UNCHANGED <<period, policies, runs, executed, policyEdits, rollbacks>>

(* Mutant: only the snapshot is asked for an earlier run of the slot.      *)
TakeSlotUnguarded(e, p) ==
  /\ HasTurn(e, p)
  /\ SlotOf(batch[e], p) \notin batch[e].runs
  /\ Unlocked(e, p)
  /\ batch' = [batch EXCEPT ![e] =
       [Passed(batch[e], p) EXCEPT !.inserted = @ \cup {SlotOf(batch[e], p)}]]
  /\ UNCHANGED <<period, policies, runs, executed, policyEdits, rollbacks>>

(* The run is inserted, the schedule moves on, and the workflow completes, *)
(* fails, or is denied to the run-as user: recorded in any case.           *)
TakeSlot(e, p) ==
  /\ HasTurn(e, p)
  /\ SlotOf(batch[e], p) \notin batch[e].runs \cup runs
  /\ Uninserted(e, SlotOf(batch[e], p)) /\ Unlocked(e, p)
  /\ batch' = [batch EXCEPT ![e] =
       [Passed(batch[e], p) EXCEPT !.inserted = @ \cup {SlotOf(batch[e], p)}]]
  /\ UNCHANGED <<period, policies, runs, executed, policyEdits, rollbacks>>

(* Mutant: the whole row is written back as it was read.                   *)
WrittenWhole(b, p) == b.written[p] @@ b.rows[p]

(* The columns that the batch changed, over the row as it is now.          *)
WrittenBack(b, p) == [policies[p] EXCEPT !.next = b.written[p].next]

(* What e wrote becomes visible.                                           *)
PersistDue(e) ==
  /\ policies' = [p \in Scopes |-> IF p \in DOMAIN batch[e].written
                                   THEN WrittenBack(batch[e], p)
                                   ELSE policies[p]]
  /\ runs' = runs \cup batch[e].inserted
  /\ executed' = [r \in PolicyRun |->
       IF r \in batch[e].inserted THEN executed[r] + 1 ELSE executed[r]]
  /\ UNCHANGED <<period, policyEdits, rollbacks>>

CommitDue(e) ==
  /\ batch[e] # NoBatch /\ batch[e].todo = <<>>
  /\ PersistDue(e)
  /\ batch' = [batch EXCEPT ![e] = NoBatch]

(* The contact search of a workflow failed: it commits the request's whole *)
(* session to keep its usage row, though the batch is not done.  The rest  *)
(* goes on with the policies it has read, in a new snapshot.               *)
CommitPart(e) ==
  /\ batch[e] # NoBatch /\ batch[e].inserted # {}
  /\ PersistDue(e)
  /\ batch' = [batch EXCEPT ![e] = [@ EXCEPT !.runs = runs', !.written = <<>>,
                                            !.inserted = {}]]

(* e waits for a row or a slot of f.                                       *)
WaitsFor(e, f) ==
  /\ batch[e] # NoBatch /\ batch[f] # NoBatch /\ batch[e].todo # <<>>
  /\ LET p == Head(batch[e].todo) IN
     p \in DOMAIN batch[f].written \/ SlotOf(batch[e], p) \in batch[f].inserted

(* The database rolls one of two batches back that wait for each other.    *)
BreakDeadlock(e) ==
  /\ \E f \in Executors \ {e} : WaitsFor(e, f) /\ WaitsFor(f, e)
  /\ batch' = [batch EXCEPT ![e] = NoBatch]
  /\ UNCHANGED <<period, policies, runs, executed, policyEdits, rollbacks>>

(* A lost connection or a crash rolls the batch back.                      *)
RollBackDue(e) ==
  /\ batch[e] # NoBatch
  /\ rollbacks < MaxLost
  /\ rollbacks' = rollbacks + 1
  /\ batch' = [batch EXCEPT ![e] = NoBatch]
  /\ UNCHANGED <<period, policies, runs, executed, policyEdits>>

ProceedDue(e) ==
  \/ \E p \in Scopes : SkipExisting(e, p) \/ LoseSlot(e, p) \/ TakeSlot(e, p)
  \/ CommitDue(e) \/ CommitPart(e)

PolicyNext ==
  \/ NextPeriod
  \/ \E p \in Scopes : CreatePolicy(p) \/ \E row \in Policy : UpdatePolicy(p, row)
  \/ \E e \in Executors : BeginDue(e) \/ ProceedDue(e) \/ BreakDeadlock(e)
                           \/ RollBackDue(e)

PolicySpec == PolicyInit /\ [][PolicyNext]_policyVars

-----------------------------------------------------------------------------
(* Every variable keeps its type.                                          *)
PolicyTypeOK ==
  /\ period \in Periods
  /\ policies \in [Scopes -> Policy \cup {NoPolicy}]
  /\ runs \subseteq PolicyRun
  /\ DOMAIN batch = Executors
  /\ executed \in [PolicyRun -> Nat]
  /\ policyEdits \in 0 .. MaxEdits /\ rollbacks \in 0 .. MaxLost

(* Whoever runs the due policies at the same time, and however often a     *)
(* batch is rolled back and retried, the workflow of a policy's slot takes *)
(* effect once.                                                            *)
SlotRunsOnce == \A r \in PolicyRun : executed[r] <= 1

(* A batch that read a policy before an administrator switched it off does *)
(* not switch it on again: only an administrator's request, which leaves   *)
(* every batch as it is, changes the switch.                               *)
SwitchStands ==
  [][\A p \in Scopes :
       policies[p] # NoPolicy /\ policies'[p].enabled # policies[p].enabled
         => UNCHANGED batch]_policyVars

(* A due policy does not stay due: a slot that was run before, or lost to  *)
(* another batch, does not hold it up.                                     *)
DuePolicyRuns == \A p \in Scopes : DuePolicy(p) ~> ~DuePolicy(p)
=============================================================================
