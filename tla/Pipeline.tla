------------------------------ MODULE Pipeline ------------------------------
(***************************************************************************)
(* The sales pipeline (application/pipeline.py) and its cron-driven        *)
(* synchronization (application/pipeline_sync.py) on one tenant.           *)
(*                                                                         *)
(* A user's request and a synchronization run are each one transaction:    *)
(* what they write is decided from their snapshot, and lands at their      *)
(* commit if no unique key was taken meanwhile.  An UPDATE writes only the *)
(* columns whose value differs from the snapshot's.                        *)
(***************************************************************************)
EXTENDS Naturals, FiniteSets, Sequences

CONSTANTS
  Attempts,    \* outbound send attempts
  Users,       \* users at work at the same time
  Sync,        \* the synchronization job; a lock keeps it to one run
  Limit,       \* PIPELINE_SYNC_BATCH_SIZE
  Values,      \* estimated values
  Currencies,
  NoStage,     \* the attempt has no opportunity
  NoValue,
  NoCurrency,
  NoWork       \* no transaction open

Stages == {"CONTACTED", "RESPONDED", "MEETING", "PROPOSAL", "WON", "LOST"}

STAGE_ORDER == [CONTACTED |-> 0, RESPONDED |-> 1, MEETING |-> 2,
                PROPOSAL |-> 3, WON |-> 4]

TERMINAL_STAGES == {"WON", "LOST"}

(* The columns estimated_value and currency.                               *)
Columns == [value : Values \cup {NoValue}, currency : Currencies \cup {NoCurrency}]

(* update_details and create accept a currency alone, not a value alone.   *)
Details == {d \in Columns : d.currency = NoCurrency => d.value = NoValue}

NoDetails == [value |-> NoValue, currency |-> NoCurrency]

StageEvent == [attempt : Attempts, sequence : Nat \ {0},
               from : Stages \cup {NoStage}, to : Stages,
               source : {"MANUAL", "SYSTEM"}]

(* An open transaction: the stage events it inserts, each with the stage   *)
(* of its opportunity, and the details it writes: old and new ones.        *)
Update == [attempt : Attempts, old : Columns, new : Details]
Work == [events : SUBSET StageEvent, updates : SUBSET Update]

Actors == Users \cup {Sync}

ASSUME PipelineAssumption ==
  /\ Sync \notin Users
  /\ Limit \in Nat \ {0}
  /\ NoStage \notin Stages
  /\ NoValue \notin Values
  /\ NoCurrency \notin Currencies
  /\ NoWork \notin Work

VARIABLES
  sent,     \* attempts committed as SENT
  replied,  \* attempts with an observed reply (REPLY_EVENTS)
  stage,    \* stage[a]: the stage of the attempt's opportunity, or NoStage
  ledger,   \* the stage events
  details,  \* details[a]: estimated value and currency
  work      \* work[p]: the open transaction of actor p, or NoWork

vars == <<sent, replied, stage, ledger, details, work>>

-----------------------------------------------------------------------------
EventsOf(a) == {e \in ledger : e.attempt = a}

(* Mutant: the order of the stages is not looked at.                       *)
ValidAnyTransition(s, t) ==
  /\ s \notin TERMINAL_STAGES
  /\ t # s
  /\ t = "WON" => s = "PROPOSAL"

(* move_stage's guards and _validate_transition.                           *)
ValidTransition(s, t) ==
  /\ s \notin TERMINAL_STAGES
  /\ t # s
  /\ t = "WON" => s = "PROPOSAL"
  /\ t # "LOST" => STAGE_ORDER[t] > STAGE_ORDER[s]

InitialStage(a) == IF a \in replied THEN "RESPONDED" ELSE "CONTACTED"

(* The row that _append_stage_event builds from the snapshot.              *)
NewStageEvent(a, t, source) ==
  [attempt |-> a, sequence |-> Cardinality(EventsOf(a)) + 1,
   from |-> stage[a], to |-> t, source |-> source]

(* Mutant: no unique sequence number.                                      *)
KeysFreeButOpportunity(w) ==
  \A e \in w.events : e.from = NoStage => stage[e.attempt] = NoStage

(* One opportunity per attempt; one event per opportunity and sequence     *)
(* number.                                                                 *)
KeysFree(w) ==
  \A e \in w.events :
    /\ e.from = NoStage => stage[e.attempt] = NoStage
    /\ \A f \in EventsOf(e.attempt) : f.sequence # e.sequence

(* The columns of an opportunity after an UPDATE that set u.old to u.new.  *)
Written(d, u) ==
  [value    |-> IF u.new.value = u.old.value THEN d.value ELSE u.new.value,
   currency |-> IF u.new.currency = u.old.currency THEN d.currency
                ELSE u.new.currency]

-----------------------------------------------------------------------------
Init ==
  /\ sent = {}
  /\ replied = {}
  /\ stage = [a \in Attempts |-> NoStage]
  /\ ledger = {}
  /\ details = [a \in Attempts |-> NoDetails]
  /\ work = [p \in Actors |-> NoWork]

(* A send commits.                                                         *)
CommitSend(a) ==
  /\ a \notin sent
  /\ sent' = sent \cup {a}
  /\ UNCHANGED <<replied, stage, ledger, details, work>>

(* The first reply to a sent attempt is recorded.                          *)
RecordReply(a) ==
  /\ a \in sent /\ a \notin replied
  /\ replied' = replied \cup {a}
  /\ UNCHANGED <<sent, stage, ledger, details, work>>

Open(p, w) ==
  /\ work[p] = NoWork
  /\ work' = [work EXCEPT ![p] = w]
  /\ UNCHANGED <<sent, replied, stage, ledger, details>>

(* create(); for an attempt that has an opportunity it changes nothing.    *)
Create(u, a, d) ==
  /\ a \in sent
  /\ stage[a] = NoStage
  /\ Open(u, [events |-> {NewStageEvent(a, InitialStage(a), "MANUAL")},
              updates |-> {[attempt |-> a, old |-> NoDetails, new |-> d]}])

MoveStage(u, a, t) ==
  /\ stage[a] # NoStage
  /\ ValidTransition(stage[a], t)
  /\ Open(u, [events |-> {NewStageEvent(a, t, "MANUAL")}, updates |-> {}])

UpdateDetails(u, a, d) ==
  /\ stage[a] # NoStage
  /\ Open(u, [events |-> {},
              updates |-> {[attempt |-> a, old |-> details[a], new |-> d]}])

(* Mutant: the join with the reply events loses the unanswered attempts.   *)
UnsyncedAnswered == {a \in replied : stage[a] = NoStage}

Unsynced == {a \in sent : stage[a] = NoStage}

ContactedWithReply == {a \in replied : stage[a] = "CONTACTED"}

(* One batch: the unsynced attempts first, then replies, Limit in all; the *)
(* order among the candidates is left open.                                *)
BeginSync ==
  \E new \in SUBSET Unsynced, answered \in SUBSET ContactedWithReply :
    /\ Cardinality(new) <= Limit
    /\ new # Unsynced => Cardinality(new) = Limit
    /\ Cardinality(new) + Cardinality(answered) <= Limit
    /\ answered # ContactedWithReply =>
         Cardinality(new) + Cardinality(answered) = Limit
    /\ new \cup answered # {}
    /\ Open(Sync,
         [events |-> {NewStageEvent(a, InitialStage(a), "SYSTEM") : a \in new}
                \cup {NewStageEvent(a, "RESPONDED", "SYSTEM") : a \in answered},
          updates |-> {}])

(* Every write lands.                                                      *)
Commit(p) ==
  /\ work[p] # NoWork
  /\ KeysFree(work[p])
  /\ ledger' = ledger \cup work[p].events
  /\ stage' = [a \in Attempts |->
       IF \E e \in work[p].events : e.attempt = a
       THEN (CHOOSE e \in work[p].events : e.attempt = a).to
       ELSE stage[a]]
  /\ details' = [a \in Attempts |->
       IF \E u \in work[p].updates : u.attempt = a
       THEN Written(details[a],
                    CHOOSE u \in work[p].updates : u.attempt = a)
       ELSE details[a]]
  /\ work' = [work EXCEPT ![p] = NoWork]
  /\ UNCHANGED <<sent, replied>>

(* A key was taken, or the worker died: nothing lands, nor does the rest   *)
(* of a batch.                                                             *)
Abandon(p) ==
  /\ work[p] # NoWork
  /\ work' = [work EXCEPT ![p] = NoWork]
  /\ UNCHANGED <<sent, replied, stage, ledger, details>>

Next ==
  \/ \E a \in Attempts : CommitSend(a) \/ RecordReply(a)
  \/ \E u \in Users, a \in Attempts :
       \/ \E d \in Details : Create(u, a, d) \/ UpdateDetails(u, a, d)
       \/ \E t \in Stages : MoveStage(u, a, t)
  \/ BeginSync
  \/ \E p \in Actors : Commit(p) \/ Abandon(p)

Spec == Init /\ [][Next]_vars

(* Cron keeps starting the job, a run ends, and the job does not crash or  *)
(* lose its race for ever.                                                 *)
Fairness ==
  /\ WF_vars(BeginSync)
  /\ WF_vars(Commit(Sync) \/ Abandon(Sync))
  /\ SF_vars(Commit(Sync))

FairSpec == Spec /\ Fairness

-----------------------------------------------------------------------------
(* Every variable keeps its type.                                          *)
PipelineTypeOK ==
  /\ sent \subseteq Attempts
  /\ replied \subseteq sent
  /\ stage \in [Attempts -> Stages \cup {NoStage}]
  /\ ledger \subseteq StageEvent
  /\ details \in [Attempts -> Columns]
  /\ work \in [Actors -> Work \cup {NoWork}]

(* The stage events explain the opportunity: they are numbered from 1      *)
(* without a gap, each starts where the one before ended, and the stage    *)
(* column is where the last one ended, whoever raced to write them.        *)
LedgerExplainsStage ==
  \A a \in Attempts :
    LET n == Cardinality(EventsOf(a)) IN
    /\ {e.sequence : e \in EventsOf(a)} = 1 .. n
    /\ \A e \in EventsOf(a) :
         /\ e.sequence = 1 => e.from = NoStage
         /\ \A f \in EventsOf(a) : f.sequence = e.sequence + 1 => f.from = e.to
         /\ e.sequence = n => stage[a] = e.to
    /\ n = 0 => stage[a] = NoStage

(* docs/sales-pipeline.md: the synchronization moves only CONTACTED to     *)
(* RESPONDED, and only for an observed reply.                              *)
SystemOnlyObserves ==
  \A e \in ledger : e.source = "SYSTEM" =>
    /\ e.from \in {NoStage, "CONTACTED"}
    /\ e.to = "RESPONDED" => e.attempt \in replied
    /\ e.to = "CONTACTED" => e.from = NoStage
    /\ e.to \in {"CONTACTED", "RESPONDED"}

(* The stage events account for every stage, and for who moved it.         *)
LedgerAccounts == LedgerExplainsStage /\ SystemOnlyObserves

(* The stages of an opportunity in the order of its events.                *)
History ==
  [a \in Attempts |->
     [n \in 1 .. Cardinality(EventsOf(a)) |->
        (CHOOSE e \in EventsOf(a) : e.sequence = n).to]]

Stepwise == INSTANCE PipelineStages WITH history <- History

(* Whatever races, the ledgers tell of one decision at a time: no stage is *)
(* entered twice or backward, WON follows PROPOSAL, WON and LOST are final.*)
OneDecisionAtATime == Stepwise!Spec

(* Every sent attempt gets its opportunity, and an observed reply moves    *)
(* every opportunity off CONTACTED.                                        *)
SentIsTracked == \A a \in Attempts : a \in sent ~> stage[a] # NoStage

ReplyIsSeen ==
  \A a \in Attempts : a \in replied ~> stage[a] \notin {NoStage, "CONTACTED"}

(* The synchronization catches up with sends and with replies.             *)
SyncCatchesUp == SentIsTracked /\ ReplyIsSeen

(* "currency is required when estimated_value is provided"                 *)
(* (pipeline.py:297).                                                      *)
ValuesHaveCurrency ==
  \A a \in Attempts :
    details[a].value # NoValue => details[a].currency # NoCurrency
=============================================================================
