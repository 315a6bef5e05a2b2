--------------------------- MODULE EngagementProofs ---------------------------
(***************************************************************************)
(* Theorems about Engagement for any attempts, reporters and keys: however *)
(* reports overlap, a suppressing outcome has its entry, a key names one   *)
(* outcome, and later reports never take a verdict back.                   *)
(***************************************************************************)
EXTENDS Engagement, TLAPS

(* A report that leaves the suppression entry out saw it in its snapshot.  *)
OmittedIsThere ==
  \A r \in Reporters :
    /\ report[r] # NoReport
    /\ report[r].event.type \in SuppressionTypes
    /\ ~report[r].suppresses
    => AddressOf[report[r].event.attempt] \in suppressed

KeysAreUnique == \A e, f \in events : e.key = f.key => e = f

EngagementInv ==
  EngagementTypeOK /\ OmittedIsThere /\ OutcomesSuppress /\ KeysAreUnique

-----------------------------------------------------------------------------
LEMMA EngagementInitial == EngagementInit => EngagementInv
BY DEF EngagementInit, EngagementInv, EngagementTypeOK, OmittedIsThere,
       OutcomesSuppress, KeysAreUnique

(* What a committing report leaves behind.                                 *)
LEMMA CommitAppends ==
  ASSUME EngagementInv, NEW r \in Reporters, CommitReport(r)
  PROVE  /\ report[r].event \in Event
         /\ events' = events \cup {report[r].event}
         /\ suppressed \subseteq suppressed'
         /\ suppressed' \subseteq suppressed \cup {AddressOf[report[r].event.attempt]}
         /\ report[r].event.type \in SuppressionTypes =>
              AddressOf[report[r].event.attempt] \in suppressed'
<1>1. report[r] \in Report
  BY DEF CommitReport, EngagementInv, EngagementTypeOK
<1>2. report[r].event \in Event /\ report[r].suppresses \in BOOLEAN
  BY <1>1 DEF Report
<1>3. CASE report[r].suppresses
  BY <1>2, <1>3 DEF CommitReport
<1>4. CASE ~report[r].suppresses
  BY <1>2, <1>4 DEF CommitReport, EngagementInv, OmittedIsThere
<1>5. QED BY <1>2, <1>3, <1>4

LEMMA EngagementStep ==
  ASSUME EngagementInv, [EngagementNext]_engagementVars
  PROVE  EngagementInv'
<1> USE DEF EngagementInv
<1>1. CASE UNCHANGED engagementVars
  BY <1>1 DEF engagementVars, EngagementTypeOK, OmittedIsThere, OutcomesSuppress,
              KeysAreUnique
<1>2. ASSUME NEW x \in Addresses, SuppressAddress(x) PROVE EngagementInv'
  BY <1>2 DEF SuppressAddress, EngagementTypeOK, OmittedIsThere, OutcomesSuppress,
              KeysAreUnique
<1>3. ASSUME NEW a \in Attempts, CommitSend(a) PROVE EngagementInv'
  BY <1>3 DEF CommitSend, EngagementTypeOK, OmittedIsThere, OutcomesSuppress,
              KeysAreUnique
<1>4. ASSUME NEW r \in Reporters, NEW k \in EventKeys, NEW a \in Attempts,
             NEW t \in Reported, BeginReport(r, k, a, t)
      PROVE  EngagementInv'
  <2> DEFINE e == [key |-> k, attempt |-> a, type |-> t]
  <2>1. e \in Event /\ Suppresses(e) \in BOOLEAN
    BY EngagementAssumption DEF Event, Suppresses
  <2>2. [event |-> e, suppresses |-> Suppresses(e)] \in Report
    BY <2>1 DEF Report
  <2>3. report' = [report EXCEPT ![r] = [event |-> e, suppresses |-> Suppresses(e)]]
    BY <1>4 DEF BeginReport
  <2>4. UNCHANGED <<sent, events, suppressed>>
    BY <1>4 DEF BeginReport
  <2>5. EngagementTypeOK'
    BY <2>2, <2>3, <2>4 DEF EngagementTypeOK
  <2>6. OmittedIsThere'
    <3>1. e.type \in SuppressionTypes /\ ~Suppresses(e) => AddressOf[e.attempt] \in suppressed
      BY DEF Suppresses
    <3>2. report'[r] = [event |-> e, suppresses |-> Suppresses(e)]
      BY <2>3 DEF EngagementTypeOK
    <3>3. \A s \in Reporters : s # r => report'[s] = report[s]
      BY <2>3 DEF EngagementTypeOK
    <3> HIDE DEF e
    <3>4. QED BY <2>4, <3>1, <3>2, <3>3 DEF OmittedIsThere
  <2>7. QED BY <2>4, <2>5, <2>6 DEF OutcomesSuppress, KeysAreUnique
<1>5. ASSUME NEW r \in Reporters, CommitReport(r) PROVE EngagementInv'
  <2>1. UNCHANGED sent /\ report' = [report EXCEPT ![r] = NoReport]
    BY <1>5 DEF CommitReport
  <2>2. EngagementTypeOK'
    <3>1. AddressOf[report[r].event.attempt] \in Addresses
      BY <1>5, CommitAppends, EngagementAssumption DEF Event
    <3>2. QED BY <1>5, <2>1, <3>1, CommitAppends DEF EngagementTypeOK
  <2>3. OmittedIsThere'
    BY <1>5, <2>1, CommitAppends DEF OmittedIsThere, EngagementTypeOK
  <2>4. OutcomesSuppress'
    BY <1>5, CommitAppends DEF OutcomesSuppress
  <2>5. KeysAreUnique'
    BY <1>5, CommitAppends DEF KeysAreUnique, CommitReport, KeyFree
  <2>6. QED BY <2>2, <2>3, <2>4, <2>5
<1>6. ASSUME NEW r \in Reporters, AbandonReport(r) PROVE EngagementInv'
  BY <1>6 DEF AbandonReport, EngagementTypeOK, OmittedIsThere, OutcomesSuppress,
              KeysAreUnique
<1>7. QED BY <1>1, <1>2, <1>3, <1>4, <1>5, <1>6 DEF EngagementNext, Reporting

(* What open reports leave out is there already (_suppress_recipient).     *)
THEOREM EngagementInvariant == EngagementSpec => []EngagementInv
BY EngagementInitial, EngagementStep, PTL DEF EngagementSpec

(* Every variable keeps its type.                                          *)
THEOREM EngagementTypeCorrect == EngagementSpec => []EngagementTypeOK
<1>1. EngagementInv => EngagementTypeOK
  BY DEF EngagementInv
<1>2. QED BY <1>1, EngagementInvariant, PTL

(* A recorded bounce, complaint or opt-out has its suppression entry       *)
(* (_suppress_recipient), whoever else reported or suppressed meanwhile.   *)
THEOREM OutcomesAlwaysSuppress == EngagementSpec => []OutcomesSuppress
<1>1. EngagementInv => OutcomesSuppress
  BY DEF EngagementInv
<1>2. QED BY <1>1, EngagementInvariant, PTL

-----------------------------------------------------------------------------
(* Events are append-only.                                                 *)
LEMMA EventsGrow ==
  ASSUME EngagementInv, [EngagementNext]_engagementVars
  PROVE  events \subseteq events'
BY CommitAppends DEF EngagementNext, Reporting, engagementVars, SuppressAddress,
   CommitSend, BeginReport, AbandonReport

(* A key names one outcome for good, also when reports of it race.         *)
THEOREM KeyAlwaysNamesOneOutcome == EngagementSpec => KeyNamesOneOutcome
<1>1. EngagementInv /\ [EngagementNext]_engagementVars => [events \subseteq events']_events
  BY EventsGrow
<1>2. EngagementInv => \A e, f \in events : e.key = f.key => e = f
  BY DEF EngagementInv, KeysAreUnique
<1>3. QED BY <1>1, <1>2, EngagementInvariant, PTL DEF EngagementSpec, KeyNamesOneOutcome

(* In whatever order reports arrive, an attempt that the summary calls     *)
(* BOUNCED, or answered POSITIVE, stays so.                                *)
THEOREM VerdictsStand == EngagementSpec => VerdictStands
<1>1. ASSUME EngagementInv, [EngagementNext]_engagementVars, NEW a \in Attempts
      PROVE  /\ DeliveryStatus(a) = "BOUNCED" => DeliveryStatus(a)' = "BOUNCED"
             /\ ReplySentiment(a) = "POSITIVE" => ReplySentiment(a)' = "POSITIVE"
  <2>1. TypesOf(a) \subseteq TypesOf(a)'
    BY <1>1, EventsGrow DEF TypesOf, EventsOf
  <2>2. QED BY <2>1 DEF DeliveryStatus, ReplySentiment
<1>2. EngagementInv /\ [EngagementNext]_engagementVars
        => [\A a \in Attempts :
              /\ DeliveryStatus(a) = "BOUNCED" => DeliveryStatus(a)' = "BOUNCED"
              /\ ReplySentiment(a) = "POSITIVE" => ReplySentiment(a)' = "POSITIVE"
           ]_engagementVars
  BY <1>1
<1>3. QED BY <1>2, EngagementInvariant, PTL DEF EngagementSpec, VerdictStands
=============================================================================
