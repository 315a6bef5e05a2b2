----------------------------- MODULE Engagement -----------------------------
(***************************************************************************)
(* What happened to a sent mail (application/engagement.py): outcomes      *)
(* recorded by hand and by the signed provider webhook as append-only      *)
(* events, and the suppression entry that a bounce, a complaint or an      *)
(* opt-out brings with it.                                                 *)
(*                                                                         *)
(* A report is one transaction: it reads its snapshot, and its inserts     *)
(* meet the unique keys of the events and of the suppression list when     *)
(* they land.  The losing report fails as a whole.                         *)
(***************************************************************************)
EXTENDS Naturals, FiniteSets

CONSTANTS
  Attempts,     \* outbound send attempts
  Addresses,    \* recipients, as the suppression list spells them
  AddressOf,    \* the recipient of each attempt
  Reporters,    \* users and providers reporting at the same time
  EventKeys,    \* event keys of the tenant
  ManualKeys,   \* event keys that users choose
  WebhookKeys,  \* event keys derived from a provider and its event id
  Reported,     \* bound: the outcomes that are reported
  NoReport      \* the reporter has no transaction open

EventTypes == {"DELIVERED", "BOUNCED", "COMPLAINT", "REPLIED",
               "POSITIVE_REPLY", "NEGATIVE_REPLY", "OPT_OUT"}

ProviderTypes == EventTypes \ {"POSITIVE_REPLY", "NEGATIVE_REPLY"}

SuppressionTypes == {"BOUNCED", "COMPLAINT", "OPT_OUT"}

Event == [key : EventKeys, attempt : Attempts, type : EventTypes]

(* An open transaction: its event, and whether it also inserts the         *)
(* suppression entry.                                                      *)
Report == [event : Event, suppresses : BOOLEAN]

ASSUME EngagementAssumption ==
  /\ AddressOf \in [Attempts -> Addresses]
  /\ ManualKeys \subseteq EventKeys
  /\ WebhookKeys \subseteq EventKeys
  /\ Reported \subseteq EventTypes
  /\ NoReport \notin Report

VARIABLES
  sent,        \* attempts committed as SENT
  events,      \* committed events
  suppressed,  \* the suppression list
  report       \* report[r]: the open transaction of reporter r, or NoReport

engagementVars == <<sent, events, suppressed, report>>

-----------------------------------------------------------------------------
KeyFree(k) == \A e \in events : e.key # k

(* Mutant: only complaints and opt-outs reach the suppression list.        *)
SuppressesUnlessBounced(e) ==
  e.type \in {"COMPLAINT", "OPT_OUT"} /\ AddressOf[e.attempt] \notin suppressed

(* The event brings a suppression entry that the snapshot does not have.   *)
Suppresses(e) ==
  e.type \in SuppressionTypes /\ AddressOf[e.attempt] \notin suppressed

EventsOf(a) == {e \in events : e.attempt = a}

TypesOf(a) == {e.type : e \in EventsOf(a)}

(* The delivery verdict of summary(): a bounce outranks a delivery report. *)
DeliveryStatus(a) ==
  IF "BOUNCED" \in TypesOf(a) THEN "BOUNCED"
  ELSE IF "DELIVERED" \in TypesOf(a) THEN "DELIVERED"
  ELSE "SENT"

ReplySentiment(a) ==
  IF "POSITIVE_REPLY" \in TypesOf(a) THEN "POSITIVE"
  ELSE IF "NEGATIVE_REPLY" \in TypesOf(a) THEN "NEGATIVE"
  ELSE IF "REPLIED" \in TypesOf(a) THEN "NEUTRAL_OR_UNKNOWN"
  ELSE "UNKNOWN"

-----------------------------------------------------------------------------
EngagementInit ==
  /\ sent = {}
  /\ events = {}
  /\ suppressed = {}
  /\ report = [r \in Reporters |-> NoReport]

(* A send commits its attempt as SENT.                                     *)
CommitSend(a) ==
  /\ a \notin sent
  /\ sent' = sent \cup {a}
  /\ UNCHANGED <<events, suppressed, report>>

(* The tenant, or the recipient's one-click link, suppresses an address.   *)
SuppressAddress(x) ==
  /\ x \notin suppressed
  /\ suppressed' = suppressed \cup {x}
  /\ UNCHANGED <<sent, events, report>>

(* What record() and ingest() decide from their snapshot.  A key that is   *)
(* already there returns its event, or is refused as reused: no change.    *)
BeginReport(r, k, a, t) ==
  /\ report[r] = NoReport
  /\ a \in sent
  /\ \/ k \in ManualKeys
     \/ k \in WebhookKeys /\ t \in ProviderTypes
  /\ KeyFree(k)
  /\ LET e == [key |-> k, attempt |-> a, type |-> t] IN
     report' = [report EXCEPT ![r] =
                  [event |-> e, suppresses |-> Suppresses(e)]]
  /\ UNCHANGED <<sent, events, suppressed>>

(* Mutant: a second report of a key replaces the first one's event.        *)
CommitReportReplacing(r) ==
  /\ report[r] # NoReport
  /\ report[r].suppresses =>
       AddressOf[report[r].event.attempt] \notin suppressed
  /\ events' = {e \in events : e.key # report[r].event.key}
                 \cup {report[r].event}
  /\ suppressed' = IF report[r].suppresses
                   THEN suppressed \cup {AddressOf[report[r].event.attempt]}
                   ELSE suppressed
  /\ report' = [report EXCEPT ![r] = NoReport]
  /\ UNCHANGED sent

(* Both inserts commit together; neither unique key may have been taken    *)
(* since the snapshot.                                                     *)
CommitReport(r) ==
  /\ report[r] # NoReport
  /\ KeyFree(report[r].event.key)
  /\ report[r].suppresses =>
       AddressOf[report[r].event.attempt] \notin suppressed
  /\ events' = events \cup {report[r].event}
  /\ suppressed' = IF report[r].suppresses
                   THEN suppressed \cup {AddressOf[report[r].event.attempt]}
                   ELSE suppressed
  /\ report' = [report EXCEPT ![r] = NoReport]
  /\ UNCHANGED sent

(* A unique key was taken, the worker died or the client went away.        *)
AbandonReport(r) ==
  /\ report[r] # NoReport
  /\ report' = [report EXCEPT ![r] = NoReport]
  /\ UNCHANGED <<sent, events, suppressed>>

Reporting ==
  \/ \E x \in Addresses : SuppressAddress(x)
  \/ \E r \in Reporters :
       \/ \E k \in EventKeys, a \in Attempts, t \in Reported :
            BeginReport(r, k, a, t)
       \/ CommitReport(r)
       \/ AbandonReport(r)

EngagementNext == Reporting \/ \E a \in Attempts : CommitSend(a)

EngagementSpec == EngagementInit /\ [][EngagementNext]_engagementVars

-----------------------------------------------------------------------------
(* Every variable keeps its type.                                          *)
EngagementTypeOK ==
  /\ sent \subseteq Attempts
  /\ events \subseteq Event
  /\ suppressed \subseteq Addresses
  /\ report \in [Reporters -> Report \cup {NoReport}]

(* Whoever reports what at the same time: a recorded bounce, complaint or  *)
(* opt-out is never without its suppression entry (_suppress_recipient),   *)
(* though the entry is skipped when the snapshot already shows one.        *)
OutcomesSuppress ==
  \A e \in events : e.type \in SuppressionTypes =>
                      AddressOf[e.attempt] \in suppressed

(* Events are append-only and a key names one outcome for good: a retry or *)
(* a racing report with the same key never replaces it.                    *)
KeyNamesOneOutcome ==
  /\ [][events \subseteq events']_events
  /\ [](\A e, f \in events : e.key = f.key => e = f)

(* Reports may arrive in any order; once the summary of an attempt says    *)
(* BOUNCED, or that the reply was POSITIVE, a later report never takes it  *)
(* back.                                                                   *)
VerdictStands ==
  [][\A a \in Attempts :
       /\ DeliveryStatus(a) = "BOUNCED" => DeliveryStatus(a)' = "BOUNCED"
       /\ ReplySentiment(a) = "POSITIVE" => ReplySentiment(a)' = "POSITIVE"
    ]_engagementVars
=============================================================================
