---------------------------- MODULE OutboundSend ----------------------------
(***************************************************************************)
(* Sending an approved draft (application/outbound.py, the SMTP adapter of *)
(* infrastructure/outbound.py) on top of its review, and the opt-outs that *)
(* must stop it (suppress, application/unsubscribe.py).                    *)
(*                                                                         *)
(* One request is one transaction around one call of the provider: it      *)
(* reads its snapshot, inserts the attempt (the unique idempotency key     *)
(* makes it wait for a request in flight with the same key), hands the     *)
(* message over, and commits.  The provider cannot be rolled back.         *)
(***************************************************************************)
EXTENDS DraftReview

CONSTANTS
  Senders,      \* send requests that may be in flight at the same time
  Keys,         \* idempotency keys the clients use
  Normalize,    \* _normalize_email, as a function on Addresses
  NoSend,       \* the sender has no request in flight
  NoAttempt,    \* no committed attempt has the key
  MaxLost       \* bound: deliveries per key whose transaction is lost

Mail == [draft : Drafts, revision : Nat, content : Contents, to : Addresses]

Steps == {"checked", "inserted", "accepted", "unacknowledged", "refused"}

(* A send request in flight: the mail it was checked for and its progress. *)
Send == [step : Steps, key : Keys, mail : Mail]

Attempt == [status : {"SENT", "FAILED"}, mail : Mail]

ASSUME SendAssumption ==
  /\ Normalize \in [Addresses -> Addresses]
  /\ NoSend \notin Send
  /\ NoAttempt \notin Attempt
  /\ MaxLost \in Nat

VARIABLES
  sending,     \* sending[s]: the request of sender s, or NoSend
  attempts,    \* attempts[k]: the committed attempt of key k, or NoAttempt
  suppressed,  \* normalised addresses of the suppression list
  mailed,      \* mailed[k]: what the provider delivered for key k, in order
  lost         \* lost[k]: deliveries for k whose transaction never committed

sendVars == <<sending, attempts, suppressed, mailed, lost>>

vars == <<reviewVars, sendVars>>

-----------------------------------------------------------------------------
SentDraft(d) ==
  \E k \in Keys : /\ attempts[k] # NoAttempt
                  /\ attempts[k].status = "SENT"
                  /\ attempts[k].mail.draft = d

(* Mutant: the send gate compares the address as the contact spells it.    *)
IsSuppressedAsSpelled(a) == a \in suppressed

IsSuppressed(a) == Normalize[a] \in suppressed

(* The request that holds the index entry of key k until it ends.          *)
Holds(s, k) ==
  sending[s] # NoSend /\ sending[s].key = k /\ sending[s].step # "checked"

(* The provider took the message of this request.                          *)
Delivered(s) ==
  sending[s] # NoSend /\ sending[s].step \in {"accepted", "unacknowledged"}

AtStep(s, step) == sending[s] # NoSend /\ sending[s].step = step

MoveTo(s, step) == sending' = [sending EXCEPT ![s].step = step]

-----------------------------------------------------------------------------
SendInit ==
  /\ sending = [s \in Senders |-> NoSend]
  /\ attempts = [k \in Keys |-> NoAttempt]
  /\ suppressed = {}
  /\ mailed = [k \in Keys |-> <<>>]
  /\ lost = [k \in Keys |-> 0]

(* Mutant: the draft's first text is mailed, not the approved one.         *)
BeginSendComposed(s, d, k) ==
  /\ sending[s] = NoSend
  /\ d \in generated
  /\ attempts[k] = NoAttempt
  /\ EffectiveStatus(reviews[d]) = "APPROVED"
  /\ Targetable(d)
  /\ ~ IsSuppressed(address[d])
  /\ ~ SentDraft(d)
  /\ sending' = [sending EXCEPT ![s] =
       [step |-> "checked", key |-> k,
        mail |-> [draft |-> d, revision |-> Len(reviews[d]),
                  content |-> Composed, to |-> address[d]]]]
  /\ UNCHANGED <<attempts, suppressed, mailed, lost>>

(* Mutant: no look for an earlier successful send of the draft.            *)
BeginSendAgain(s, d, k) ==
  /\ sending[s] = NoSend
  /\ d \in generated
  /\ attempts[k] = NoAttempt
  /\ EffectiveStatus(reviews[d]) = "APPROVED"
  /\ Targetable(d)
  /\ ~ IsSuppressed(address[d])
  /\ sending' = [sending EXCEPT ![s] =
       [step |-> "checked", key |-> k,
        mail |-> [draft |-> d, revision |-> Len(reviews[d]),
                  content |-> EffectiveContent(reviews[d]), to |-> address[d]]]]
  /\ UNCHANGED <<attempts, suppressed, mailed, lost>>

(* Everything send() reads before it inserts, from one snapshot.  A key    *)
(* already committed returns its attempt or OUTBOUND_IDEMPOTENCY_KEY_REUSED*)
(* and changes nothing, as does every check that fails.                    *)
BeginSend(s, d, k) ==
  /\ sending[s] = NoSend
  /\ d \in generated
  /\ attempts[k] = NoAttempt
  /\ EffectiveStatus(reviews[d]) = "APPROVED"
  /\ Targetable(d)
  /\ ~ IsSuppressed(address[d])
  /\ ~ SentDraft(d)
  /\ sending' = [sending EXCEPT ![s] =
       [step |-> "checked",
        key  |-> k,
        mail |-> [draft    |-> d,
                  revision |-> Len(reviews[d]),
                  content  |-> EffectiveContent(reviews[d]),
                  to       |-> address[d]]]]
  /\ UNCHANGED <<attempts, suppressed, mailed, lost>>

(* Mutant: no unique idempotency key; the second request goes ahead.       *)
InsertAnyway(s) ==
  /\ AtStep(s, "checked")
  /\ MoveTo(s, "inserted")
  /\ UNCHANGED <<attempts, suppressed, mailed, lost>>

(* The flush of the PENDING row.                                           *)
InsertAttempt(s) ==
  /\ AtStep(s, "checked")
  /\ attempts[sending[s].key] = NoAttempt
  /\ \A other \in Senders : ~ Holds(other, sending[s].key)
  /\ MoveTo(s, "inserted")
  /\ UNCHANGED <<attempts, suppressed, mailed, lost>>

(* Mutant: the request tries its INSERT again instead of failing.          *)
RetryDuplicateKey(s) ==
  /\ AtStep(s, "checked")
  /\ attempts[sending[s].key] # NoAttempt
  /\ UNCHANGED sendVars

(* The flush meets a key committed since the snapshot: IntegrityError.     *)
DuplicateKey(s) ==
  /\ AtStep(s, "checked")
  /\ attempts[sending[s].key] # NoAttempt
  /\ sending' = [sending EXCEPT ![s] = NoSend]
  /\ UNCHANGED <<attempts, suppressed, mailed, lost>>

(* The provider takes the message and says so; or takes it and its answer *)
(* is lost (a dropped connection, a bad reply to QUIT), which the adapter  *)
(* reports as an error like any other (SMTPException, OSError).            *)
Deliver(s, outcome) ==
  /\ AtStep(s, "inserted")
  /\ outcome \in {"accepted", "unacknowledged"}
  /\ mailed' = [mailed EXCEPT ![sending[s].key] = Append(@, sending[s].mail)]
  /\ MoveTo(s, outcome)
  /\ UNCHANGED <<attempts, suppressed, lost>>

(* NOT_CONFIGURED, or the provider refuses or cannot be reached.           *)
Refuse(s) ==
  /\ AtStep(s, "inserted")
  /\ MoveTo(s, "refused")
  /\ UNCHANGED <<attempts, suppressed, mailed, lost>>

(* Mutant: an error leaves the attempt PENDING.                            *)
CommitPending(s) ==
  /\ AtStep(s, "accepted") \/ AtStep(s, "unacknowledged") \/ AtStep(s, "refused")
  /\ attempts' = [attempts EXCEPT ![sending[s].key] =
                    [status |-> IF AtStep(s, "accepted") THEN "SENT" ELSE "PENDING",
                     mail   |-> sending[s].mail]]
  /\ sending' = [sending EXCEPT ![s] = NoSend]
  /\ UNCHANGED <<suppressed, mailed, lost>>

(* Mutant: the provider's refusal is not looked at.                        *)
CommitAlwaysSent(s) ==
  /\ AtStep(s, "accepted") \/ AtStep(s, "unacknowledged") \/ AtStep(s, "refused")
  /\ attempts' = [attempts EXCEPT ![sending[s].key] =
                    [status |-> "SENT", mail |-> sending[s].mail]]
  /\ sending' = [sending EXCEPT ![s] = NoSend]
  /\ UNCHANGED <<suppressed, mailed, lost>>

(* The request commits its attempt: SENT when the provider said so, FAILED *)
(* (_fail) on any error.                                                   *)
CommitAttempt(s) ==
  /\ AtStep(s, "accepted") \/ AtStep(s, "unacknowledged") \/ AtStep(s, "refused")
  /\ attempts' = [attempts EXCEPT ![sending[s].key] =
                    [status |-> IF AtStep(s, "accepted") THEN "SENT" ELSE "FAILED",
                     mail   |-> sending[s].mail]]
  /\ sending' = [sending EXCEPT ![s] = NoSend]
  /\ UNCHANGED <<suppressed, mailed, lost>>

(* The worker dies or the commit fails: the row rolls back, the mail does  *)
(* not.                                                                    *)
CrashSend(s) ==
  /\ sending[s] # NoSend
  /\ IF Delivered(s)
       THEN /\ lost[sending[s].key] < MaxLost
            /\ lost' = [lost EXCEPT ![sending[s].key] = @ + 1]
       ELSE UNCHANGED lost
  /\ sending' = [sending EXCEPT ![s] = NoSend]
  /\ UNCHANGED <<attempts, suppressed, mailed>>

(* A suppression lands: a manual one, the one-click unsubscribe, a bounce. *)
OptOut(a) ==
  /\ suppressed' = suppressed \cup {Normalize[a]}
  /\ UNCHANGED <<sending, attempts, mailed, lost>>

SenderStep(s) ==
  \/ \E d \in Drafts, k \in Keys : BeginSend(s, d, k)
  \/ InsertAttempt(s)
  \/ DuplicateKey(s)
  \/ \E outcome \in Steps : Deliver(s, outcome)
  \/ Refuse(s)
  \/ CommitAttempt(s)
  \/ CrashSend(s)

Next ==
  \/ ReviewNext /\ UNCHANGED sendVars
  \/ /\ \/ \E s \in Senders : SenderStep(s)
        \/ \E a \in Addresses : OptOut(a)
     /\ UNCHANGED reviewVars

Spec == ReviewInit /\ SendInit /\ [][Next]_vars

(* A request that runs keeps running: the provider call has a timeout and  *)
(* InnoDB grants a contended index entry in turn.                          *)
Fairness ==
  \A s \in Senders :
    /\ SF_vars(InsertAttempt(s) /\ UNCHANGED reviewVars)
    /\ WF_vars(/\ \/ DuplicateKey(s)
                  \/ \E outcome \in Steps : Deliver(s, outcome)
                  \/ Refuse(s)
                  \/ CommitAttempt(s)
               /\ UNCHANGED reviewVars)

FairSpec == Spec /\ Fairness

-----------------------------------------------------------------------------
(* Every variable has its type.                                            *)
TypeOK ==
  /\ ReviewTypeOK
  /\ sending \in [Senders -> Send \cup {NoSend}]
  /\ attempts \in [Keys -> Attempt \cup {NoAttempt}]
  /\ suppressed \subseteq Addresses
  /\ mailed \in [Keys -> Seq(Mail)]
  /\ lost \in [Keys -> Nat]

(* The mail carries the text of an APPROVE event that is the last event of *)
(* its draft.                                                              *)
ApprovedMail(m) ==
  /\ m.draft \in generated
  /\ m.revision = Len(reviews[m.draft])
  /\ EffectiveStatus(reviews[m.draft]) = "APPROVED"
  /\ m.content = EffectiveContent(reviews[m.draft])

(* What leaves is what was approved, then and ever after: the request read *)
(* the approval long before the provider took the mail, and no review that *)
(* raced with it has put another text in its place.                        *)
MailWasApproved ==
  \A k \in Keys : \A i \in 1..Len(mailed[k]) : ApprovedMail(mailed[k][i])

(* The attempt table and the world agree: SENT means the provider took     *)
(* exactly this mail, last; and a key delivers at most once more than the  *)
(* requests for it that died after their hand-over.                        *)
AttemptsTellTheTruth ==
  \A k \in Keys :
    /\ Len(mailed[k]) <= lost[k] + 1
    /\ attempts[k] # NoAttempt /\ attempts[k].status = "SENT" =>
         /\ Len(mailed[k]) = lost[k] + 1
         /\ mailed[k][Len(mailed[k])] = attempts[k].mail

(* A committed attempt settles its key: the attempt never changes and no   *)
(* request, those already in flight included, delivers for the key again   *)
(* (docs/outbound-sending.md, "Human action and idempotency").             *)
KeyIsSettled ==
  [][\A k \in Keys : attempts[k] # NoAttempt
       => attempts'[k] = attempts[k] /\ mailed'[k] = mailed[k]]_vars

InFlightTo(a) ==
  \E s \in Senders : sending[s] # NoSend /\ Normalize[sending[s].mail.to] = Normalize[a]

InFlightOf(d) == \E s \in Senders : sending[s] # NoSend /\ sending[s].mail.draft = d

(* An opt-out binds: once an address is suppressed and the requests that   *)
(* were already under way to it have ended, under whatever spelling, none  *)
(* starts and nothing more is delivered to it (the send gate's suppression *)
(* check and _normalize_email on both sides of it).                        *)
OptOutBinds ==
  [][\A a \in Addresses : IsSuppressed(a) /\ ~ InFlightTo(a)
       => /\ IsSuppressed(a)' /\ ~ InFlightTo(a)'
          /\ \A k \in Keys : mailed'[k] # mailed[k]
               => Normalize[mailed'[k][Len(mailed'[k])].to] # Normalize[a]]_vars

(* A sent draft stays quiet: once an attempt for it is committed as SENT   *)
(* and the requests under way have ended, no key sends it again.           *)
SentDraftStaysQuiet ==
  [][\A d \in Drafts : SentDraft(d) /\ ~ InFlightOf(d)
       => /\ SentDraft(d)' /\ ~ InFlightOf(d)'
          /\ \A k \in Keys : mailed'[k] # mailed[k]
               => mailed'[k][Len(mailed'[k])].draft # d]_vars

(* Every send request ends, those waiting for another's key included.      *)
SendEnds == \A s \in Senders : sending[s] # NoSend ~> sending[s] = NoSend

(* docs/outbound-sending.md:38 "After one successful send, a different key *)
(* cannot be used to send the same draft again."                           *)
OneSuccessfulSendPerDraft ==
  \A j, k \in Keys :
    /\ attempts[j] # NoAttempt /\ attempts[j].status = "SENT"
    /\ attempts[k] # NoAttempt /\ attempts[k].status = "SENT"
    /\ attempts[j].mail.draft = attempts[k].mail.draft
    => j = k
=============================================================================
