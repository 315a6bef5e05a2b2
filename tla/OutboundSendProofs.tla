------------------------- MODULE OutboundSendProofs -------------------------
(***************************************************************************)
(* Theorems about the review of drafts and about sending them, for any     *)
(* drafts, reviewers, texts, keys, senders and addresses.  The inductive   *)
(* invariant of the review says what a request in flight knows: as long as *)
(* its revision number is free, the event it is about to insert follows    *)
(* the ledger as it is now, not only as it was in the snapshot.            *)
(*                                                                         *)
(* Composing the review with the send leaves it a review; what a send      *)
(* checked of the draft stays true while it is in flight; and the unique   *)
(* idempotency key gives each key one holder, whose deliveries the attempt *)
(* table accounts for.                                                     *)
(***************************************************************************)
EXTENDS OutboundSend, SequenceTheorems, TLAPS

-----------------------------------------------------------------------------
(* The review by itself (DraftReview).                                     *)

RequestFollows(p, ledger) ==
  /\ p.revision <= Len(ledger) + 1
  /\ p.revision > Len(ledger) => Follows(p.event, ledger)

RequestsFollow ==
  \A r \in Reviewers : pending[r] # NoRequest =>
    /\ pending[r].draft \in generated
    /\ RequestFollows(pending[r], reviews[pending[r].draft])

ReviewInv == ReviewTypeOK /\ RequestsFollow /\ LedgerFollows

-----------------------------------------------------------------------------
(* Facts about ledgers.                                                    *)

(* The effective content of a ledger is a content.                         *)
LEMMA EffectiveContentType ==
  ASSUME NEW ledger \in Seq(ReviewEvent)
  PROVE  EffectiveContent(ledger) \in Contents
<1>1. CASE ledger = <<>>
  BY <1>1, ReviewAssumption DEF EffectiveContent
<1>2. CASE ledger # <<>>
  <2>1. ledger[Len(ledger)] \in ReviewEvent
    BY <1>2
  <2>2. QED BY <1>2, <2>1 DEF EffectiveContent, ReviewEvent
<1>3. QED BY <1>1, <1>2

(* A patch changes a content to a content, and only in its own fields.     *)
LEMMA PatchedContent ==
  ASSUME NEW content \in Contents, NEW patch \in Patches
  PROVE  /\ Patched(content, patch) \in Contents
         /\ DOMAIN patch \in (SUBSET Fields) \ {{}}
         /\ \A f \in Fields \ DOMAIN patch : Patched(content, patch)[f] = content[f]
<1>1. PICK S \in (SUBSET Fields) \ {{}} : patch \in [S -> Texts]
  BY DEF Patches
<1>2. QED BY <1>1 DEF Patched, Contents

(* Appending an event that follows keeps a ledger well formed.             *)
LEMMA AppendFollows ==
  ASSUME NEW ledger \in Seq(ReviewEvent), NEW event \in ReviewEvent,
         Follows(event, ledger),
         \A i \in 1..Len(ledger) : Follows(ledger[i], SubSeq(ledger, 1, i - 1)),
         NEW i \in 1..Len(Append(ledger, event))
  PROVE  Follows(Append(ledger, event)[i], SubSeq(Append(ledger, event), 1, i - 1))
<1> DEFINE longer == Append(ledger, event)
<1>1. /\ longer \in Seq(ReviewEvent)
      /\ Len(longer) = Len(ledger) + 1
      /\ longer[Len(ledger) + 1] = event
      /\ \A j \in 1..Len(ledger) : longer[j] = ledger[j]
  BY AppendProperties
<1>2. CASE i = Len(ledger) + 1
  <2>1. SubSeq(longer, 1, i - 1) = ledger
    <3>1. SubSeq(longer, 1, Len(ledger)) \in Seq(ReviewEvent)
      BY <1>1
    <3>2. Len(SubSeq(longer, 1, Len(ledger))) = Len(ledger)
      BY <1>1
    <3>3. \A j \in 1..Len(ledger) : SubSeq(longer, 1, Len(ledger))[j] = ledger[j]
      BY <1>1
    <3>4. SubSeq(longer, 1, Len(ledger)) = ledger
      BY <3>1, <3>2, <3>3, SeqEqual
    <3>5. QED BY <3>4, <1>2
  <2>2. QED BY <1>1, <1>2, <2>1
<1>3. CASE i \in 1..Len(ledger)
  <2>1. SubSeq(longer, 1, i - 1) = SubSeq(ledger, 1, i - 1)
    BY <1>1, <1>3
  <2>2. QED BY <1>1, <1>3, <2>1
<1>4. QED BY <1>1, <1>2, <1>3

-----------------------------------------------------------------------------
(* Every step keeps the types.                                             *)
LEMMA ReviewTypeStep ==
  ASSUME ReviewTypeOK, [ReviewNext]_reviewVars
  PROVE  ReviewTypeOK'
<1> USE DEF ReviewTypeOK
<1>1. ASSUME NEW d \in Drafts, Generate(d) PROVE ReviewTypeOK'
  BY <1>1 DEF Generate
<1>2. ASSUME NEW d \in Drafts, Reassess(d) PROVE ReviewTypeOK'
  BY <1>2 DEF Reassess
<1>3. ASSUME NEW d \in Drafts, NEW a \in Addresses \cup {NoAddress}, VerifyAddress(d, a)
      PROVE  ReviewTypeOK'
  BY <1>3 DEF VerifyAddress
<1>4. ASSUME NEW r \in Reviewers, NEW d \in Drafts, NEW event \in ReviewEvent,
             Begin(r, d, event)
      PROVE  ReviewTypeOK'
  <2>1. [draft |-> d, revision |-> Len(reviews[d]) + 1, event |-> event] \in Request
    BY DEF Request
  <2>2. QED BY <1>4, <2>1 DEF Begin
<1>5. ASSUME NEW r \in Reviewers, AppendEvent(r) PROVE ReviewTypeOK'
  <2>1. pending[r] \in Request
    BY <1>5 DEF AppendEvent
  <2>2. Append(reviews[pending[r].draft], pending[r].event) \in Seq(ReviewEvent)
    BY <2>1 DEF Request
  <2>3. QED BY <1>5, <2>1, <2>2 DEF AppendEvent, Request
<1>6. ASSUME NEW r \in Reviewers, AbandonReview(r) PROVE ReviewTypeOK'
  BY <1>6 DEF AbandonReview
<1>7. ASSUME NEW r \in Reviewers, NEW d \in Drafts, NEW patch \in Patches,
             RequestEdit(r, d, patch)
      PROVE  ReviewTypeOK'
  BY <1>4, <1>7, EffectiveContentType, PatchedContent
     DEF RequestEdit, ReviewEvent, ReviewActions
<1>8. ASSUME NEW r \in Reviewers, NEW d \in Drafts, NEW action \in {"APPROVE", "REJECT"}
      PROVE  Decision(d, action) \in ReviewEvent
  BY EffectiveContentType DEF Decision, ReviewEvent, ReviewActions
<1>9. ASSUME NEW r \in Reviewers, NEW d \in Drafts, RequestApprove(r, d)
      PROVE  ReviewTypeOK'
  BY <1>4, <1>8, <1>9 DEF RequestApprove
<1>10. ASSUME NEW r \in Reviewers, NEW d \in Drafts, RequestReject(r, d)
       PROVE  ReviewTypeOK'
  BY <1>4, <1>8, <1>10 DEF RequestReject
<1>11. CASE UNCHANGED reviewVars
  BY <1>11 DEF reviewVars
<1>12. QED
  BY <1>1, <1>2, <1>3, <1>5, <1>6, <1>7, <1>9, <1>10, <1>11 DEF ReviewNext

(* Type correctness: every variable of the review keeps its type.          *)
THEOREM ReviewTypeCorrect == ReviewSpec => []ReviewTypeOK
<1>1. ReviewInit => ReviewTypeOK
  BY DEF ReviewInit, ReviewTypeOK
<1>2. ReviewTypeOK /\ [ReviewNext]_reviewVars => ReviewTypeOK'
  BY ReviewTypeStep
<1>3. QED BY <1>1, <1>2, PTL DEF ReviewSpec

-----------------------------------------------------------------------------
(* The event a request builds from its snapshot follows that snapshot.     *)
LEMMA EditFollows ==
  ASSUME ReviewTypeOK, NEW d \in Drafts, NEW patch \in Patches,
         EffectiveStatus(reviews[d]) # "APPROVED"
  PROVE  Follows([action   |-> "EDIT",
                  content  |-> Patched(EffectiveContent(reviews[d]), patch),
                  replaced |-> DOMAIN patch], reviews[d])
BY EffectiveContentType, PatchedContent DEF Follows, ReviewTypeOK

LEMMA DecisionFollows ==
  ASSUME NEW d \in Drafts, NEW action \in {"APPROVE", "REJECT"},
         EffectiveStatus(reviews[d]) = "DRAFT"
  PROVE  Follows(Decision(d, action), reviews[d])
BY DEF Follows, Decision

(* Every step keeps the invariant of the requests in flight.               *)
LEMMA RequestsStep ==
  ASSUME ReviewTypeOK, RequestsFollow, [ReviewNext]_reviewVars
  PROVE  RequestsFollow'
<1> USE DEF ReviewTypeOK
<1>1. ASSUME UNCHANGED reviews, generated \subseteq generated',
             \A r \in Reviewers : pending'[r] \in {pending[r], NoRequest}
      PROVE  RequestsFollow'
  BY <1>1 DEF RequestsFollow, RequestFollows, Follows, EffectiveStatus, EffectiveContent
<1>2. ASSUME NEW d \in Drafts, Generate(d) PROVE RequestsFollow'
  BY <1>1, <1>2 DEF Generate
<1>3. ASSUME NEW d \in Drafts, \/ Reassess(d)
                               \/ \E a \in Addresses \cup {NoAddress} : VerifyAddress(d, a)
      PROVE  RequestsFollow'
  BY <1>1, <1>3 DEF Reassess, VerifyAddress
<1>4. ASSUME NEW r \in Reviewers, NEW d \in Drafts, NEW event,
             Begin(r, d, event), Follows(event, reviews[d])
      PROVE  RequestsFollow'
  <2> DEFINE p == [draft |-> d, revision |-> Len(reviews[d]) + 1, event |-> event]
  <2>1. /\ p.draft \in generated
        /\ RequestFollows(p, reviews[p.draft])
    BY <1>4 DEF Begin, RequestFollows
  <2>2. /\ UNCHANGED <<reviews, generated>>
        /\ pending'[r] = p
        /\ \A q \in Reviewers \ {r} : pending'[q] = pending[q]
    BY <1>4 DEF Begin
  <2> HIDE DEF p
  <2>3. \A q \in Reviewers : pending'[q] # NoRequest =>
          /\ pending'[q].draft \in generated
          /\ RequestFollows(pending'[q], reviews[pending'[q].draft])
    BY <2>1, <2>2 DEF RequestsFollow
  <2>4. QED
    BY <2>2, <2>3 DEF RequestsFollow, RequestFollows, Follows, EffectiveStatus, EffectiveContent
<1>5. ASSUME NEW r \in Reviewers, AppendEvent(r) PROVE RequestsFollow'
  <2>1. /\ pending[r] \in Request
        /\ pending[r].draft \in Drafts
    BY <1>5 DEF AppendEvent, Request
  <2>2. /\ Len(reviews'[pending[r].draft]) = Len(reviews[pending[r].draft]) + 1
        /\ \A e \in Drafts \ {pending[r].draft} : reviews'[e] = reviews[e]
        /\ Len(reviews[pending[r].draft]) \in Nat
    BY <1>5, <2>1 DEF AppendEvent
  <2>3. ASSUME NEW q \in Reviewers, pending'[q] # NoRequest
        PROVE  /\ pending'[q].draft \in generated
               /\ RequestFollows(pending'[q], reviews'[pending'[q].draft])
    <3>1. /\ pending'[q] = pending[q] /\ pending[q] \in Request
          /\ pending[q].draft \in generated
          /\ RequestFollows(pending[q], reviews[pending[q].draft])
      BY <1>5, <2>3 DEF AppendEvent, RequestsFollow
    <3>2. CASE pending[q].draft = pending[r].draft
      BY <2>2, <3>1, <3>2 DEF RequestFollows, Request
    <3>3. CASE pending[q].draft # pending[r].draft
      BY <2>2, <3>1, <3>3 DEF Request
    <3>4. QED BY <3>2, <3>3
  <2>4. generated' = generated
    BY <1>5 DEF AppendEvent
  <2>5. QED
    BY <2>3, <2>4 DEF RequestsFollow, RequestFollows, Follows, EffectiveStatus, EffectiveContent
<1>6. ASSUME NEW r \in Reviewers, AbandonReview(r) PROVE RequestsFollow'
  BY <1>1, <1>6 DEF AbandonReview
<1>7. ASSUME NEW r \in Reviewers, NEW d \in Drafts, NEW patch \in Patches,
             RequestEdit(r, d, patch)
      PROVE  RequestsFollow'
  BY <1>4, <1>7, EditFollows DEF RequestEdit
<1>8. ASSUME NEW r \in Reviewers, NEW d \in Drafts, RequestApprove(r, d)
      PROVE  RequestsFollow'
  BY <1>4, <1>8, DecisionFollows DEF RequestApprove
<1>9. ASSUME NEW r \in Reviewers, NEW d \in Drafts, RequestReject(r, d)
      PROVE  RequestsFollow'
  BY <1>4, <1>9, DecisionFollows DEF RequestReject
<1>10. CASE UNCHANGED reviewVars
  BY <1>1, <1>10 DEF reviewVars
<1>11. QED
  BY <1>2, <1>3, <1>5, <1>6, <1>7, <1>8, <1>9, <1>10 DEF ReviewNext

(* Only AppendEvent changes a ledger, and it appends an event that follows.*)
LEMMA LedgerChange ==
  ASSUME ReviewTypeOK, RequestsFollow, [ReviewNext]_reviewVars, NEW d \in Drafts
  PROVE  \/ reviews'[d] = reviews[d]
         \/ /\ d \in generated /\ generated' = generated
            /\ \E event \in ReviewEvent :
                 /\ Follows(event, reviews[d])
                 /\ reviews' = [reviews EXCEPT ![d] = Append(@, event)]
<1>1. CASE UNCHANGED reviews
  BY <1>1
<1>2. ASSUME NEW r \in Reviewers, AppendEvent(r)
      PROVE  \/ reviews'[d] = reviews[d]
             \/ /\ d \in generated /\ generated' = generated
                /\ \E event \in ReviewEvent :
                     /\ Follows(event, reviews[d])
                     /\ reviews' = [reviews EXCEPT ![d] = Append(@, event)]
  <2>1. pending[r] \in Request
    BY <1>2 DEF AppendEvent, ReviewTypeOK
  <2>2. CASE pending[r].draft = d
    BY <1>2, <2>1, <2>2
       DEF AppendEvent, RevisionFree, RequestsFollow, RequestFollows, Request
  <2>3. CASE pending[r].draft # d
    BY <1>2, <2>1, <2>3 DEF AppendEvent, Request, ReviewTypeOK
  <2>4. QED BY <2>2, <2>3
<1>3. UNCHANGED reviews \/ \E r \in Reviewers : AppendEvent(r)
  BY DEF ReviewNext, reviewVars, Generate, Reassess, VerifyAddress, AbandonReview,
         RequestEdit, RequestApprove, RequestReject, Begin
<1>4. QED BY <1>1, <1>2, <1>3

(* Every step keeps the ledgers well formed.                               *)
LEMMA LedgerStep ==
  ASSUME ReviewTypeOK, RequestsFollow, LedgerFollows, [ReviewNext]_reviewVars
  PROVE  LedgerFollows'
<1>1. SUFFICES ASSUME NEW d \in Drafts
               PROVE  \A i \in 1..Len(reviews'[d]) :
                        Follows(reviews'[d][i], SubSeq(reviews'[d], 1, i - 1))
  BY DEF LedgerFollows, Follows, EffectiveStatus, EffectiveContent
<1>2. CASE reviews'[d] = reviews[d]
  BY <1>2 DEF LedgerFollows
<1>3. ASSUME NEW event \in ReviewEvent, Follows(event, reviews[d]),
             reviews' = [reviews EXCEPT ![d] = Append(@, event)]
      PROVE  \A i \in 1..Len(reviews'[d]) :
               Follows(reviews'[d][i], SubSeq(reviews'[d], 1, i - 1))
  <2>1. reviews'[d] = Append(reviews[d], event) /\ reviews[d] \in Seq(ReviewEvent)
    BY <1>3 DEF ReviewTypeOK
  <2>2. \A i \in 1..Len(reviews[d]) : Follows(reviews[d][i], SubSeq(reviews[d], 1, i - 1))
    BY DEF LedgerFollows
  <2>3. QED BY <1>3, <2>1, <2>2, AppendFollows
<1>4. QED BY <1>2, <1>3, LedgerChange

(* The inductive invariant of the review.                                  *)
THEOREM ReviewInvariant == ReviewSpec => []ReviewInv
<1>1. ReviewInit => ReviewInv
  BY DEF ReviewInit, ReviewInv, ReviewTypeOK, RequestsFollow, LedgerFollows
<1>2. ReviewInv /\ [ReviewNext]_reviewVars => ReviewInv'
  BY ReviewTypeStep, RequestsStep, LedgerStep DEF ReviewInv
<1>3. QED BY <1>1, <1>2, PTL DEF ReviewSpec

(* No update is lost: every event of a ledger follows the events before    *)
(* it, whatever requests raced (edit, approve, reject, _append_event).     *)
THEOREM LedgersFollow == ReviewSpec => []LedgerFollows
<1>1. ReviewInv => LedgerFollows
  BY DEF ReviewInv
<1>2. QED BY <1>1, ReviewInvariant, PTL

(* An approved ledger never grows.                                         *)
THEOREM ApprovedLedgersAreFinal == ReviewSpec => ApprovalIsFinal
<1>1. ASSUME ReviewInv, [ReviewNext]_reviewVars,
             NEW d \in Drafts, EffectiveStatus(reviews[d]) = "APPROVED"
      PROVE  reviews'[d] = reviews[d]
  BY <1>1, LedgerChange DEF ReviewInv, Follows
<1>2. ReviewInv /\ [ReviewNext]_reviewVars
        => [\A d \in Drafts : EffectiveStatus(reviews[d]) = "APPROVED"
                               => reviews'[d] = reviews[d]]_reviewVars
  BY <1>1
<1>3. QED BY <1>2, ReviewInvariant, PTL DEF ReviewSpec, ApprovalIsFinal

-----------------------------------------------------------------------------
(* What may follow a ledger is what the serial review decides on it.       *)
LEMMA FollowsIsDecision ==
  ASSUME NEW ledger \in Seq(ReviewEvent), NEW event \in ReviewEvent, Follows(event, ledger)
  PROVE  event.action \in Serial!Decisions(ledger)
<1>1. CASE ledger = <<>>
  BY <1>1 DEF Serial!Decisions, ReviewEvent, ReviewActions
<1>2. CASE ledger # <<>>
  <2>1. ledger[Len(ledger)] \in ReviewEvent
    BY <1>2
  <2>2. QED
    BY <1>2, <2>1 DEF Serial!Decisions, ReviewEvent, ReviewActions, Follows,
                      EffectiveStatus, StatusAfter
<1>3. QED BY <1>1, <1>2

(* Concurrent reviewers under REPEATABLE READ and a unique key do what one *)
(* reviewer working alone could do: DraftReview implements                 *)
(* DraftReviewSerial.                                                      *)
THEOREM ReviewIsSerial == ReviewSpec => SerialReview
<1>1. ReviewInit => Serial!Init
  BY DEF ReviewInit, Serial!Init
<1>2. ASSUME ReviewInv, [ReviewNext]_reviewVars
      PROVE  [Serial!Next]_<<generated, reviews>>
  <2> USE <1>2
  <2>1. CASE UNCHANGED <<generated, reviews>>
    BY <2>1
  <2>2. ASSUME NEW d \in Drafts, Generate(d) PROVE Serial!Next
    BY <2>2 DEF Generate, Serial!Next, Serial!Create
  <2>3. ASSUME NEW d \in Drafts, reviews'[d] # reviews[d] PROVE Serial!Next
    <3>1. /\ d \in generated /\ generated' = generated
          /\ \E event \in ReviewEvent :
               /\ Follows(event, reviews[d])
               /\ reviews' = [reviews EXCEPT ![d] = Append(@, event)]
      BY <2>3, LedgerChange DEF ReviewInv
    <3>2. PICK event \in ReviewEvent :
            /\ Follows(event, reviews[d])
            /\ reviews' = [reviews EXCEPT ![d] = Append(@, event)]
      BY <3>1
    <3>3. event.action \in Serial!Decisions(reviews[d])
      BY <3>2, FollowsIsDecision DEF ReviewInv, ReviewTypeOK
    <3>4. /\ event.content \in [Fields -> Texts]
          /\ event.replaced \in SUBSET Fields
          /\ event.action \in {"EDIT", "APPROVE", "REJECT"}
          /\ event = [action |-> event.action, content |-> event.content,
                      replaced |-> event.replaced]
      BY DEF ReviewEvent, ReviewActions, Contents
    <3>5. Serial!Shown(reviews[d]) = EffectiveContent(reviews[d])
      BY DEF Serial!Shown, EffectiveContent
    <3>6. Serial!Decide(d, event.action, event.replaced)
      BY <3>1, <3>2, <3>3, <3>4, <3>5 DEF Serial!Decide, Follows
    <3>7. QED BY <3>4, <3>6 DEF Serial!Next
  <2>4. \/ UNCHANGED <<generated, reviews>>
        \/ \E d \in Drafts : Generate(d)
        \/ \E r \in Reviewers : AppendEvent(r)
    BY DEF ReviewNext, reviewVars, Reassess, VerifyAddress, AbandonReview,
           RequestEdit, RequestApprove, RequestReject, Begin
  <2>5. ASSUME NEW r \in Reviewers, AppendEvent(r)
        PROVE  UNCHANGED <<generated, reviews>> \/ \E d \in Drafts : reviews'[d] # reviews[d]
    <3>1. /\ pending[r] \in Request
          /\ reviews \in [Drafts -> Seq(ReviewEvent)]
      BY <2>5 DEF AppendEvent, ReviewInv, ReviewTypeOK
    <3>2. Len(reviews'[pending[r].draft]) = Len(reviews[pending[r].draft]) + 1
      BY <2>5, <3>1 DEF AppendEvent, Request
    <3>3. QED BY <3>1, <3>2 DEF Request
  <2>6. QED BY <2>1, <2>2, <2>3, <2>4, <2>5
<1>3. QED
  BY <1>1, <1>2, ReviewInvariant, PTL
     DEF ReviewSpec, SerialReview, Serial!Spec, Serial!ledgerVars

-----------------------------------------------------------------------------
(* Sending (OutboundSend).                                                 *)

SendTypeOK ==
  /\ sending \in [Senders -> Send \cup {NoSend}]
  /\ attempts \in [Keys -> Attempt \cup {NoAttempt}]
  /\ suppressed \subseteq Addresses
  /\ mailed \in [Keys -> Seq(Mail)]
  /\ lost \in [Keys -> Nat]

(* Requests in flight carry approved mail too.                             *)
SendsApproved ==
  \A s \in Senders : sending[s] # NoSend => ApprovedMail(sending[s].mail)

(* A key has at most one holder, and none once it is settled.              *)
OneHolder ==
  \A s, t \in Senders : \A k \in Keys :
    Holds(s, k) => attempts[k] = NoAttempt /\ (Holds(t, k) => s = t)

(* Every delivery of a key is accounted for: by a request that died after  *)
(* it, by the one in flight that made it, or by the committed attempt.     *)
KeyAccount(k) ==
  /\ attempts[k] = NoAttempt /\ (\A s \in Senders : Delivered(s) => sending[s].key # k)
       => Len(mailed[k]) = lost[k]
  /\ \A s \in Senders : Delivered(s) /\ sending[s].key = k =>
       /\ Len(mailed[k]) = lost[k] + 1
       /\ mailed[k][Len(mailed[k])] = sending[s].mail
  /\ attempts[k] # NoAttempt => Len(mailed[k]) <= lost[k] + 1
  /\ attempts[k] # NoAttempt /\ attempts[k].status = "SENT" =>
       /\ Len(mailed[k]) = lost[k] + 1
       /\ mailed[k][Len(mailed[k])] = attempts[k].mail

KeyAccounts == \A k \in Keys : KeyAccount(k)

KeyInv == SendTypeOK /\ OneHolder /\ KeyAccounts

-----------------------------------------------------------------------------
(* Composed with the send, the review is still the review: no step of a    *)
(* send touches the ledgers, and the theorems about it hold.   *)
LEMMA NextIsReview ==
  ASSUME [Next]_vars
  PROVE  [ReviewNext]_reviewVars
BY DEF Next, vars

(* A behaviour of the composition is one of the review (campaigns.py).      *)
THEOREM SendKeepsReview == Spec => ReviewSpec
<1>1. [Next]_vars => [ReviewNext]_reviewVars
  BY NextIsReview
<1>2. QED BY <1>1, PTL DEF Spec, ReviewSpec

(* The cases of a step, for the send's own variables.                      *)
LEMMA SendCases ==
  ASSUME [Next]_vars
  PROVE  \/ UNCHANGED sendVars
         \/ UNCHANGED reviewVars /\ \E s \in Senders : SenderStep(s)
         \/ UNCHANGED reviewVars /\ \E a \in Addresses : OptOut(a)
BY DEF Next, vars

-----------------------------------------------------------------------------
(* Types.                                                                  *)
LEMMA SendTypeStep ==
  ASSUME ReviewTypeOK, SendTypeOK, [Next]_vars
  PROVE  SendTypeOK'
<1> USE DEF SendTypeOK
<1>1. CASE UNCHANGED sendVars
  BY <1>1 DEF sendVars
<1>2. ASSUME NEW a \in Addresses, OptOut(a) PROVE SendTypeOK'
  BY <1>2, SendAssumption DEF OptOut
<1>3. ASSUME NEW s \in Senders, SenderStep(s) PROVE SendTypeOK'
  <2>1. ASSUME NEW d \in Drafts, NEW k \in Keys, BeginSend(s, d, k) PROVE SendTypeOK'
    <3>1. /\ EffectiveContent(reviews[d]) \in Contents
          /\ Len(reviews[d]) \in Nat
      BY EffectiveContentType DEF ReviewTypeOK
    <3>2. address[d] \in Addresses
      BY <2>1 DEF BeginSend, Targetable, ReviewTypeOK
    <3>3. [draft |-> d, revision |-> Len(reviews[d]),
           content |-> EffectiveContent(reviews[d]), to |-> address[d]] \in Mail
      BY <3>1, <3>2 DEF Mail
    <3>4. QED BY <2>1, <3>3 DEF BeginSend, Send, Steps
  <2>2. ASSUME NEW step \in Steps, sending[s] # NoSend, MoveTo(s, step)
        PROVE  sending' \in [Senders -> Send \cup {NoSend}]
    BY <2>2 DEF MoveTo, Send
  <2>3. CASE InsertAttempt(s)
    BY <2>2, <2>3 DEF InsertAttempt, AtStep, Steps
  <2>4. CASE DuplicateKey(s)
    BY <2>4 DEF DuplicateKey
  <2>5. ASSUME NEW outcome \in Steps, Deliver(s, outcome) PROVE SendTypeOK'
    <3>1. sending[s].key \in Keys /\ sending[s].mail \in Mail
      BY <2>5 DEF Deliver, AtStep, Send
    <3>2. Append(mailed[sending[s].key], sending[s].mail) \in Seq(Mail)
      BY <3>1
    <3>3. QED BY <2>2, <2>5, <3>1, <3>2 DEF Deliver, AtStep
  <2>6. CASE Refuse(s)
    BY <2>2, <2>6 DEF Refuse, AtStep, Steps
  <2>7. CASE CommitAttempt(s)
    <3>1. sending[s].key \in Keys /\ sending[s].mail \in Mail
      BY <2>7 DEF CommitAttempt, AtStep, Send
    <3>2. [status |-> IF AtStep(s, "accepted") THEN "SENT" ELSE "FAILED",
           mail   |-> sending[s].mail] \in Attempt
      BY <3>1 DEF Attempt
    <3>3. QED BY <2>7, <3>1, <3>2 DEF CommitAttempt
  <2>8. CASE CrashSend(s)
    <3>1. sending[s].key \in Keys
      BY <2>8 DEF CrashSend, Send
    <3>2. lost' \in [Keys -> Nat]
      <4>1. CASE Delivered(s)
        <5>1. lost' = [lost EXCEPT ![sending[s].key] = lost[sending[s].key] + 1]
          BY <2>8, <4>1 DEF CrashSend
        <5>2. lost \in [Keys -> Nat]
          OBVIOUS
        <5> HIDE DEF SendTypeOK
        <5>3. QED BY <3>1, <5>1, <5>2
      <4>2. CASE ~ Delivered(s)
        BY <2>8, <4>2 DEF CrashSend, Delivered
      <4>3. QED BY <4>1, <4>2
    <3>3. QED BY <2>8, <3>2 DEF CrashSend
  <2>9. QED BY <1>3, <2>1, <2>3, <2>4, <2>5, <2>6, <2>7, <2>8 DEF SenderStep
<1>4. QED BY <1>1, <1>2, <1>3, SendCases

(* Type correctness of the review and the send together.                   *)
THEOREM TypeCorrect == Spec => []TypeOK
<1>1. Spec => []ReviewTypeOK
  BY SendKeepsReview, ReviewTypeCorrect, PTL
<1>2. SendInit => SendTypeOK
  BY DEF SendInit, SendTypeOK
<1>3. ReviewTypeOK /\ SendTypeOK /\ [Next]_vars => SendTypeOK'
  BY SendTypeStep
<1>4. Spec => []SendTypeOK
  BY <1>1, <1>2, <1>3, PTL DEF Spec
<1>5. ReviewTypeOK /\ SendTypeOK => TypeOK
  BY DEF TypeOK, SendTypeOK
<1>6. QED BY <1>1, <1>4, <1>5, PTL

-----------------------------------------------------------------------------
(* Approved mail.                                                          *)

(* Nothing unapproves a mail: its draft stays, and its ledger is final.    *)
LEMMA ApprovedMailStays ==
  ASSUME ReviewInv, [ReviewNext]_reviewVars, NEW m \in Mail, ApprovedMail(m)
  PROVE  ApprovedMail(m)'
<1>1. m.draft \in Drafts
  BY DEF Mail
<1>2. reviews'[m.draft] = reviews[m.draft]
  BY <1>1, LedgerChange DEF ApprovedMail, ReviewInv, Follows
<1>3. generated \subseteq generated'
  BY DEF ReviewNext, reviewVars, Generate, Reassess, VerifyAddress, AbandonReview,
         AppendEvent, RequestEdit, RequestApprove, RequestReject, Begin
<1>4. QED BY <1>2, <1>3 DEF ApprovedMail, EffectiveStatus, EffectiveContent

(* A request in flight tomorrow is one of today's or one that begins now,  *)
(* and a delivery is of the mail of a request in flight.                   *)
LEMMA SendMails ==
  ASSUME TypeOK, [Next]_vars
  PROVE  /\ \A s \in Senders : sending'[s] # NoSend =>
              \/ sending[s] # NoSend /\ sending'[s].mail = sending[s].mail
              \/ /\ sending'[s].mail \in Mail
                 /\ ApprovedMail(sending'[s].mail)
                 /\ UNCHANGED reviewVars
         /\ \A k \in Keys :
              \/ mailed'[k] = mailed[k]
              \/ \E s \in Senders : /\ sending[s] # NoSend
                                    /\ mailed'[k] = Append(mailed[k], sending[s].mail)
<1> DEFINE Goal ==
      /\ \A s \in Senders : sending'[s] # NoSend =>
              \/ sending[s] # NoSend /\ sending'[s].mail = sending[s].mail
              \/ /\ sending'[s].mail \in Mail
                 /\ ApprovedMail(sending'[s].mail)
                 /\ UNCHANGED reviewVars
      /\ \A k \in Keys :
              \/ mailed'[k] = mailed[k]
              \/ \E s \in Senders : /\ sending[s] # NoSend
                                    /\ mailed'[k] = Append(mailed[k], sending[s].mail)
<1> USE DEF TypeOK
<1>1. CASE UNCHANGED sendVars
  BY <1>1 DEF sendVars
<1>2. ASSUME NEW a \in Addresses, OptOut(a) PROVE Goal
  BY <1>2 DEF OptOut
<1>3. ASSUME NEW s \in Senders, SenderStep(s), UNCHANGED reviewVars PROVE Goal
  <2>1. ASSUME NEW d \in Drafts, NEW k \in Keys, BeginSend(s, d, k) PROVE Goal
    <3> DEFINE m == [draft |-> d, revision |-> Len(reviews[d]),
                     content |-> EffectiveContent(reviews[d]), to |-> address[d]]
    <3>1. m \in Mail
      BY <2>1, EffectiveContentType DEF BeginSend, Targetable, ReviewTypeOK, Mail
    <3>2. ApprovedMail(m)
      BY <2>1 DEF BeginSend, ApprovedMail
    <3>3. /\ sending'[s].mail = m
          /\ \A t \in Senders \ {s} : sending'[t] = sending[t]
          /\ mailed' = mailed
      BY <2>1 DEF BeginSend
    <3>4. QED BY <1>3, <3>1, <3>2, <3>3
  <2>2. ASSUME NEW step, sending[s] # NoSend, MoveTo(s, step)
        PROVE  \A t \in Senders : sending'[t] # NoSend =>
                 sending[t] # NoSend /\ sending'[t].mail = sending[t].mail
    BY <2>2 DEF MoveTo, Send
  <2>3. CASE InsertAttempt(s)
    BY <2>2, <2>3 DEF InsertAttempt, AtStep
  <2>4. CASE DuplicateKey(s)
    BY <2>4 DEF DuplicateKey
  <2>5. ASSUME NEW outcome, Deliver(s, outcome) PROVE Goal
    BY <2>2, <2>5 DEF Deliver, AtStep
  <2>6. CASE Refuse(s)
    BY <2>2, <2>6 DEF Refuse, AtStep
  <2>7. CASE CommitAttempt(s)
    BY <2>7 DEF CommitAttempt
  <2>8. CASE CrashSend(s)
    BY <2>8 DEF CrashSend
  <2>9. QED BY <1>3, <2>1, <2>3, <2>4, <2>5, <2>6, <2>7, <2>8 DEF SenderStep
<1>4. QED BY <1>1, <1>2, <1>3, SendCases

MailInv == SendsApproved /\ MailWasApproved

LEMMA MailStep ==
  ASSUME ReviewInv, TypeOK, MailInv, [Next]_vars
  PROVE  MailInv'
<1> USE DEF TypeOK
<1>1. [ReviewNext]_reviewVars
  BY NextIsReview
<1>2. ASSUME NEW m \in Mail, ApprovedMail(m)
      PROVE  ApprovedMail(m)'
  BY <1>1, <1>2, ApprovedMailStays DEF MailInv
<1>3. ASSUME NEW m \in Mail, ApprovedMail(m), UNCHANGED reviewVars
      PROVE  ApprovedMail(m)'
  BY <1>3 DEF ApprovedMail, reviewVars, EffectiveStatus, EffectiveContent
<1>4. SendsApproved'
  <2>1. SUFFICES ASSUME NEW s \in Senders, sending'[s] # NoSend,
                        NEW m, m = sending'[s].mail
                 PROVE  ApprovedMail(m)'
    BY DEF SendsApproved, ApprovedMail
  <2>2. CASE sending[s] # NoSend /\ m = sending[s].mail
    <3>1. m \in Mail /\ ApprovedMail(m)
      BY <2>2 DEF MailInv, SendsApproved, Send
    <3>2. QED BY <1>2, <3>1
  <2>3. CASE m \in Mail /\ ApprovedMail(m) /\ UNCHANGED reviewVars
    BY <1>3, <2>3
  <2>4. QED BY <2>1, <2>2, <2>3, SendMails
<1>5. MailWasApproved'
  <2>1. SUFFICES ASSUME NEW k \in Keys, NEW i \in 1..Len(mailed'[k]),
                        NEW m, m = mailed'[k][i]
                 PROVE  ApprovedMail(m)'
    BY DEF MailWasApproved, ApprovedMail
  <2>2. CASE mailed'[k] = mailed[k]
    <3>1. m \in Mail /\ ApprovedMail(m)
      BY <2>1, <2>2 DEF MailInv, MailWasApproved
    <3>2. QED BY <1>2, <3>1
  <2>3. ASSUME NEW s \in Senders, sending[s] # NoSend,
               mailed'[k] = Append(mailed[k], sending[s].mail)
        PROVE  ApprovedMail(m)'
    <3>1. sending[s].mail \in Mail /\ ApprovedMail(sending[s].mail)
      BY <2>3 DEF MailInv, SendsApproved, Send
    <3>2. m \in Mail /\ ApprovedMail(m)
      BY <2>1, <2>3, <3>1 DEF MailInv, MailWasApproved
    <3>3. QED BY <1>2, <3>2
  <2>4. QED BY <2>2, <2>3, SendMails
<1>6. QED BY <1>4, <1>5 DEF MailInv

(* What leaves is what was approved: every delivered mail carries the text *)
(* of its draft's approval, which is and stays the draft's last event      *)
(* (send, _approved_revision; campaigns.py edit and reject).               *)
THEOREM MailIsApproved == Spec => []MailWasApproved
<1>1. Spec => []ReviewInv
  BY SendKeepsReview, ReviewInvariant, PTL
<1>2. ReviewInit /\ SendInit => MailInv
  BY DEF SendInit, MailInv, SendsApproved, MailWasApproved
<1>3. ReviewInv /\ TypeOK /\ MailInv /\ [Next]_vars => MailInv'
  BY MailStep
<1>4. Spec => []MailInv
  BY <1>1, <1>2, <1>3, TypeCorrect, PTL DEF Spec
<1>5. MailInv => MailWasApproved
  BY DEF MailInv
<1>6. QED BY <1>4, <1>5, PTL

-----------------------------------------------------------------------------
(* Keys.                                                                   *)

(* A step that delivers nothing and settles nothing keeps every account.   *)
LEMMA QuietStep ==
  ASSUME KeyAccounts, UNCHANGED <<attempts, mailed, lost>>,
         \A t \in Senders : Delivered(t)' <=> Delivered(t),
         \A t \in Senders : Delivered(t) => sending'[t] = sending[t]
  PROVE  KeyAccounts'
<1>1. ASSUME NEW k \in Keys PROVE KeyAccount(k)'
  <2>1. KeyAccount(k)
    BY DEF KeyAccounts
  <2>2. QED BY <2>1 DEF KeyAccount
<1>2. QED BY <1>1 DEF KeyAccounts

(* The accounts of a key that a step of another key's holder leaves alone. *)
LEMMA OtherKey ==
  ASSUME NEW k \in Keys, KeyAccount(k),
         attempts'[k] = attempts[k], mailed'[k] = mailed[k], lost'[k] = lost[k],
         \A t \in Senders : Delivered(t)' /\ sending'[t].key = k
                           <=> Delivered(t) /\ sending[t].key = k,
         \A t \in Senders : Delivered(t)' => sending'[t].mail = sending[t].mail
  PROVE  KeyAccount(k)'
BY DEF KeyAccount

(* No step but InsertAttempt makes a request the holder of a key.          *)
LEMMA FewerHolders ==
  ASSUME OneHolder,
         \A t \in Senders, k \in Keys :
           Holds(t, k)' => Holds(t, k) /\ attempts'[k] = attempts[k]
  PROVE  OneHolder'
BY DEF OneHolder

(* Every step keeps the one holder of a key and its accounts.              *)
LEMMA KeyStep ==
  ASSUME ReviewTypeOK, KeyInv, [Next]_vars
  PROVE  KeyInv'
<1> USE DEF KeyInv
<1>1. SendTypeOK /\ SendTypeOK'
  BY SendTypeStep
<1>2. ASSUME UNCHANGED <<sending, attempts, mailed, lost>> PROVE KeyInv'
  <2>1. OneHolder'
    BY <1>2, FewerHolders DEF Holds
  <2>2. KeyAccounts'
    BY <1>2, QuietStep DEF Delivered
  <2>3. QED BY <1>1, <2>1, <2>2
<1>3. CASE UNCHANGED sendVars \/ \E a \in Addresses : OptOut(a)
  BY <1>2, <1>3 DEF sendVars, OptOut
<1>4. ASSUME NEW s \in Senders, SenderStep(s) PROVE KeyInv'
  <2>1. ASSUME NEW d \in Drafts, NEW k \in Keys, BeginSend(s, d, k) PROVE KeyInv'
    <3>1. /\ sending[s] = NoSend /\ sending'[s].step = "checked"
          /\ \A t \in Senders \ {s} : sending'[t] = sending[t]
          /\ UNCHANGED <<attempts, mailed, lost>>
      BY <1>1, <2>1 DEF BeginSend, SendTypeOK
    <3>2. OneHolder'
      BY <3>1, FewerHolders DEF Holds
    <3>3. KeyAccounts'
      BY <3>1, QuietStep DEF Delivered
    <3>4. QED BY <1>1, <3>2, <3>3
  <2>2. CASE InsertAttempt(s)
    <3>1. sending[s] \in Send
      BY <1>1, <2>2 DEF InsertAttempt, AtStep, SendTypeOK
    <3>2. PICK key \in Keys : key = sending[s].key
      BY <3>1 DEF Send
    <3>3. /\ sending[s].step = "checked"
          /\ sending'[s].step = "inserted" /\ sending'[s].key = key
          /\ \A t \in Senders \ {s} : sending'[t] = sending[t]
          /\ UNCHANGED <<attempts, mailed, lost>>
      BY <1>1, <2>2, <3>1, <3>2 DEF InsertAttempt, AtStep, MoveTo, SendTypeOK, Send
    <3>4. attempts[key] = NoAttempt /\ \A t \in Senders : ~ Holds(t, key)
      BY <2>2, <3>2 DEF InsertAttempt
    <3>5. \A t \in Senders, k \in Keys :
            Holds(t, k)' => (t = s /\ k = key) \/ (t # s /\ Holds(t, k))
      BY <3>3 DEF Holds
    <3>6. OneHolder'
      BY <3>3, <3>4, <3>5 DEF OneHolder
    <3>7. KeyAccounts'
      BY <3>3, QuietStep DEF Delivered
    <3>8. QED BY <1>1, <3>6, <3>7
  <2>3. CASE DuplicateKey(s)
    <3>1. /\ sending[s].step = "checked" /\ sending'[s] = NoSend
          /\ \A t \in Senders \ {s} : sending'[t] = sending[t]
          /\ UNCHANGED <<attempts, mailed, lost>>
      BY <1>1, <2>3 DEF DuplicateKey, AtStep, SendTypeOK
    <3>2. OneHolder'
      BY <3>1, FewerHolders DEF Holds
    <3>3. KeyAccounts'
      BY <3>1, QuietStep DEF Delivered
    <3>4. QED BY <1>1, <3>2, <3>3
  <2>4. ASSUME NEW outcome \in Steps, Deliver(s, outcome) PROVE KeyInv'
    <3>1. sending[s] \in Send
      BY <1>1, <2>4 DEF Deliver, AtStep, SendTypeOK
    <3>2. PICK key \in Keys : key = sending[s].key
      BY <3>1 DEF Send
    <3>3. /\ sending[s].step = "inserted" /\ sending[s] # NoSend
          /\ sending'[s].step \in {"accepted", "unacknowledged"} /\ sending'[s] # NoSend
          /\ sending'[s].key = key /\ sending'[s].mail = sending[s].mail
          /\ \A t \in Senders \ {s} : sending'[t] = sending[t]
          /\ UNCHANGED <<attempts, lost>>
      BY <1>1, <2>4, <3>1, <3>2, SendAssumption
         DEF Deliver, AtStep, MoveTo, SendTypeOK, Send
    <3>4. /\ \A k \in Keys \ {key} : mailed'[k] = mailed[k]
          /\ mailed'[key] = Append(mailed[key], sending[s].mail)
          /\ mailed[key] \in Seq(Mail)
          /\ sending[s].mail \in Mail
      BY <1>1, <2>4, <3>1, <3>2 DEF Deliver, SendTypeOK, Send
    <3>5. \A t \in Senders, k \in Keys : Holds(t, k)' <=> Holds(t, k)
      BY <3>2, <3>3 DEF Holds
    <3>6. OneHolder'
      BY <3>3, <3>5, FewerHolders
    <3>7. /\ attempts[key] = NoAttempt
          /\ \A t \in Senders : Holds(t, key) => t = s
      BY <3>2, <3>3 DEF OneHolder, Holds
    <3>8. \A t \in Senders : Delivered(t) => sending[t].key # key
      BY <3>3, <3>7 DEF Delivered, Holds
    <3>9. Len(mailed[key]) = lost[key]
      BY <3>7, <3>8 DEF KeyAccounts, KeyAccount
    <3>10. Len(mailed'[key]) = lost[key] + 1 /\ mailed'[key][Len(mailed'[key])] = sending[s].mail
      BY <3>4, <3>9
    <3>11. Delivered(s)' /\ \A t \in Senders \ {s} : Delivered(t)' <=> Delivered(t)
      BY <3>3 DEF Delivered
    <3>12. KeyAccount(key)'
      BY <3>3, <3>7, <3>8, <3>10, <3>11 DEF KeyAccount
    <3>13. ASSUME NEW k \in Keys \ {key} PROVE KeyAccount(k)'
      BY <3>2, <3>3, <3>4, <3>11, OtherKey DEF KeyAccounts
    <3>14. KeyAccounts'
      BY <3>12, <3>13 DEF KeyAccounts
    <3>15. QED BY <1>1, <3>6, <3>14
  <2>5. CASE Refuse(s)
    <3>1. /\ sending[s].step = "inserted" /\ sending[s] # NoSend
          /\ sending'[s].step = "refused" /\ sending'[s].key = sending[s].key
          /\ \A t \in Senders \ {s} : sending'[t] = sending[t]
          /\ UNCHANGED <<attempts, mailed, lost>>
      BY <1>1, <2>5 DEF Refuse, AtStep, MoveTo, SendTypeOK, Send
    <3>2. OneHolder'
      BY <3>1, FewerHolders DEF Holds
    <3>3. KeyAccounts'
      BY <3>1, QuietStep DEF Delivered
    <3>4. QED BY <1>1, <3>2, <3>3
  <2>6. CASE CommitAttempt(s)
    <3>1. sending[s] \in Send
      BY <1>1, <2>6 DEF CommitAttempt, AtStep, SendTypeOK
    <3>2. PICK key \in Keys : key = sending[s].key
      BY <3>1 DEF Send
    <3>3. /\ Holds(s, key) /\ sending'[s] = NoSend
          /\ \A t \in Senders \ {s} : sending'[t] = sending[t]
          /\ \A k \in Keys \ {key} : attempts'[k] = attempts[k]
          /\ UNCHANGED <<mailed, lost>>
      BY <1>1, <2>6, <3>1, <3>2 DEF CommitAttempt, AtStep, SendTypeOK, Holds
    <3>4. /\ attempts'[key] # NoAttempt
          /\ attempts'[key].mail = sending[s].mail
          /\ attempts'[key].status = "SENT" => Delivered(s)
      <4>1. attempts'[key] = [status |-> IF AtStep(s, "accepted") THEN "SENT" ELSE "FAILED",
                              mail   |-> sending[s].mail]
        BY <1>1, <2>6, <3>2 DEF CommitAttempt, SendTypeOK
      <4>2. attempts'[key] \in Attempt
        BY <3>1, <4>1 DEF Attempt, Send
      <4>3. QED BY <4>1, <4>2, SendAssumption DEF Delivered, AtStep
    <3>5. /\ attempts[key] = NoAttempt
          /\ \A t \in Senders : Holds(t, key) => t = s
      BY <3>3 DEF OneHolder
    <3>6. OneHolder'
      BY <3>3, <3>5, FewerHolders DEF Holds
    <3>7. \A t \in Senders : Delivered(t) /\ sending[t].key = key => t = s
      BY <3>5 DEF Delivered, Holds
    <3>8. KeyAccount(key)'
      <4>1. \A t \in Senders : Delivered(t)' => sending'[t].key # key
        BY <3>3, <3>7 DEF Delivered
      <4>2. lost[key] \in Nat
        BY <1>1 DEF SendTypeOK
      <4>3. CASE Delivered(s)
        <5>1. Len(mailed[key]) = lost[key] + 1 /\ mailed[key][Len(mailed[key])] = sending[s].mail
          BY <3>2, <4>3 DEF KeyAccounts, KeyAccount
        <5>2. QED BY <3>3, <3>4, <4>1, <4>2, <5>1 DEF KeyAccount
      <4>4. CASE ~ Delivered(s)
        <5>1. Len(mailed[key]) = lost[key]
          BY <3>5, <3>7, <4>4 DEF KeyAccounts, KeyAccount
        <5>2. QED BY <3>3, <3>4, <4>1, <4>2, <4>4, <5>1 DEF KeyAccount
      <4>5. QED BY <4>3, <4>4
    <3>9. ASSUME NEW k \in Keys \ {key} PROVE KeyAccount(k)'
      <4>1. \A t \in Senders : Delivered(t)' /\ sending'[t].key = k
                              <=> Delivered(t) /\ sending[t].key = k
        BY <3>2, <3>3, <3>9 DEF Delivered
      <4>2. \A t \in Senders : Delivered(t)' => sending'[t].mail = sending[t].mail
        BY <3>3 DEF Delivered
      <4>3. QED BY <3>3, <4>1, <4>2, OtherKey DEF KeyAccounts
    <3>10. KeyAccounts'
      BY <3>8, <3>9 DEF KeyAccounts
    <3>11. QED BY <1>1, <3>6, <3>10
  <2>7. CASE CrashSend(s)
    <3>1. sending[s] \in Send
      BY <1>1, <2>7 DEF CrashSend, SendTypeOK
    <3>2. PICK key \in Keys : key = sending[s].key
      BY <3>1 DEF Send
    <3>3. /\ sending'[s] = NoSend
          /\ \A t \in Senders \ {s} : sending'[t] = sending[t]
          /\ UNCHANGED <<attempts, mailed>>
      BY <1>1, <2>7 DEF CrashSend, SendTypeOK
    <3>4. OneHolder'
      BY <3>3, FewerHolders DEF Holds
    <3>5. CASE Delivered(s)
      <4>1. /\ lost'[key] = lost[key] + 1
            /\ \A k \in Keys \ {key} : lost'[k] = lost[k]
        BY <1>1, <2>7, <3>2, <3>5 DEF CrashSend, SendTypeOK
      <4>2. /\ attempts[key] = NoAttempt
            /\ \A t \in Senders : Delivered(t) /\ sending[t].key = key => t = s
        BY <3>2, <3>5 DEF OneHolder, Holds, Delivered
      <4>3. Len(mailed[key]) = lost[key] + 1
        BY <3>2, <3>5 DEF KeyAccounts, KeyAccount
      <4>4. \A t \in Senders : Delivered(t)' => sending'[t].key # key
        BY <3>3, <4>2 DEF Delivered
      <4>5. KeyAccount(key)'
        BY <3>3, <4>1, <4>2, <4>3, <4>4 DEF KeyAccount
      <4>6. ASSUME NEW k \in Keys \ {key} PROVE KeyAccount(k)'
        <5>1. \A t \in Senders : Delivered(t)' /\ sending'[t].key = k
                                <=> Delivered(t) /\ sending[t].key = k
          BY <3>2, <3>3, <4>6 DEF Delivered
        <5>2. \A t \in Senders : Delivered(t)' => sending'[t].mail = sending[t].mail
          BY <3>3 DEF Delivered
        <5>3. QED BY <3>3, <4>1, <5>1, <5>2, OtherKey DEF KeyAccounts
      <4>7. KeyAccounts'
        BY <4>5, <4>6 DEF KeyAccounts
      <4>8. QED BY <1>1, <3>4, <4>7
    <3>6. CASE ~ Delivered(s)
      <4>1. UNCHANGED lost
        BY <2>7, <3>6 DEF CrashSend
      <4>2. KeyAccounts'
        BY <3>3, <3>6, <4>1, QuietStep DEF Delivered
      <4>3. QED BY <1>1, <3>4, <4>2
    <3>7. QED BY <3>5, <3>6
  <2>8. QED BY <1>4, <2>1, <2>2, <2>3, <2>4, <2>5, <2>6, <2>7 DEF SenderStep
<1>5. QED BY <1>3, <1>4, SendCases

(* The inductive invariant of the keys.                                    *)
LEMMA KeyInvariant == Spec => []KeyInv
<1>1. Spec => []ReviewTypeOK
  BY SendKeepsReview, ReviewTypeCorrect, PTL
<1>2. SendInit => KeyInv
  BY DEF SendInit, KeyInv, SendTypeOK, OneHolder, KeyAccounts, KeyAccount, Holds, Delivered
<1>3. ReviewTypeOK /\ KeyInv /\ [Next]_vars => KeyInv'
  BY KeyStep
<1>4. QED BY <1>1, <1>2, <1>3, PTL DEF Spec

(* The attempt table and the world agree: SENT means delivered, last and   *)
(* exactly so; and a key delivers at most once more than the requests for  *)
(* it that died after their hand-over (send, _fail, the unique key).       *)
THEOREM AttemptsAreTrue == Spec => []AttemptsTellTheTruth
<1>1. KeyInv => AttemptsTellTheTruth
  <2>1. SUFFICES ASSUME KeyInv, NEW k \in Keys
                 PROVE  /\ Len(mailed[k]) <= lost[k] + 1
                        /\ attempts[k] # NoAttempt /\ attempts[k].status = "SENT" =>
                             /\ Len(mailed[k]) = lost[k] + 1
                             /\ mailed[k][Len(mailed[k])] = attempts[k].mail
    BY DEF AttemptsTellTheTruth
  <2>2. KeyAccount(k) /\ lost[k] \in Nat
    BY <2>1 DEF KeyInv, KeyAccounts, SendTypeOK
  <2>3. QED BY <2>2 DEF KeyAccount
<1>2. QED BY <1>1, KeyInvariant, PTL

(* No step touches a settled key.                                          *)
LEMMA SettledStep ==
  ASSUME KeyInv, [Next]_vars, NEW k \in Keys, attempts[k] # NoAttempt
  PROVE  attempts'[k] = attempts[k] /\ mailed'[k] = mailed[k]
<1> USE DEF KeyInv, SendTypeOK
<1>1. \A s \in Senders : ~ Holds(s, k)
  BY DEF OneHolder
<1>2. CASE UNCHANGED sendVars
  BY <1>2 DEF sendVars
<1>3. ASSUME NEW s \in Senders, SenderStep(s)
      PROVE  attempts'[k] = attempts[k] /\ mailed'[k] = mailed[k]
  <2>1. CASE UNCHANGED <<attempts, mailed>>
    BY <2>1
  <2>2. ASSUME NEW outcome, Deliver(s, outcome)
        PROVE  attempts'[k] = attempts[k] /\ mailed'[k] = mailed[k]
    <3>1. sending[s].key # k
      BY <1>1, <2>2 DEF Deliver, AtStep, Holds
    <3>2. QED BY <2>2, <3>1 DEF Deliver
  <2>3. CASE CommitAttempt(s)
    <3>1. sending[s].key # k
      BY <1>1, <2>3 DEF CommitAttempt, AtStep, Holds
    <3>2. QED BY <2>3, <3>1 DEF CommitAttempt
  <2>4. QED
    BY <1>3, <2>1, <2>2, <2>3
       DEF SenderStep, BeginSend, InsertAttempt, DuplicateKey, Refuse, CrashSend
<1>4. CASE \E a \in Addresses : OptOut(a)
  BY <1>4 DEF OptOut
<1>5. QED BY <1>2, <1>3, <1>4, SendCases

(* A committed attempt settles its key, the requests in flight included:   *)
(* they can only fail on the unique key.                                   *)
THEOREM SettledKeysStay == Spec => KeyIsSettled
<1>1. KeyInv /\ [Next]_vars
        => [\A k \in Keys : attempts[k] # NoAttempt
              => attempts'[k] = attempts[k] /\ mailed'[k] = mailed[k]]_vars
  BY SettledStep
<1>2. QED BY <1>1, KeyInvariant, PTL DEF Spec, KeyIsSettled

-----------------------------------------------------------------------------
(* Who can still be mailed.                                                *)

(* What a step begins and what it delivers: a request that begins found    *)
(* its recipient unsuppressed and its draft unsent; a delivery is the mail *)
(* of a request that was in flight.                                        *)
LEMMA StepMails ==
  ASSUME SendTypeOK, [Next]_vars
  PROVE  /\ \A s \in Senders : sending'[s] # NoSend =>
              \/ sending[s] # NoSend /\ sending'[s].mail = sending[s].mail
              \/ /\ ~ IsSuppressed(sending'[s].mail.to)
                 /\ ~ SentDraft(sending'[s].mail.draft)
         /\ \A k \in Keys : mailed'[k] # mailed[k] =>
              \E s \in Senders : /\ sending[s] # NoSend
                                 /\ mailed'[k][Len(mailed'[k])] = sending[s].mail
         /\ suppressed \subseteq suppressed'
<1> DEFINE Begins == \A s \in Senders : sending'[s] # NoSend =>
             \/ sending[s] # NoSend /\ sending'[s].mail = sending[s].mail
             \/ /\ ~ IsSuppressed(sending'[s].mail.to)
                /\ ~ SentDraft(sending'[s].mail.draft)
<1> DEFINE Delivers == \A k \in Keys : mailed'[k] # mailed[k] =>
             \E s \in Senders : /\ sending[s] # NoSend
                                /\ mailed'[k][Len(mailed'[k])] = sending[s].mail
<1> DEFINE Goal == Begins /\ Delivers /\ suppressed \subseteq suppressed'
<1> USE DEF SendTypeOK
<1>1. CASE UNCHANGED sendVars
  BY <1>1 DEF sendVars
<1>2. ASSUME NEW a \in Addresses, OptOut(a) PROVE Goal
  BY <1>2 DEF OptOut
<1>3. ASSUME NEW s \in Senders, SenderStep(s) PROVE Goal
  <2>1. ASSUME NEW d \in Drafts, NEW k \in Keys, BeginSend(s, d, k) PROVE Goal
    <3>1. /\ sending'[s].mail.to = address[d] /\ sending'[s].mail.draft = d
          /\ ~ IsSuppressed(address[d]) /\ ~ SentDraft(d)
          /\ \A t \in Senders \ {s} : sending'[t] = sending[t]
      BY <2>1 DEF BeginSend
    <3>2. Begins
      BY <3>1
    <3>3. QED BY <2>1, <3>2 DEF BeginSend
  <2>2. ASSUME NEW step, sending[s] # NoSend, MoveTo(s, step)
        PROVE  Begins
    BY <2>2 DEF MoveTo, Send
  <2>3. CASE InsertAttempt(s)
    BY <2>2, <2>3 DEF InsertAttempt, AtStep
  <2>4. CASE DuplicateKey(s)
    BY <2>4 DEF DuplicateKey
  <2>5. ASSUME NEW outcome, Deliver(s, outcome) PROVE Goal
    <3>1. Begins /\ sending[s] \in Send
      BY <2>2, <2>5 DEF Deliver, AtStep
    <3>2. PICK key \in Keys : key = sending[s].key
      BY <3>1 DEF Send
    <3>3. /\ mailed[key] \in Seq(Mail) /\ sending[s].mail \in Mail
          /\ mailed'[key] = Append(mailed[key], sending[s].mail)
          /\ \A k \in Keys \ {key} : mailed'[k] = mailed[k]
      BY <2>5, <3>1, <3>2 DEF Deliver, Send
    <3>4. mailed'[key][Len(mailed'[key])] = sending[s].mail
      BY <3>3
    <3>5. Delivers
      BY <2>5, <3>3, <3>4 DEF Deliver, AtStep
    <3>6. QED BY <2>5, <3>1, <3>5 DEF Deliver
  <2>6. CASE Refuse(s)
    BY <2>2, <2>6 DEF Refuse, AtStep
  <2>7. CASE CommitAttempt(s)
    BY <2>7 DEF CommitAttempt
  <2>8. CASE CrashSend(s)
    BY <2>8 DEF CrashSend
  <2>9. QED BY <1>3, <2>1, <2>3, <2>4, <2>5, <2>6, <2>7, <2>8 DEF SenderStep
<1>4. QED BY <1>1, <1>2, <1>3, SendCases

(* An opt-out binds: once the requests under way to an address when it was *)
(* suppressed have ended, nothing more goes to it, whatever its spelling   *)
(* (_ensure_not_suppressed, _normalize_email, suppress).                   *)
THEOREM OptOutsBind == Spec => OptOutBinds
<1>1. ASSUME SendTypeOK, [Next]_vars, NEW a \in Addresses,
             IsSuppressed(a), ~ InFlightTo(a)
      PROVE  /\ IsSuppressed(a)' /\ ~ InFlightTo(a)'
             /\ \A k \in Keys : mailed'[k] # mailed[k]
                  => Normalize[mailed'[k][Len(mailed'[k])].to] # Normalize[a]
  BY <1>1, StepMails DEF IsSuppressed, InFlightTo
<1>2. SendTypeOK /\ [Next]_vars
        => [\A a \in Addresses : IsSuppressed(a) /\ ~ InFlightTo(a)
              => /\ IsSuppressed(a)' /\ ~ InFlightTo(a)'
                 /\ \A k \in Keys : mailed'[k] # mailed[k]
                      => Normalize[mailed'[k][Len(mailed'[k])].to] # Normalize[a]]_vars
  BY <1>1
<1>3. KeyInv => SendTypeOK
  BY DEF KeyInv
<1>4. QED BY <1>2, <1>3, KeyInvariant, PTL DEF Spec, OptOutBinds

(* A sent draft stays quiet: once its SENT attempt is committed and the    *)
(* requests under way have ended, no key sends it again.                   *)
THEOREM SentDraftsStayQuiet == Spec => SentDraftStaysQuiet
<1>1. ASSUME KeyInv, [Next]_vars, NEW d \in Drafts, SentDraft(d), ~ InFlightOf(d)
      PROVE  /\ SentDraft(d)' /\ ~ InFlightOf(d)'
             /\ \A k \in Keys : mailed'[k] # mailed[k]
                  => mailed'[k][Len(mailed'[k])].draft # d
  <2>1. SentDraft(d)'
    BY <1>1, SettledStep DEF SentDraft
  <2>2. QED BY <1>1, <2>1, StepMails DEF InFlightOf, KeyInv
<1>2. KeyInv /\ [Next]_vars
        => [\A d \in Drafts : SentDraft(d) /\ ~ InFlightOf(d)
              => /\ SentDraft(d)' /\ ~ InFlightOf(d)'
                 /\ \A k \in Keys : mailed'[k] # mailed[k]
                      => mailed'[k][Len(mailed'[k])].draft # d]_vars
  BY <1>1
<1>3. QED BY <1>2, KeyInvariant, PTL DEF Spec, SentDraftStaysQuiet
=============================================================================
