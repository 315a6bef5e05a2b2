---------------------------- MODULE DraftReview ----------------------------
(***************************************************************************)
(* The human review of outreach drafts (application/campaigns.py).  A      *)
(* draft is generated once and never changes; every review decision is an  *)
(* appended event of its ledger, and the latest event is the draft's       *)
(* effective state.                                                        *)
(*                                                                         *)
(* Each HTTP request is one database transaction under InnoDB's REPEATABLE *)
(* READ: everything it reads comes from the snapshot taken when it began,  *)
(* and only its INSERT meets the rows others committed since.  Nothing but *)
(* the unique key (draft_id, revision_number) orders two reviewers.        *)
(***************************************************************************)
EXTENDS Naturals, Sequences

CONSTANTS
  Drafts,        \* identifiers of campaign drafts
  Reviewers,     \* requests that may be in flight at the same time
  Fields,        \* the editable fields: subject, body, call_to_action
  Texts,         \* what a field may hold
  Composed,      \* the content _compose gives a new draft
  Addresses,     \* e-mail addresses a contact may be verified at
  NoAddress,     \* the contact has no verified address
  NoRequest,     \* the reviewer has no request in flight
  MaxRevisions   \* bound: no request asks for a later revision

Contents == [Fields -> Texts]

ReviewActions == {"EDIT", "APPROVE", "REJECT"}

(* A review event.  "replaced", the fields the request named, is not       *)
(* stored: it is kept here to say what an edit may change.                 *)
ReviewEvent ==
  [action : ReviewActions, content : Contents, replaced : SUBSET Fields]

(* A request between its snapshot and its INSERT: the row it will insert.  *)
Request == [draft : Drafts, revision : Nat, event : ReviewEvent]

ASSUME ReviewAssumption ==
  /\ Composed \in Contents
  /\ NoAddress \notin Addresses
  /\ NoRequest \notin Request
  /\ MaxRevisions \in Nat

VARIABLES
  generated,  \* the drafts that exist
  pursuable,  \* pursuable[d]: the lead behind d may be pursued: status, current fit, role, targeting
  address,    \* address[d]: the latest VALID address of d's contact, or NoAddress
  reviews,    \* reviews[d]: the ledger of d; event i has revision_number i
  pending     \* pending[r]: the request of reviewer r, or NoRequest

reviewVars == <<generated, pursuable, address, reviews, pending>>

-----------------------------------------------------------------------------
(* What a ledger says of its draft (effective_state_for).                  *)

StatusAfter(action) ==
  CASE action = "EDIT"    -> "DRAFT"
    [] action = "APPROVE" -> "APPROVED"
    [] action = "REJECT"  -> "REJECTED"

EffectiveStatus(ledger) ==
  IF ledger = <<>> THEN "DRAFT" ELSE StatusAfter(ledger[Len(ledger)].action)

EffectiveContent(ledger) ==
  IF ledger = <<>> THEN Composed ELSE ledger[Len(ledger)].content

(* The fields an edit request supplies: at least one.                      *)
Patches == UNION {[S -> Texts] : S \in (SUBSET Fields) \ {{}}}

(* Mutant: an edit is applied to the draft row, not to its last revision.  *)
PatchedFromDraft(content, patch) ==
  [f \in Fields |-> IF f \in DOMAIN patch THEN patch[f] ELSE Composed[f]]

Patched(content, patch) ==
  [f \in Fields |-> IF f \in DOMAIN patch THEN patch[f] ELSE content[f]]

(* _validate_for_approval, and the same conditions in generate.            *)
Targetable(d) == pursuable[d] /\ address[d] # NoAddress

-----------------------------------------------------------------------------
ReviewInit ==
  /\ generated = {}
  /\ pursuable \in [Drafts -> BOOLEAN]
  /\ address \in [Drafts -> Addresses \cup {NoAddress}]
  /\ reviews = [d \in Drafts |-> <<>>]
  /\ pending = [r \in Reviewers |-> NoRequest]

Generate(d) ==
  /\ d \notin generated
  /\ Targetable(d)
  /\ generated' = generated \cup {d}
  /\ UNCHANGED <<pursuable, address, reviews, pending>>

(* Requalification, a fit gone stale, a targeting decision, new            *)
(* verification results: other services change what approval depends on.   *)
Reassess(d) ==
  /\ pursuable' = [pursuable EXCEPT ![d] = ~@]
  /\ UNCHANGED <<generated, address, reviews, pending>>

VerifyAddress(d, a) ==
  /\ address' = [address EXCEPT ![d] = a]
  /\ UNCHANGED <<generated, pursuable, reviews, pending>>

(* The part of a review request that reads: its snapshot is the state in   *)
(* which this step is taken.  A guard that fails ends the request unseen.  *)
Begin(r, d, event) ==
  /\ pending[r] = NoRequest
  /\ d \in generated
  /\ Len(reviews[d]) < MaxRevisions
  /\ pending' = [pending EXCEPT ![r] =
       [draft |-> d, revision |-> Len(reviews[d]) + 1, event |-> event]]
  /\ UNCHANGED <<generated, pursuable, address, reviews>>

RequestEdit(r, d, patch) ==
  /\ EffectiveStatus(reviews[d]) # "APPROVED"
  /\ Begin(r, d, [action   |-> "EDIT",
                  content  |-> Patched(EffectiveContent(reviews[d]), patch),
                  replaced |-> DOMAIN patch])

(* approve and reject repeat the effective content.                        *)
Decision(d, action) ==
  [action |-> action, content |-> EffectiveContent(reviews[d]), replaced |-> {}]

(* Mutant: a rejected draft can be approved without an edit.               *)
RequestApproveRejected(r, d) ==
  /\ EffectiveStatus(reviews[d]) # "APPROVED"
  /\ Targetable(d)
  /\ Begin(r, d, Decision(d, "APPROVE"))

RequestApprove(r, d) ==
  /\ EffectiveStatus(reviews[d]) = "DRAFT"
  /\ Targetable(d)
  /\ Begin(r, d, Decision(d, "APPROVE"))

RequestReject(r, d) ==
  /\ EffectiveStatus(reviews[d]) = "DRAFT"
  /\ Begin(r, d, Decision(d, "REJECT"))

(* Mutant: no unique key on (draft_id, revision_number).                   *)
RevisionAlwaysFree(p) == p.revision > 0

(* The unique key is free: no committed event has this revision_number.    *)
RevisionFree(p) == p.revision > Len(reviews[p.draft])

AppendEvent(r) ==
  LET p == pending[r] IN
  /\ p # NoRequest
  /\ RevisionFree(p)
  /\ reviews' = [reviews EXCEPT ![p.draft] = Append(@, p.event)]
  /\ pending' = [pending EXCEPT ![r] = NoRequest]
  /\ UNCHANGED <<generated, pursuable, address>>

(* The request rolls back and leaves nothing: IntegrityError on the unique *)
(* key, a lost connection or a crash of the worker.                        *)
AbandonReview(r) ==
  /\ pending[r] # NoRequest
  /\ pending' = [pending EXCEPT ![r] = NoRequest]
  /\ UNCHANGED <<generated, pursuable, address, reviews>>

ReviewNext ==
  \/ \E d \in Drafts :
       \/ Generate(d)
       \/ Reassess(d)
       \/ \E a \in Addresses \cup {NoAddress} : VerifyAddress(d, a)
  \/ \E r \in Reviewers :
       \/ AppendEvent(r)
       \/ AbandonReview(r)
       \/ \E d \in Drafts :
            \/ \E patch \in Patches : RequestEdit(r, d, patch)
            \/ RequestApprove(r, d)
            \/ RequestReject(r, d)

ReviewSpec == ReviewInit /\ [][ReviewNext]_reviewVars

-----------------------------------------------------------------------------
(* Every variable has its type.                                            *)
ReviewTypeOK ==
  /\ generated \subseteq Drafts
  /\ pursuable \in [Drafts -> BOOLEAN]
  /\ address \in [Drafts -> Addresses \cup {NoAddress}]
  /\ reviews \in [Drafts -> Seq(ReviewEvent)]
  /\ pending \in [Reviewers -> Request \cup {NoRequest}]

(* What may follow a ledger: nothing after an approval, only an edit after *)
(* a rejection, and every field the event does not replace stays as it was.*)
Follows(event, before) ==
  /\ EffectiveStatus(before) # "APPROVED"
  /\ EffectiveStatus(before) = "REJECTED" => event.action = "EDIT"
  /\ event.replaced # {} <=> event.action = "EDIT"
  /\ \A f \in Fields \ event.replaced :
       event.content[f] = EffectiveContent(before)[f]

(* No update is lost and no decision is about a text the reviewer did not  *)
(* see, whatever the requests raced with: every event follows the ledger   *)
(* before it (campaigns.py edit, approve, reject and _append_event).       *)
LedgerFollows ==
  \A d \in Drafts : \A i \in 1..Len(reviews[d]) :
    Follows(reviews[d][i], SubSeq(reviews[d], 1, i - 1))

(* An approved draft is settled: no request, however it interleaves with   *)
(* the approval, adds a revision after it.                                 *)
ApprovalIsFinal ==
  [][\A d \in Drafts : EffectiveStatus(reviews[d]) = "APPROVED"
                         => reviews'[d] = reviews[d]]_reviewVars

(* The ledger is what a single reviewer working alone could have written:  *)
(* concurrent review requests are serialised by the unique key.            *)
Serial == INSTANCE DraftReviewSerial
SerialReview == Serial!Spec
=============================================================================
