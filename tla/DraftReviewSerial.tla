------------------------- MODULE DraftReviewSerial -------------------------
(***************************************************************************)
(* What the review of drafts promises: every decision is taken, in one     *)
(* step, on the current state of the draft.  There are no requests, no     *)
(* snapshots and no unique keys here; DraftReview implements this module.  *)
(***************************************************************************)
EXTENDS Naturals, Sequences

CONSTANTS Drafts, Fields, Texts, Composed

VARIABLES generated, reviews

ledgerVars == <<generated, reviews>>

Decisions(ledger) ==
  IF ledger = <<>> \/ ledger[Len(ledger)].action = "EDIT"
    THEN {"EDIT", "APPROVE", "REJECT"}
  ELSE IF ledger[Len(ledger)].action = "REJECT" THEN {"EDIT"}
  ELSE {}

Shown(ledger) == IF ledger = <<>> THEN Composed ELSE ledger[Len(ledger)].content

(* An edit replaces the fields it names and keeps every other field as it  *)
(* is at that moment; a decision keeps them all.                           *)
Decide(d, action, replaced) ==
  /\ d \in generated
  /\ action \in Decisions(reviews[d])
  /\ replaced # {} <=> action = "EDIT"
  /\ \E content \in [Fields -> Texts] :
       /\ \A f \in Fields \ replaced : content[f] = Shown(reviews[d])[f]
       /\ reviews' = [reviews EXCEPT ![d] =
                        Append(@, [action   |-> action,
                                   content  |-> content,
                                   replaced |-> replaced])]
  /\ UNCHANGED generated

Create(d) ==
  /\ d \notin generated
  /\ generated' = generated \cup {d}
  /\ UNCHANGED reviews

Init == generated = {} /\ reviews = [d \in Drafts |-> <<>>]

Next == \E d \in Drafts :
  \/ Create(d)
  \/ \E action \in {"EDIT", "APPROVE", "REJECT"}, replaced \in SUBSET Fields :
       Decide(d, action, replaced)

Spec == Init /\ [][Next]_ledgerVars
=============================================================================
