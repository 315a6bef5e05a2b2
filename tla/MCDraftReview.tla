--------------------------- MODULE MCDraftReview ---------------------------
(* DraftReview for TLC: two fields of two texts make partial edits of      *)
(* different fields distinguishable.                                       *)
EXTENDS DraftReview, TLC

MCFields == {"subject", "body"}
MCComposed == [f \in MCFields |-> CHOOSE t \in Texts : TRUE]

(* Requests are interchangeable; texts are not, one of them is Composed.   *)
ReviewerSymmetry == Permutations(Reviewers)
=============================================================================
