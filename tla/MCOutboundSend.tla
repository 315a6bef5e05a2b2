--------------------------- MODULE MCOutboundSend ---------------------------
(* OutboundSend for TLC.  The review is kept small (one field): DraftReview *)
(* explores it by itself.  Two spellings of one address share a normal form.*)
EXTENDS OutboundSend, TLC

CONSTANTS Upper, Lower

MCFields == {"body"}
MCComposed == [f \in MCFields |-> CHOOSE t \in Texts : TRUE]
MCNormalize == [a \in Addresses |-> IF a = Upper THEN Lower ELSE a]

SenderSymmetry == Permutations(Senders) \cup Permutations(Keys)
=============================================================================
