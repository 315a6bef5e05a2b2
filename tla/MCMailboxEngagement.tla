------------------------ MODULE MCMailboxEngagement ------------------------
(* MailboxEngagement for TLC: a bounce and a reply of one attempt, a       *)
(* second attempt to the same recipient, and an ambiguous reference.       *)
EXTENDS MailboxEngagement, TLC

CONSTANTS
  a1, a2,                      \* attempts
  bounce, reply, unidentified  \* mails

MCAddressOf == [a \in Attempts |-> CHOOSE x \in Addresses : TRUE]

(* The reply quotes every attempt: it is ambiguous once both are sent.     *)
MCReferences ==
  [m \in Messages |-> IF m = reply THEN Attempts ELSE {a1}]

MCOutcome ==
  [m \in Messages |-> IF m = bounce THEN "BOUNCED" ELSE "REPLIED"]

MCUnidentified == Messages \cap {unidentified}

MCReported == {"BOUNCED"}

MCEventKeys == ManualKeys \cup WebhookKeys \cup MailKeys
=============================================================================
