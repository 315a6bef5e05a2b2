\* One draft, two senders, two keys, two spellings of an address.
CONSTANTS
  Drafts = {d1}
  Reviewers = {r1}
  Texts = {x, y}
  Addresses = {Upper, Lower}
  Upper = Upper
  Lower = Lower
  NoAddress = NoAddress
  NoRequest = NoRequest
  MaxRevisions = 2
  Senders = {s1, s2}
  Keys = {k1, k2}
  NoSend = NoSend
  NoAttempt = NoAttempt
  MaxLost = 1
  Fields <- MCFields
  Composed <- MCComposed
  Normalize <- MCNormalize
SYMMETRY SenderSymmetry
SPECIFICATION Spec
INVARIANTS TypeOK MailWasApproved AttemptsTellTheTruth
PROPERTIES KeyIsSettled OptOutBinds SentDraftStaysQuiet
