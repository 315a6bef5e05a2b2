\* Two keys, sent at the same time, each find the draft unsent.
CONSTANTS
  Drafts = {d1}
  Reviewers = {r1}
  Texts = {x, y}
  Addresses = {Upper, Lower}
  Upper = Upper
  Lower = Lower
  NoAddress = NoAddress
  NoRequest = NoRequest
  MaxRevisions = 2
  Senders = {s1, s2}
  Keys = {k1, k2}
  NoSend = NoSend
  NoAttempt = NoAttempt
  MaxLost = 1
  Fields <- MCFields
  Composed <- MCComposed
  Normalize <- MCNormalize
SPECIFICATION Spec
INVARIANT OneSuccessfulSendPerDraft
