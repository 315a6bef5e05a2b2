\* Two senders contend for one key; fairness makes every request end.
CONSTANTS
  Drafts = {d1}
  Reviewers = {r1}
  Texts = {x}
  Addresses = {Lower}
  Upper = Upper
  Lower = Lower
  NoAddress = NoAddress
  NoRequest = NoRequest
  MaxRevisions = 1
  Senders = {s1, s2}
  Keys = {k1, k2}
  NoSend = NoSend
  NoAttempt = NoAttempt
  MaxLost = 1
  Fields <- MCFields
  Composed <- MCComposed
  Normalize <- MCNormalize
SPECIFICATION FairSpec
PROPERTY SendEnds
