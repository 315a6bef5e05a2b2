\* Two reviewers race on one draft through up to three revisions.
CONSTANTS
  Drafts = {d1}
  Reviewers = {r1, r2}
  Texts = {x, y}
  Addresses = {a1}
  NoAddress = NoAddress
  NoRequest = NoRequest
  MaxRevisions = 3
  Fields <- MCFields
  Composed <- MCComposed
SPECIFICATION ReviewSpec
INVARIANT LedgerFollows
PROPERTIES ApprovalIsFinal SerialReview
