\* Two users edit value and currency of one opportunity.
CONSTANTS
  Attempts = {a1}
  Users = {u1, u2}
  Sync = Sync
  Limit = 2
  Values = {v}
  Currencies = {c}
  NoStage = NoStage
  NoValue = NoValue
  NoCurrency = NoCurrency
  NoWork = NoWork
SPECIFICATION Spec
INVARIANT ValuesHaveCurrency
CHECK_DEADLOCK FALSE
