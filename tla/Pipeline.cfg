\* A user races batches of one over two attempts.
CONSTANTS
  Attempts = {a1, a2}
  Users = {u1}
  Sync = Sync
  Limit = 1
  Values = {}
  Currencies = {}
  NoStage = NoStage
  NoValue = NoValue
  NoCurrency = NoCurrency
  NoWork = NoWork
SPECIFICATION FairSpec
INVARIANT LedgerAccounts
PROPERTIES OneDecisionAtATime SyncCatchesUp
CHECK_DEADLOCK FALSE
