\* Two mails, two UIDs in each of two generations, batches of two, a manual report
\* beside the runs.
CONSTANTS
  a1 = a1
  a2 = a2
  bounce = bounce
  reply = reply
  unidentified = unidentified
  Attempts = {a1}
  Addresses = {x}
  Reporters = {r}
  ManualKeys = {m}
  WebhookKeys = {}
  Messages = {bounce, reply}
  Limit = 2
  MaxUid = 2
  MaxGeneration = 2
  NoReport = NoReport
  NoMessage = NoMessage
  NoMessageId = NoMessageId
  NoOutcome = NoOutcome
  NoAttempt = NoAttempt
  NoCheckpoint = NoCheckpoint
  NoRun = NoRun
  AddressOf <- MCAddressOf
  References <- MCReferences
  Outcome <- MCOutcome
  Unidentified <- MCUnidentified
  EventKeys <- MCEventKeys
  Reported <- MCReported
SPECIFICATION FairSpec
INVARIANTS ReadMailIsRecorded CursorIsHonest
PROPERTY BacklogDrains
CHECK_DEADLOCK FALSE
