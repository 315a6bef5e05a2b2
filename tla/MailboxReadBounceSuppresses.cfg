\* ReadBounceSuppresses, a promise of the docs, against the code.
CONSTANTS
  a1 = a1
  a2 = a2
  bounce = bounce
  reply = reply
  unidentified = unidentified
  Attempts = {a1}
  Addresses = {x}
  Reporters = {}
  ManualKeys = {}
  WebhookKeys = {}
  Messages = {bounce, reply}
  Limit = 1
  MaxUid = 2
  MaxGeneration = 2
  NoReport = NoReport
  NoMessage = NoMessage
  NoMessageId = NoMessageId
  NoOutcome = NoOutcome
  NoAttempt = NoAttempt
  NoCheckpoint = NoCheckpoint
  NoRun = NoRun
  AddressOf <- MCAddressOf
  References <- MCReferences
  Outcome <- MCOutcome
  Unidentified <- MCUnidentified
  EventKeys <- MCEventKeys
  Reported <- MCReported
SPECIFICATION Spec
INVARIANT ReadBounceSuppresses
CHECK_DEADLOCK FALSE
