CONSTANTS
  Attempts = {a1, a2}
  Addresses = {x}
  Reporters = {r1, r2}
  ManualKeys = {m1}
  WebhookKeys = {w1}
  NoReport = NoReport
  AddressOf <- MCAddressOf
  EventKeys <- MCEventKeys
  Reported <- MCReported
  Owners = {o1, o2}
  Shared = Shared
  Ranks = {1, 2}
  Reviewers = {v1, v2}
  MaxVerdicts = 3
  NoReview = NoReview
  Domains = {d1, d2}
  Organizations = {o1, o2}
  SharedValues = {s1, s2}
  Importers = {i1, i2}
  MaxImportRows = 2
  MaxImports = 2
  NoCompany = NoCompany
  NoValue = NoValue
  NoImport = NoImport
  Workers = {k1, k2}
  Windows = {0, 1}
  MaxFailures = 3
  MaxLogins = 5
  NoLogin = NoLogin
  Operations = {"CONTACT_SEARCH", "EMAIL_FIND", "EMAIL_VERIFY", "ENRICH"}
  Callers = {c1, c2}
  Window = 1
  MaxClock = 2
  MaxCalls = 3
  NoCall = NoCall
  PersonaIds = {1, 2, 3, 4}
  PersonaNames = {n1, n2}
  MaxPersonas = 2
  Editors = {e1, e2}
  MaxReplaced = 2
  NoPersona = NoPersona
  Unwritten = Unwritten
  NoReplacement = NoReplacement
  p = p
  q = q
  Rows = {1, 2}
  People = {p, q}
  Keyed = {p}
  Users = {u1, u2}
  Cases = {"OPEN", "STRONG"}
  Limit = 1
  EmailBudget = 2
  MaxFound = 1
  MaxLandings = 3
  MaxPairLandings = 2
  NoRow = NoRow
  NoRequest = NoRequest
  Items <- MCItems
  MaxEvidence = 2
SPECIFICATION MCSpec
INVARIANTS
  RegistersTypeOK OutcomesSuppress StatusesAgree  ReadyIsTargetable
  RequestsAreHonest ReviewsSettle CountersAreHonest
PROPERTIES
  KeyNamesOneOutcome RecordsStand VerifiedMailNeverHurts
CHECK_DEADLOCK FALSE
