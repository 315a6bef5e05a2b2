CONSTANTS
  Rules = {1, 2}
  Criteria = {free, paid}
  PaidCriteria = {paid}
  Domains = {"d1", "d2", "d3"}
  InvalidDomains = {"d3"}
  Catalogue <- MCCatalogue
  PageSize = 2
  MaxNew = 1
  DailyLimit = 1
  BatchLimit = 2
  Seekers = {u1}
  Job = Job
  LastDay = 1
  MaxRequests = 1
  MaxFaults = 1
  NoRule = NoRule
  NoPage = NoPage
  Scopes = {1, 2}
  Admins = {m1}
  Cron = Cron
  LastPeriod = 1
  DueLimit = 2
  MaxEdits = 1
  MaxLost = 1
  NoPolicy = NoPolicy
  NoBatch = NoBatch
SPECIFICATION MCSpec
INVARIANTS DailyLimitHolds
CHECK_DEADLOCK FALSE
