CONSTANTS
  Requests = {k1, k2}
  Summaries = {d1, d2}
  Requesters = {r1, r2}
  Sweepers = {s1, s2}
  MaxItems = 2
  MaxSendAttempts = 2
  MaxSendFaults = 3
  MaxDeaths = 1
SPECIFICATION NotificationFairSpec
INVARIANTS
  NotificationTypeOK
  EachItemInOneDigest
PROPERTIES
  DeliveriesAreSettled
CHECK_DEADLOCK FALSE
