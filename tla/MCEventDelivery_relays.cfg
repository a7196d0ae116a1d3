CONSTANTS
  journal = journal
  other = other
  Events <- OneEvent
  Subscribers <- BothSubscribers
  Interested <- MCInterested
  Known = {journal}
  Relays = {r1, r2}
  BatchSize = 1
  MaxAttempts = 2
  MaxFaults = 1
  MaxCrashes = 2
  MaxEvictions = 1
SPECIFICATION FairSpec
INVARIANTS
  TypeOK
  PublishedIsQueued
  DuplicatesCollapse
PROPERTIES
  ImplementsReliableDelivery
CHECK_DEADLOCK FALSE
